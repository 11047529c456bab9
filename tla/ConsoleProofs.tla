--------------------------- MODULE ConsoleProofs ----------------------------
(***************************************************************************)
(* Proofs about Console (kernel/src/dev: dev.c, dev_input.c, dev_tty.c),   *)
(* for every size of the terminals, the event ring and the line queue, any *)
(* programs, readers and keys: first what the screen shows, then what the  *)
(* readers get.                                                            *)
(***************************************************************************)
EXTENDS Console, LeastNumber, FiniteSetTheorems, SequenceTheorems

Queue == [buf : [0 .. TTY_COOK_BUF_SZ - 1 -> Int],
          front : 0 .. TTY_COOK_BUF_SZ - 1, rear : 0 .. TTY_COOK_BUF_SZ - 1]

\* A tty_t whose cursor is in C.
TerminalAt(C) == [lock : Nat, cooked : Nat, cursor : C, dirty : SUBSET Nat,
                  buf : [Cell -> Int], q : Queue]
Terminal == TerminalAt(Cell)

\* T has become U, and what no longer looks the same is marked.
Marked(T, U) ==
    /\ U \in Terminal
    /\ U.lock = T.lock /\ U.cooked = T.cooked /\ U.q = T.q
    /\ \A c \in Cell \ U.dirty :
          c \notin T.dirty /\ U.buf[c] = T.buf[c] /\ (c = U.cursor <=> c = T.cursor)

-----------------------------------------------------------------------------
(* The grid.                                                               *)

LEMMA Sizes ==
    ASSUME TtyAssumption
    PROVE  /\ Lines \in Nat /\ Columns \in Nat /\ Columns > 0 /\ Lines > 0
           /\ Size \in Nat /\ Size > 0 /\ Columns <= Size
           /\ Columns * (Lines - 1) \in Nat /\ Columns * (Lines - 1) + Columns = Size
<1>1. Lines \in Nat /\ Columns \in Nat /\ Columns > 0 /\ Lines > 0
  BY DEF TtyAssumption
<1>2. PICK m \in Nat : Lines = m + 1
  <2>1. Lines - 1 \in Nat /\ Lines = (Lines - 1) + 1
    BY <1>1
  <2>. QED  BY <2>1
<1>3. Columns * m \in Nat /\ (m + 1) * Columns = Columns * m + Columns
  BY <1>1, <1>2
<1>. QED  BY <1>1, <1>2, <1>3 DEF Size

(* The line of a cell: its first cell, and the line that follows.          *)
LEMMA RowOf ==
    ASSUME TtyAssumption, NEW x \in Cell
    PROVE  /\ x - (x % Columns) \in Cell
           /\ x - (x % Columns) + Columns \in 0 .. Size
           /\ (x - (x % Columns)) \div Columns = x \div Columns
<1>1. PICK n \in Nat \ {0} : n = Columns
  BY Sizes
<1>2. PICK l \in Nat \ {0} : l = Lines
  BY Sizes
<1>3. x \in Nat /\ x < l * n /\ Size = l * n
  BY <1>1, <1>2, Sizes DEF Cell, Size
<1>4. PICK d \in Nat, r \in 0 .. n - 1 : x = n * d + r /\ x % n = r /\ x \div n = d
  <2>1. x \div n \in Nat /\ x % n \in 0 .. n - 1 /\ x = n * (x \div n) + (x % n)
    BY <1>3
  <2>. QED  BY <2>1
<1>5. n * d \in Nat /\ n * d + n = n * (d + 1)
  OBVIOUS
<1>6. d + 1 <= l
  <2>. SUFFICES ASSUME l <= d PROVE FALSE
    BY <1>2
  <2>1. PICK e \in Nat : d = l + e
    <3>1. d - l \in Nat /\ d = l + (d - l)
      OBVIOUS
    <3>. QED  BY <3>1
  <2>2. n * d = l * n + n * e /\ n * e \in Nat /\ l * n \in Nat
    BY <2>1
  <2>. QED  BY <1>3, <1>4, <2>2
<1>7. n * (d + 1) <= l * n
  <2>1. PICK e \in Nat : l = d + 1 + e
    <3>1. l - (d + 1) \in Nat /\ l = d + 1 + (l - (d + 1))
      BY <1>6
    <3>. QED  BY <3>1
  <2>2. l * n = n * (d + 1) + n * e /\ n * e \in Nat /\ n * (d + 1) \in Nat
    BY <2>1
  <2>. QED  BY <2>2
<1>8. x - r = n * d /\ (n * d) \div n = d
  BY <1>4, <1>5
<1>9. n * d <= x /\ n * d + n <= Size /\ n * d < Size
  BY <1>3, <1>4, <1>5, <1>7
<1>10. x - (x % n) = n * d /\ (n * d) \div n = x \div n
  BY <1>4, <1>8
<1>11. n * d \in Cell /\ n * d + n \in 0 .. Size
  <2>. DEFINE s == n * d
  <2>1. s \in Nat /\ s < Size /\ s + n <= Size /\ Size \in Nat
    BY <1>5, <1>9, Sizes
  <2>. HIDE DEF s
  <2>2. s \in Cell /\ s + n \in 0 .. Size
    BY <2>1 DEF Cell
  <2>. QED  BY <2>2 DEF s
<1>. QED  BY <1>1, <1>10, <1>11

(* The loop of memcpy and memmove stays inside the grid.                   *)
LEMMA Copied ==
    ASSUME TtyAssumption, NEW m \in [Cell -> Int], NEW dst \in Nat, NEW src \in Nat,
           NEW n \in Nat, dst + n <= Size, src + n <= Size, NEW way
    PROVE  CopyLoop(m, dst, src, n, way) \in [Cell -> Int]
<1>. DEFINE I(k) == IF way = 1 THEN k - 1 ELSE n - k
            After(f, k) == [f EXCEPT ![dst + I(k)] = f[src + I(k)]]
            S == [Cell -> Int]
            F == [k \in 1 .. n |-> [x \in S |-> After(x, k)]]
            Goes(f) == f = [k \in 0 .. n |-> IF k = 0 THEN m ELSE After(f[k - 1], k)]
            g == CHOOSE f : Goes(f)
<1>1. \A k \in 1 .. n : I(k) \in 0 .. n - 1
  OBVIOUS
<1>2. \A k \in 1 .. n : dst + I(k) \in Cell /\ src + I(k) \in Cell
  BY <1>1, Sizes DEF Cell
<1>3. \A f \in S, k \in 1 .. n : After(f, k) \in S
  BY <1>2
<1>4. F \in [1 .. n -> [S -> S]]
  BY <1>3
<1>5. PICK f : Recursive(f, n, S, m, F)
  <2>. HIDE DEF F, S
  <2>1. m \in S
    BY DEF S
  <2>. QED  BY <1>4, <2>1, Recursion
<1>6. f \in [0 .. n -> S] /\ f[0] = m /\ \A k \in 1 .. n : f[k] = After(f[k - 1], k)
  <2>1. \A k \in 1 .. n : f[k - 1] \in S
    BY <1>5 DEF Recursive
  <2>. QED  BY <1>5, <2>1 DEF Recursive
<1>. HIDE DEF After, S, F
<1>7. Goes(f)
  BY <1>6
<1>8. Goes(g)
  BY <1>7
<1>9. CopyLoop(m, dst, src, n, way) = g[n]
  BY DEF CopyLoop, After
<1>. HIDE DEF g
<1>10. \A k \in 0 .. n : g[k] \in S
  <2>. DEFINE P == {k \in 0 .. n : g[k] \in S}
  <2>1. 0 \in P
    <3>1. g[0] = m /\ m \in S
      BY <1>8 DEF S
    <3>. QED  BY <3>1
  <2>2. \A k \in 1 .. n : k - 1 \in P => k \in P
    BY <1>3, <1>8
  <2>. HIDE DEF P
  <2>3. \A k \in 0 .. n : k \in P
    BY <2>1, <2>2, UpTo
  <2>. QED  BY <2>3 DEF P
<1>. QED  BY <1>10, <1>9, SMTT(60) DEF S

(* The grid moves up a line, and every cell is marked (dev_tty.c).         *)
LEMMA ScrolledUp ==
    ASSUME TtyAssumption, NEW T \in TerminalAt({Size})
    PROVE  /\ tty_upd_scrollup(T) \in Terminal
           /\ tty_upd_scrollup(T).lock = T.lock /\ tty_upd_scrollup(T).cooked = T.cooked
           /\ tty_upd_scrollup(T).q = T.q /\ tty_upd_scrollup(T).dirty = Cell
<1>1. T.buf \in [Cell -> Int] /\ T.cursor = Size
  BY DEF TerminalAt
<1>2. PICK moved \in [Cell -> Int] :
         moved = memmove(T.buf, 0, Columns, Columns * (Lines - 1))
  <2>1. CopyLoop(T.buf, 0, Columns, Columns * (Lines - 1), -1) \in [Cell -> Int]
    <3>1. PICK n \in Nat : n = Columns * (Lines - 1) /\ Columns + n <= Size /\ n <= Size
      BY Sizes
    <3>2. CopyLoop(T.buf, 0, Columns, n, -1) \in [Cell -> Int]
      <4>1. 0 + n <= Size /\ Columns \in Nat /\ 0 \in Nat
        BY <3>1, Sizes
      <4>. QED  BY <1>1, <3>1, <4>1, Copied
    <3>. QED  BY <3>1, <3>2
  <2>. QED  BY <2>1, Sizes DEF memmove
<1>3. Size - Columns \in Cell
  BY Sizes DEF Cell
<1>4. memset(moved, Size - Columns, NUL, Columns) \in [Cell -> Int]
  BY <1>2 DEF memset, NUL
<1>5. tty_upd_scrollup(T) =
        [T EXCEPT !.buf = memset(moved, Size - Columns, NUL, Columns),
                  !.cursor = Size - Columns, !.dirty = Cell]
  BY <1>1, <1>2 DEF tty_upd_scrollup
<1>6. Cell \in SUBSET Nat
  BY Sizes DEF Cell
<1>. QED  BY <1>3, <1>4, <1>5, <1>6 DEF Terminal, TerminalAt

(* A terminal whose cursor has moved and whose cells D are marked.         *)
LEMMA MarkedBy ==
    ASSUME NEW T \in Terminal, NEW d \in Cell, NEW b \in [Cell -> Int], NEW D \in SUBSET Nat,
           \A c \in Cell \ D : b[c] = T.buf[c] /\ (c = d <=> c = T.cursor)
    PROVE  Marked(T, [T EXCEPT !.cursor = d, !.buf = b, !.dirty = T.dirty \cup D])
BY DEF Marked, Terminal, TerminalAt

(* Whatever a character does to the grid, it marks (tty_putc).             *)
LEMMA PutChar ==
    ASSUME TtyAssumption, NEW T \in Terminal, NEW ch \in Int
    PROVE  Marked(T, tty_putc(T, ch))
<1>. DEFINE cr == T.cursor - (T.cursor % Columns)
            Move(c) == [T EXCEPT !.cursor = c]
            Back == IF T.cursor > 0
                    THEN [T EXCEPT !.cursor = @ - 1, !.buf[T.cursor - 1] = NUL]
                    ELSE T
            Put == [T EXCEPT !.buf[T.cursor] = ch, !.cursor = @ + 1]
            After(c, b, D) == [T EXCEPT !.cursor = c, !.buf = b, !.dirty = T.dirty \cup D]
<1>1. tty_putc(T, ch) =
        CASE ch = CR -> Mark(Move(cr), LineOf(cr))
          [] ch = BS -> Mark(Back, {Back.cursor, Back.cursor + 1})
          [] ch = NL -> IF cr + Columns = Size
                        THEN tty_upd_scrollup(Move(cr + Columns))
                        ELSE Mark(Move(cr + Columns), LineOf(cr) \cup LineOf(cr + Columns))
          [] OTHER   -> IF Put.cursor = Size THEN tty_upd_scrollup(Put)
                        ELSE Mark(Put, {T.cursor, Put.cursor})
  BY DEF tty_putc
<1>2. /\ T.lock \in Nat /\ T.cooked \in Nat /\ T.cursor \in Cell /\ T.dirty \in SUBSET Nat
      /\ T.buf \in [Cell -> Int] /\ T.q \in Queue
      /\ T = [lock |-> T.lock, cooked |-> T.cooked, cursor |-> T.cursor,
              dirty |-> T.dirty, buf |-> T.buf, q |-> T.q]
  BY DEF Terminal, TerminalAt
<1>3. PICK x \in Cell, n \in Nat \ {0} : x = T.cursor /\ n = Size
  BY <1>2, Sizes
<1>4. /\ x \in Nat /\ x + 1 \in 0 .. n /\ Cell = 0 .. n - 1
      /\ (x > 0 => x - 1 \in Cell)
  BY <1>3 DEF Cell
<1>5. /\ cr \in Cell /\ cr + Columns \in 0 .. n /\ x \in LineOf(cr)
      /\ \A c \in Cell : c \in LineOf(c)
      /\ \A c : LineOf(c) \in SUBSET Nat
  <2>1. cr \in Cell /\ cr + Columns \in 0 .. Size /\ cr \div Columns = x \div Columns
    BY <1>2, <1>3, RowOf
  <2>2. Cell \subseteq Nat
    BY <1>4
  <2>. HIDE DEF cr
  <2>. QED  BY <1>3, <2>1, <2>2 DEF LineOf
<1>6. CR = 13 /\ BS = 8 /\ NL = 10 /\ NUL \in Int
  BY DEF CR, BS, NL, NUL
<1>. HIDE DEF cr
<1>7. CASE ch = CR
  <2>1. tty_putc(T, ch) = Mark(Move(cr), LineOf(cr))
    <3>. HIDE DEF Move, Back, Put
    <3>. QED  BY <1>1, <1>6, <1>7
  <2>2. Mark(Move(cr), LineOf(cr)) = After(cr, T.buf, LineOf(cr))
    BY <1>2 DEF Mark
  <2>3. Marked(T, After(cr, T.buf, LineOf(cr)))
    <3>1. \A c \in Cell \ LineOf(cr) : c # cr /\ c # x
      BY <1>5
    <3>. QED  BY <1>2, <1>3, <1>5, <3>1, MarkedBy
  <2>. QED  BY <2>1, <2>2, <2>3
<1>8. CASE ch = BS
  <2>1. tty_putc(T, ch) = Mark(Back, {Back.cursor, Back.cursor + 1})
    <3>. HIDE DEF Move, Back, Put
    <3>. QED  BY <1>1, <1>6, <1>8
  <2>2. CASE x > 0
    <3>1. PICK d \in Cell : x = d + 1 /\ d = x - 1 /\ d \in Nat
      BY <1>4, <2>2
    <3>. DEFINE b == [T.buf EXCEPT ![d] = NUL]
    <3>2. Back = [T EXCEPT !.cursor = d, !.buf = b]
      <4>1. Back = [T EXCEPT !.cursor = @ - 1, !.buf[T.cursor - 1] = NUL]
        BY <1>3, <2>2
      <4>. QED  BY <1>2, <1>3, <3>1, <4>1
    <3>3. Mark(Back, {Back.cursor, Back.cursor + 1}) = After(d, b, {d, d + 1})
      BY <1>2, <3>2 DEF Mark
    <3>4. Marked(T, After(d, b, {d, d + 1}))
      <4>1. b \in [Cell -> Int] /\ {d, d + 1} \in SUBSET Nat
        BY <1>2, <1>6, <3>1, SMTT(60)
      <4>2. \A c \in Cell \ {d, d + 1} : b[c] = T.buf[c] /\ c # d /\ c # x
        BY <1>2, <3>1
      <4>. HIDE DEF b
      <4>. QED  BY <1>3, <4>1, <4>2, MarkedBy
    <3>. QED  BY <2>1, <3>3, <3>4
  <2>3. CASE ~(x > 0)
    <3>1. Back = T
      BY <1>3, <2>3
    <3>2. Mark(T, {x, x + 1}) = After(x, T.buf, {x, x + 1})
      BY <1>2, <1>3 DEF Mark
    <3>3. {x, x + 1} \in SUBSET Nat
      BY <1>4
    <3>4. Marked(T, After(x, T.buf, {x, x + 1}))
      BY <1>2, <1>3, <3>3, MarkedBy
    <3>. HIDE DEF Back, After
    <3>. QED  BY <1>3, <2>1, <3>1, <3>2, <3>4
  <2>. QED  BY <2>2, <2>3
<1>9. CASE ch = NL
  <2>1. tty_putc(T, ch) = IF cr + Columns = Size THEN tty_upd_scrollup(Move(cr + Columns))
            ELSE Mark(Move(cr + Columns), LineOf(cr) \cup LineOf(cr + Columns))
    <3>. HIDE DEF Move, Back, Put
    <3>. QED  BY <1>1, <1>6, <1>9
  <2>2. CASE cr + Columns = Size
    <3>1. Move(Size) \in TerminalAt({Size})
      BY <1>2 DEF TerminalAt
    <3>2. Move(Size).lock = T.lock /\ Move(Size).cooked = T.cooked /\ Move(Size).q = T.q
      BY <1>2
    <3>3. tty_putc(T, ch) = tty_upd_scrollup(Move(Size))
      BY <2>1, <2>2
    <3>. HIDE DEF Move
    <3>. QED  BY <3>1, <3>2, <3>3, ScrolledUp DEF Marked
  <2>3. CASE cr + Columns # Size
    <3>1. PICK d \in Cell : d = cr + Columns
      BY <1>3, <1>4, <1>5, <2>3
    <3>. DEFINE D == LineOf(cr) \cup LineOf(d)
    <3>2. tty_putc(T, ch) = Mark(Move(d), D)
      BY <2>1, <2>3, <3>1
    <3>3. Mark(Move(d), D) = After(d, T.buf, D)
      BY <1>2 DEF Mark
    <3>4. D \in SUBSET Nat /\ \A c \in Cell \ D : c # d /\ c # x
      BY <1>5
    <3>5. Marked(T, After(d, T.buf, D))
      <4>. HIDE DEF D
      <4>. QED  BY <1>2, <1>3, <3>4, MarkedBy
    <3>. QED  BY <3>2, <3>3, <3>5
  <2>. QED  BY <2>2, <2>3
<1>10. CASE ch \notin {CR, BS, NL}
  <2>1. tty_putc(T, ch) = IF Put.cursor = Size THEN tty_upd_scrollup(Put)
                          ELSE Mark(Put, {T.cursor, Put.cursor})
    <3>. HIDE DEF Move, Back, Put
    <3>. QED  BY <1>1, <1>10
  <2>. DEFINE b == [T.buf EXCEPT ![x] = ch]
  <2>2. Put = [T EXCEPT !.cursor = x + 1, !.buf = b] /\ Put.cursor = x + 1
    BY <1>2, <1>3
  <2>3. b \in [Cell -> Int] /\ \A c \in Cell : c # x => b[c] = T.buf[c]
    BY <1>2, <1>3
  <2>. HIDE DEF b
  <2>4. CASE x + 1 = Size
    <3>1. Put \in TerminalAt({Size})
      BY <1>2, <2>2, <2>3, <2>4 DEF TerminalAt
    <3>2. Put.lock = T.lock /\ Put.cooked = T.cooked /\ Put.q = T.q
      BY <1>2
    <3>3. tty_putc(T, ch) = tty_upd_scrollup(Put)
      BY <2>1, <2>2, <2>4
    <3>. HIDE DEF Put
    <3>. QED  BY <3>1, <3>2, <3>3, ScrolledUp DEF Marked
  <2>5. CASE x + 1 # Size
    <3>1. PICK d \in Cell : d = x + 1 /\ d \in Nat
      BY <1>3, <1>4, <2>5
    <3>2. tty_putc(T, ch) = Mark(Put, {x, d})
      <4>. HIDE DEF Put
      <4>. QED  BY <1>3, <2>1, <2>2, <2>5, <3>1
    <3>3. Mark(Put, {x, d}) = After(d, b, {x, d})
      BY <1>2, <2>2, <3>1 DEF Mark
    <3>4. {x, d} \in SUBSET Nat /\ \A c \in Cell \ {x, d} : b[c] = T.buf[c] /\ c # x /\ c # d
      BY <1>4, <2>3, <3>1
    <3>5. Marked(T, After(d, b, {x, d}))
      BY <1>3, <2>3, <3>4, MarkedBy
    <3>. QED  BY <3>2, <3>3, <3>5
  <2>. QED  BY <2>4, <2>5
<1>. QED  BY <1>7, <1>8, <1>9, <1>10

LEMMA MarkedAgain ==
    ASSUME NEW T, NEW U, NEW V, Marked(T, U), Marked(U, V)
    PROVE  Marked(T, V)
BY DEF Marked

LEMMA PutAll ==
    ASSUME TtyAssumption, NEW T \in Terminal, NEW s \in Seq(Int)
    PROVE  Marked(T, Puts(T, s))
<1>1. PICK n \in Nat : n = Len(s) /\ \A k \in 1 .. n : s[k] \in Int
  BY ElementOfSeq, LenProperties
<1>. DEFINE F == [k \in 1 .. n |-> [U \in Terminal |-> tty_putc(U, s[k])]]
            Goes(f) == f = [k \in 0 .. n |-> IF k = 0 THEN T ELSE tty_putc(f[k - 1], s[k])]
            g == CHOOSE f : Goes(f)
<1>2. \A U \in Terminal, k \in 1 .. n : Marked(U, tty_putc(U, s[k]))
  BY <1>1, PutChar
<1>3. F \in [1 .. n -> [Terminal -> Terminal]]
  BY <1>2 DEF Marked
<1>4. PICK f : Recursive(f, n, Terminal, T, F)
  <2>. HIDE DEF F
  <2>. QED  BY <1>1, <1>3, Recursion
<1>5. /\ f \in [0 .. n -> Terminal] /\ f[0] = T
      /\ \A k \in 1 .. n : f[k] = tty_putc(f[k - 1], s[k])
  <2>1. \A k \in 1 .. n : f[k - 1] \in Terminal
    BY <1>1, <1>4, SMTT(60) DEF Recursive
  <2>. QED  BY <1>4, <2>1 DEF Recursive
<1>6. Goes(f)
  BY <1>5
<1>7. Goes(g)
  BY <1>6
<1>8. Puts(T, s) = g[n]
  BY <1>1 DEF Puts
<1>. HIDE DEF g
<1>9. \A k \in 0 .. n : Marked(T, g[k])
  <2>. DEFINE P == {k \in 0 .. n : Marked(T, g[k])}
  <2>1. 0 \in P
    <3>1. g[0] = T
      BY <1>1, <1>7
    <3>. QED  BY <1>1, <3>1 DEF Marked
  <2>2. ASSUME NEW k \in 1 .. n, k - 1 \in P PROVE k \in P
    <3>1. g[k] = tty_putc(g[k - 1], s[k])
      BY <1>1, <1>7, SMTT(60)
    <3>2. Marked(T, g[k - 1]) /\ g[k - 1] \in Terminal
      BY <2>2 DEF Marked
    <3>3. Marked(T, g[k])
      BY <1>2, <3>1, <3>2, MarkedAgain
    <3>. QED  BY <1>1, <3>3
  <2>. HIDE DEF P
  <2>3. \A k \in 0 .. n : k \in P
    BY <1>1, <2>1, <2>2, UpTo
  <2>. QED  BY <2>3 DEF P
<1>. QED  BY <1>1, <1>8, <1>9

-----------------------------------------------------------------------------
(* The line queue.                                                         *)

LEMMA Around ==
    ASSUME NEW n \in Nat \ {0}, NEW i \in 0 .. n - 1
    PROVE  /\ (i + 1) % n = IF i + 1 = n THEN 0 ELSE i + 1
           /\ (i - 1) % n = IF i = 0 THEN n - 1 ELSE i - 1
           /\ (i + 1) % n \in 0 .. n - 1 /\ (i - 1) % n \in 0 .. n - 1
<1>1. (i + 1) % n = IF i + 1 = n THEN 0 ELSE i + 1
  <2>1. CASE i + 1 = n
    BY <2>1
  <2>2. CASE i + 1 # n
    BY <2>2
  <2>. QED  BY <2>1, <2>2
<1>2. (i - 1) % n = IF i = 0 THEN n - 1 ELSE i - 1
  <2>1. CASE i = 0
    <3>1. (0 - 1) % n = n - 1
      OBVIOUS
    <3>. QED  BY <2>1, <3>1
  <2>2. CASE i # 0
    BY <2>2
  <2>. QED  BY <2>1, <2>2
<1>. QED  BY <1>1, <1>2

(* The positions of the queue, counted from one of them.                   *)
LEMMA Offset ==
    ASSUME NEW n \in Nat \ {0}, NEW i \in 0 .. n - 1, NEW j \in 0 .. n - 1
    PROVE  \E k \in 0 .. n - 1 : (i + k) % n = j
<1>1. CASE i <= j
  <2>1. j - i \in 0 .. n - 1 /\ (i + (j - i)) % n = j
    BY <1>1
  <2>. QED  BY <2>1
<1>2. CASE ~(i <= j)
  <2>1. j - i + n \in 0 .. n - 1 /\ i + (j - i + n) = j + n
    BY <1>2
  <2>2. (j + n) % n = j
    OBVIOUS
  <2>. QED  BY <2>1, <2>2
<1>. QED  BY <1>1, <1>2

\* The queue has its terminator.
Terminated(q) == q.buf[q.rear] = NUL

LEMMA Fields ==
    ASSUME NEW q \in Queue
    PROVE  /\ q = [buf |-> q.buf, front |-> q.front, rear |-> q.rear]
           /\ q.buf \in [0 .. TTY_COOK_BUF_SZ - 1 -> Int]
           /\ q.front \in 0 .. TTY_COOK_BUF_SZ - 1 /\ q.rear \in 0 .. TTY_COOK_BUF_SZ - 1
BY DEF Queue

LEMMA Enqueued ==
    ASSUME TtyAssumption, NEW q \in Queue, NEW ch \in Int
    PROVE  tty_enqueue(q, ch) \in Queue /\ Terminated(tty_enqueue(q, ch))
<1>1. PICK r \in 0 .. TTY_COOK_BUF_SZ - 1 : r = Next1(q.rear)
  BY Fields, Around DEF Next1, TtyAssumption
<1>2. NUL \in Int
  BY DEF NUL
<1>. DEFINE b == [q.buf EXCEPT ![q.rear] = ch, ![r] = NUL]
<1>3. b \in [0 .. TTY_COOK_BUF_SZ - 1 -> Int] /\ b[r] = NUL
  BY <1>2, Fields
<1>4. tty_enqueue(q, ch) = [q EXCEPT !.buf = b, !.rear = r]
  BY <1>1, Fields DEF tty_enqueue
<1>. HIDE DEF b
<1>5. tty_enqueue(q, ch) = [buf |-> b, front |-> q.front, rear |-> r]
  BY <1>4, Fields
<1>. QED  BY <1>3, <1>5, Fields DEF Queue, Terminated

LEMMA PoppedBack ==
    ASSUME TtyAssumption, NEW q \in Queue
    PROVE  tty_pop_back(q) \in Queue /\ Terminated(tty_pop_back(q))
<1>1. PICK r \in 0 .. TTY_COOK_BUF_SZ - 1 : r = LastPos(q)
  BY Fields, Around DEF LastPos, TtyAssumption
<1>2. NUL \in Int
  BY DEF NUL
<1>. DEFINE b == [q.buf EXCEPT ![r] = NUL]
<1>3. b \in [0 .. TTY_COOK_BUF_SZ - 1 -> Int] /\ b[r] = NUL
  BY <1>2, Fields
<1>4. tty_pop_back(q) = [q EXCEPT !.buf = b, !.rear = r]
  <2>1. tty_pop_back(q) = [q EXCEPT !.buf[r] = NUL, !.rear = r]
    BY <1>1 DEF tty_pop_back
  <2>. QED  BY <2>1, Fields
<1>. HIDE DEF b
<1>5. tty_pop_back(q) = [buf |-> b, front |-> q.front, rear |-> r]
  BY <1>4, Fields
<1>. QED  BY <1>3, <1>5, Fields DEF Queue, Terminated

(* A terminated queue has a line to read.                                  *)
LEMMA LineEnds ==
    ASSUME TtyAssumption, NEW q \in Queue, Terminated(q)
    PROVE  /\ LineLen(q) \in 0 .. TTY_COOK_BUF_SZ - 1
           /\ q.buf[(q.front + LineLen(q)) % TTY_COOK_BUF_SZ] = NUL
           /\ \A i \in 0 .. LineLen(q) - 1 : q.buf[(q.front + i) % TTY_COOK_BUF_SZ] # NUL
<1>. DEFINE At0(k) == q.buf[(q.front + k) % TTY_COOK_BUF_SZ]
            D == {k \in 0 .. TTY_COOK_BUF_SZ - 1 : At0(k) = NUL}
            Ends(k) == At0(k) = NUL /\ \A i \in 0 .. k - 1 : At0(i) # NUL
<1>1. PICK n \in Nat \ {0} : n = TTY_COOK_BUF_SZ
  BY DEF TtyAssumption
<1>2. q.front \in 0 .. n - 1 /\ q.rear \in 0 .. n - 1
  BY <1>1 DEF Queue
<1>3. PICK j \in 0 .. n - 1 : (q.front + j) % n = q.rear
  BY <1>2, Offset
<1>4. j \in D
  BY <1>1, <1>3 DEF Terminated
<1>5. PICK k \in D : \A e \in D : ~(e < k)
  <2>1. D \subseteq Nat
    OBVIOUS
  <2>. HIDE DEF D
  <2>. QED  BY <1>4, <2>1, Smallest
<1>6. k \in 0 .. n - 1 /\ Ends(k)
  <2>1. \A i \in 0 .. k - 1 : i \in 0 .. n - 1 /\ i < k
    BY <1>1, <1>5
  <2>. QED  BY <1>1, <1>5, <2>1
<1>7. \A i \in 0 .. n : Ends(i) => i = k
  BY <1>6
<1>8. LineLen(q) = k
  <2>1. LineLen(q) = CHOOSE i \in 0 .. n : Ends(i)
    BY <1>1 DEF LineLen
  <2>2. k \in 0 .. n
    BY <1>6
  <2>. HIDE DEF Ends
  <2>. QED  BY <1>6, <1>7, <2>1, <2>2
<1>. QED  BY <1>1, <1>6, <1>8

LEMMA LineSkipped ==
    ASSUME TtyAssumption, NEW q \in Queue, Terminated(q)
    PROVE  SkipLine(q) \in Queue /\ Terminated(SkipLine(q))
<1>1. PICK n \in Nat \ {0} : n = TTY_COOK_BUF_SZ
  BY DEF TtyAssumption
<1>2. LineLen(q) \in 0 .. n - 1
  BY <1>1, LineEnds
<1>3. (q.front + LineLen(q) + 1) % n \in 0 .. n - 1
  BY <1>1, <1>2, SMTT(60) DEF Queue
<1>4. SkipLine(q) = [buf |-> q.buf, front |-> (q.front + LineLen(q) + 1) % n, rear |-> q.rear]
  BY <1>1, SMTT(60) DEF SkipLine, Queue
<1>. QED  BY <1>1, <1>3, <1>4 DEF Queue, Terminated

-----------------------------------------------------------------------------
(* Types.                                                                  *)

Event == {NoEvent} \cup [ctrl : BOOLEAN, alt : BOOLEAN, data : Nat \ {0}]

Device == [events : [0 .. NEVENTS - 1 -> Event], front : 0 .. NEVENTS - 1,
           rear : 0 .. NEVENTS - 1, event_sem : Nat, capslock : BOOLEAN,
           down : SUBSET (Shift \cup Ctrl \cup Alt)]

InputOK ==
    /\ in \in Device
    /\ itask \in {"drain", "timer", "wait", "signal_drain", "signal_wait"}
    /\ taking \in SUBSET {TtyTask}

WritesOK ==
    /\ write = [p \in Writer |-> write[p]]
    /\ \A p \in Writer :
          /\ write[p] = [pc |-> write[p].pc, tty |-> write[p].tty,
                         data |-> write[p].data, sprites |-> write[p].sprites]
          /\ write[p].pc \in {"idle", "lock", "put", "scan", "draw", "clear"}
          /\ write[p].tty \in Tty /\ write[p].data \in Seq(Int)

TtysOK ==
    /\ tty \in [Tty -> Terminal]
    /\ \A t \in Tty : tty[t].cooked > 0 => Terminated(tty[t].q)
    /\ reading # {} => Terminated(tty[1].q)

Task == [pc : {"boot", "read", "handle", "fbset", "after", "mark"}, ev : Event, tty : Tty]
TaskOK == ttask \in Task

TypeOK == InputOK /\ WritesOK /\ TtysOK /\ TaskOK /\ current \in Tty

LEMMA Tasks ==
    ASSUME ConsoleAssumption
    PROVE  /\ TtyTask \in Writer /\ Program \subseteq Writer
           /\ \A p \in Writer : p # TtyTask => p \in Program
           /\ Consumer = {TtyTask} /\ Text \in Seq(Int)
           /\ 1 \in Tty /\ 2 \in Tty
BY DEF ConsoleAssumption

(* The characters of the keys are not 0.                                   *)
LEMMA Keymap ==
    ASSUME NEW k \in DOMAIN keymap
    PROVE  keymap[k][1] \in Nat \ {0} /\ keymap[k][2] \in Nat \ {0}
BY DEF keymap

LEMMA KeyEvents ==
    ASSUME NEW k \in DOMAIN keymap, NEW ctrl \in BOOLEAN, NEW alt \in BOOLEAN,
           NEW shift, NEW caps
    PROVE  KeyEvent(k, ctrl, alt, shift, caps) \in Event
BY Keymap DEF KeyEvent, event, Event

(* A task calls tty_write or tty_render.                                   *)
LEMMA Called ==
    ASSUME WritesOK, NEW p \in Writer, NEW t \in Tty, NEW s \in Seq(Int),
           NEW pc \in {"lock", "scan"}, Call(p, t, s, pc)
    PROVE  /\ WritesOK' /\ write[p].pc = "idle"
           /\ write'[p].pc = pc /\ write'[p].tty = t
           /\ \A q \in Writer : q # p => write'[q] = write[q]
<1>. DEFINE W == [pc |-> pc, tty |-> t, data |-> s, sprites |-> <<>>]
<1>1. [NoWrite EXCEPT !.pc = pc, !.tty = t, !.data = s] = W
  <2>1. NoWrite = [pc |-> "idle", tty |-> 1, data |-> <<>>, sprites |-> <<>>]
    BY DEF NoWrite
  <2>2. PICK r : r = [NoWrite EXCEPT !.pc = pc]
    OBVIOUS
  <2>3. r = [pc |-> pc, tty |-> 1, data |-> <<>>, sprites |-> <<>>]
    BY <2>1, <2>2
  <2>4. PICK u : u = [r EXCEPT !.tty = t]
    OBVIOUS
  <2>5. u = [pc |-> pc, tty |-> t, data |-> <<>>, sprites |-> <<>>]
    BY <2>3, <2>4
  <2>6. [u EXCEPT !.data = s] = W
    BY <2>5
  <2>. QED  BY <2>2, <2>4, <2>6
<1>2. W = [pc |-> W.pc, tty |-> W.tty, data |-> W.data, sprites |-> W.sprites]
      /\ W.pc = pc /\ W.tty = t /\ W.data = s
  OBVIOUS
<1>. HIDE DEF W
<1>3. write' = [write EXCEPT ![p] = W] /\ write[p].pc = "idle"
  BY <1>1 DEF Call
<1>4. /\ write'[p] = W
      /\ \A q \in Writer : q # p => write'[q] = write[q]
      /\ write' = [q \in Writer |-> write'[q]]
  BY <1>3 DEF WritesOK
<1>5. WritesOK'
  BY <1>2, <1>4 DEF WritesOK
<1>. QED  BY <1>2, <1>3, <1>4, <1>5

(* A task goes on in tty_write.                                            *)
LEMMA Stepped ==
    ASSUME WritesOK, tty \in [Tty -> Terminal], NEW p \in Writer, NEW T \in Terminal,
           NEW pc \in {"put", "scan", "clear"}, Step(p, T, pc)
    PROVE  /\ WritesOK' /\ tty' \in [Tty -> Terminal]
           /\ write'[p] = [write[p] EXCEPT !.pc = pc]
           /\ write'[p].pc = pc /\ write'[p].tty = write[p].tty
           /\ write'[p].sprites = write[p].sprites
           /\ \A q \in Writer : q # p => write'[q] = write[q]
           /\ tty'[write[p].tty] = T
           /\ \A t \in Tty : t # write[p].tty => tty'[t] = tty[t]
           /\ current' = current /\ show_cursor' = show_cursor
<1>1. /\ write'[p] = [write[p] EXCEPT !.pc = pc]
      /\ \A q \in Writer : q # p => write'[q] = write[q]
      /\ write' = [q \in Writer |-> write'[q]]
  BY DEF Step, WritesOK
<1>2. write'[p] = [pc |-> pc, tty |-> write[p].tty,
                   data |-> write[p].data, sprites |-> write[p].sprites]
  BY <1>1 DEF WritesOK
<1>3. WritesOK'
  BY <1>1, <1>2, ZenonT(60) DEF WritesOK
<1>. QED  BY <1>1, <1>2, <1>3 DEF Step, WritesOK

-----------------------------------------------------------------------------
(* The event ring (dev_input.c).                                           *)

LEMMA RingSlots ==
    ASSUME InputAssumption, in \in Device
    PROVE  /\ in.front \in 0 .. NEVENTS - 1 /\ in.rear \in 0 .. NEVENTS - 1
           /\ (in.front + 1) % NEVENTS \in 0 .. NEVENTS - 1
           /\ (in.rear + 1) % NEVENTS \in 0 .. NEVENTS - 1
           /\ in.event_sem \in Nat /\ Popped \in Event
<1>1. PICK n \in Nat \ {0} : n = NEVENTS
  BY DEF InputAssumption
<1>2. in.front \in 0 .. n - 1 /\ in.rear \in 0 .. n - 1 /\ in.event_sem \in Nat
  BY <1>1 DEF Device
<1>3. (in.front + 1) % n \in 0 .. n - 1 /\ (in.rear + 1) % n \in 0 .. n - 1
  BY <1>2, Around
<1>4. Popped \in Event
  BY DEF Popped, Device
<1>. QED  BY <1>1, <1>2, <1>3, <1>4

LEMMA Pushed ==
    ASSUME InputAssumption, in \in Device, NEW ev \in Event, NEW next, push_event(ev, next)
    PROVE  in' \in Device /\ itask' = next
<1>1. PICK r \in 0 .. NEVENTS - 1 : r = (in.rear + 1) % NEVENTS
  BY RingSlots
<1>2. in' = [in EXCEPT !.events = [in.events EXCEPT ![in.rear] = ev], !.rear = r]
  BY <1>1 DEF push_event
<1>3. [in.events EXCEPT ![in.rear] = ev] \in [0 .. NEVENTS - 1 -> Event]
  BY DEF Device
<1>. DEFINE es == [in.events EXCEPT ![in.rear] = ev]
<1>. HIDE DEF es
<1>4. [in EXCEPT !.events = es, !.rear = r] \in Device
  BY <1>3 DEF es, Device
<1>. QED  BY <1>2, <1>4 DEF push_event, es

LEMMA KeyTyped ==
    ASSUME InputAssumption, in \in Device, NEW s, input_keydown(s)
    PROVE  in' \in Device /\ (itask' = itask \/ itask' = "signal_drain")
<1>1. CASE /\ s.code \in Shift \cup Ctrl \cup Alt
           /\ in' = [in EXCEPT !.down = IF s.keydown THEN @ \cup {s.code}
                                                     ELSE @ \ {s.code}]
           /\ UNCHANGED <<itask, panicked>>
  BY <1>1 DEF Device
<1>2. CASE /\ s.code = "CAPSLOCK"
           /\ in' = [in EXCEPT !.capslock = (@ # s.keydown)]
           /\ UNCHANGED <<itask, panicked>>
  BY <1>2 DEF Device
<1>3. CASE /\ s.code \in DOMAIN keymap /\ s.keydown
           /\ push_event(KeyEvent(s.code, Held(Ctrl), Held(Alt), Held(Shift),
                                  in.capslock), "signal_drain")
  <2>1. Held(Ctrl) \in BOOLEAN /\ Held(Alt) \in BOOLEAN
    BY DEF Held
  <2>2. KeyEvent(s.code, Held(Ctrl), Held(Alt), Held(Shift), in.capslock) \in Event
    BY <1>3, <2>1, KeyEvents
  <2>. QED  BY <1>3, <2>2, Pushed
<1>4. CASE UNCHANGED <<in, itask, panicked>>
  BY <1>4
<1>. QED  BY <1>1, <1>2, <1>3, <1>4 DEF input_keydown

LEMMA InputTyped ==
    ASSUME InputAssumption, InputOK, dev_input_task
    PROVE  InputOK'
<1>1. CASE Drain
  <2>1. taking' = taking
    BY <1>1 DEF Drain
  <2>2. in' \in Device /\ itask' \in {itask, "signal_drain", "timer"}
    BY <1>1, KeyTyped DEF Drain, InputOK
  <2>. QED  BY <2>1, <2>2 DEF InputOK
<1>2. CASE Tick
  <2>1. NoEvent \in Event
    BY DEF Event
  <2>. QED  BY <1>2, <2>1, Pushed DEF Tick, InputOK
<1>3. CASE PushSignal
  BY <1>3 DEF PushSignal, InputOK, Device
<1>4. CASE WaitIrq
  BY <1>4 DEF WaitIrq, InputOK
<1>. QED  BY <1>1, <1>2, <1>3, <1>4 DEF dev_input_task

LEMMA KeyboardTyped ==
    ASSUME InputOK, Keyboard
    PROVE  InputOK'
BY DEF Keyboard, KeyStroke, input_notify, InputOK

LEMMA PopTyped ==
    ASSUME InputAssumption, InputOK, PopWait(TtyTask) \/ PopTake(TtyTask)
    PROVE  InputOK'
<1>1. CASE PopWait(TtyTask)
  BY <1>1, SMTT(60) DEF PopWait, InputOK, Device
<1>2. CASE PopTake(TtyTask)
  <2>1. in' = [in EXCEPT !.front = (in.front + 1) % NEVENTS]
    BY <1>2 DEF PopTake
  <2>2. in' \in Device
    BY <2>1, RingSlots DEF InputOK, Device
  <2>. QED  BY <1>2, <2>2 DEF PopTake, InputOK
<1>. QED  BY <1>1, <1>2

-----------------------------------------------------------------------------
(* The inductive invariant of the screen.                                  *)

\* Task p holds the lock of its terminal.
Inside(p) == write[p].pc \in {"put", "draw", "clear"}

Locked ==
    /\ \A t \in Tty : tty[t].lock \in {0, 1}
    /\ \A p \in Writer : Inside(p) => tty[write[p].tty].lock = 0
    /\ \A p, q \in Writer : Inside(p) /\ Inside(q) /\ write[p].tty = write[q].tty => p = q

\* x may stand for cell c of terminal t.
Right(t, c, x) == x = Drawn(tty[t], c) \/ (c = tty[t].cursor /\ ttask.pc = "mark")

\* What p has scanned and not drawn is all that is dirty, and right.
InHand(p) ==
    write[p].pc = "draw" /\ write[p].tty \in {current, ttask.tty} =>
        /\ DOMAIN write[p].sprites = tty[write[p].tty].dirty
        /\ \A c \in Cell \cap tty[write[p].tty].dirty :
              Right(write[p].tty, c, write[p].sprites[c])

OnScreen == \A c \in Cell \ tty[current].dirty : Right(current, c, screen[c])

\* When p has drawn, the marks say nothing any more.
Finished(p) ==
    write[p].pc = "clear" /\ write[p].tty = current =>
        \A c \in Cell : Right(current, c, screen[c])

Shown ==
    /\ ttask.pc # "fbset" => ttask.tty = current
    /\ ttask.pc = "boot" => ttask.tty = 1
    /\ ttask.pc # "boot" /\ ~lost =>
          OnScreen /\ \A p \in Writer : InHand(p) /\ Finished(p)

Looks(T, U) ==
    U.lock = T.lock /\ U.cursor = T.cursor /\ U.dirty = T.dirty /\ U.buf = T.buf

LEMMA TtyFields ==
    ASSUME NEW T \in Terminal
    PROVE  /\ T.lock \in Nat /\ T.cooked \in Nat /\ T.cursor \in Cell
           /\ T.dirty \in SUBSET Nat /\ T.buf \in [Cell -> Int] /\ T.q \in Queue
           /\ T = [lock |-> T.lock, cooked |-> T.cooked, cursor |-> T.cursor,
                   dirty |-> T.dirty, buf |-> T.buf, q |-> T.q]
BY DEF Terminal, TerminalAt

(* Marks made without the lock touch nothing else.                         *)
LEMMA MarksOnly ==
    ASSUME tty \in [Tty -> Terminal], NEW t \in Tty, NEW cells \in SUBSET Nat,
           MarkUnlocked(t, cells)
    PROVE  /\ tty' \in [Tty -> Terminal]
           /\ \A u \in Tty : /\ tty'[u].lock = tty[u].lock /\ tty'[u].cursor = tty[u].cursor
                             /\ tty'[u].buf = tty[u].buf /\ tty'[u].q = tty[u].q
                             /\ tty'[u].cooked = tty[u].cooked
                             /\ u # t => tty'[u] = tty[u]
           /\ tty'[t].dirty = tty[t].dirty \cup cells
<1>1. tty[t] \in Terminal
  OBVIOUS
<1>2. PICK T : T = Mark(tty[t], cells)
  OBVIOUS
<1>3. T = [tty[t] EXCEPT !.dirty = tty[t].dirty \cup cells]
  BY <1>2 DEF Mark
<1>4. /\ T \in Terminal
      /\ T.lock = tty[t].lock /\ T.cursor = tty[t].cursor /\ T.buf = tty[t].buf
      /\ T.q = tty[t].q /\ T.cooked = tty[t].cooked
      /\ T.dirty = tty[t].dirty \cup cells
  BY <1>1, <1>3 DEF Terminal, TerminalAt
<1>5. tty' = [tty EXCEPT ![t] = T]
  BY <1>2 DEF MarkUnlocked
<1>. QED  BY <1>4, <1>5

(* A step that leaves what is drawn, and what is being drawn, as it was.   *)
LEMMA Quiet ==
    ASSUME Locked, Shown, current \in Tty, \A p \in Writer : write[p].tty \in Tty,
           UNCHANGED <<current, screen, show_cursor, lost>>, ttask'.tty = ttask.tty,
           \A t \in Tty : Looks(tty[t], tty'[t]),
           \A p \in Writer : \/ write'[p] = write[p]
                             \/ ~Inside(p) /\ write'[p].pc \in {"lock", "scan"},
           \/ ttask'.pc = ttask.pc
           \/ {ttask.pc, ttask'.pc} \subseteq {"read", "handle", "after"}
    PROVE  Locked' /\ Shown'
<1>1. Locked'
  BY DEF Locked, Inside, Looks
<1>2. ASSUME NEW t \in Tty, NEW c, NEW x, Right(t, c, x) PROVE Right(t, c, x)'
  BY <1>2 DEF Right, Drawn, Looks
<1>3. ASSUME ttask'.pc # "boot" /\ ~lost'
      PROVE  (OnScreen /\ \A p \in Writer : InHand(p) /\ Finished(p))'
  <2>1. OnScreen /\ \A p \in Writer : InHand(p) /\ Finished(p)
    BY <1>3 DEF Shown
  <2>2. OnScreen'
    <3>1. \A c \in Cell \ tty[current].dirty : Right(current, c, screen[c])'
      BY <1>2, <2>1 DEF OnScreen
    <3>2. tty'[current'].dirty = tty[current].dirty
      BY DEF Looks
    <3>. QED  BY <3>1, <3>2 DEF OnScreen
  <2>3. ASSUME NEW p \in Writer PROVE InHand(p)' /\ Finished(p)'
    <3>1. CASE write'[p].pc \in {"lock", "scan"}
      BY <3>1 DEF InHand, Finished
    <3>2. CASE write'[p] = write[p]
      <4>1. PICK t \in Tty : t = write[p].tty /\ tty'[t].dirty = tty[t].dirty
        BY DEF Looks
      <4>2. InHand(p) /\ Finished(p)
        BY <2>1
      <4>3. InHand(p)'
        BY <1>2, <3>2, <4>1, <4>2 DEF InHand
      <4>4. Finished(p)'
        BY <1>2, <3>2, <4>2 DEF Finished
      <4>. QED  BY <4>3, <4>4
    <3>. QED  BY <3>1, <3>2
  <2>. QED  BY <2>2, <2>3
<1>. QED  BY <1>1, <1>3 DEF Shown

Inv == TypeOK /\ Locked /\ Shown

(* A step that changes no terminal (input and readers' side).              *)
LEMMA Untouched ==
    ASSUME Inv, UNCHANGED <<ttyVars, reading>>, ttask'.tty = ttask.tty,
           \/ ttask'.pc = ttask.pc
           \/ {ttask.pc, ttask'.pc} \subseteq {"read", "handle", "after"}
    PROVE  WritesOK' /\ TtysOK' /\ (current \in Tty)' /\ Locked' /\ Shown'
<1>1. WritesOK' /\ TtysOK' /\ (current \in Tty)'
  BY DEF Inv, TypeOK, WritesOK, TtysOK, ttyVars
<1>2. Locked' /\ Shown'
  <2>1. \A t \in Tty : Looks(tty[t], tty'[t])
    BY DEF Looks, ttyVars
  <2>2. /\ current \in Tty /\ \A p \in Writer : write[p].tty \in Tty
        /\ \A p \in Writer : write'[p] = write[p]
    BY DEF Inv, TypeOK, WritesOK, ttyVars
  <2>. QED  BY <2>1, <2>2, Quiet DEF Inv, ttyVars
<1>. QED  BY <1>1, <1>2

LEMMA TaskGoes ==
    ASSUME TaskOK, NEW pc \in {"boot", "read", "handle", "fbset", "after", "mark"}
    PROVE  /\ ttask.ev \in Event /\ ttask.tty \in Tty /\ ttask.ev.data \in Int
           /\ [ttask EXCEPT !.pc = pc] \in Task
           /\ [ttask EXCEPT !.pc = pc].pc = pc
           /\ [ttask EXCEPT !.pc = pc].tty = ttask.tty
           /\ [ttask EXCEPT !.pc = pc].ev = ttask.ev
<1>1. ttask \in Task
  BY DEF TaskOK, Task
<1>2. ttask.ev \in Event /\ ttask.tty \in Tty
  BY <1>1 DEF Task
<1>3. \A e \in Event : e.data \in Int
  BY DEF Event, NoEvent, event
<1>4. /\ [ttask EXCEPT !.pc = pc] \in Task
      /\ [ttask EXCEPT !.pc = pc].pc = pc
      /\ [ttask EXCEPT !.pc = pc].tty = ttask.tty
      /\ [ttask EXCEPT !.pc = pc].ev = ttask.ev
  BY <1>1 DEF Task
<1>. QED  BY <1>2, <1>3, <1>4

LEMMA KeysStep ==
    ASSUME Inv, Keys
    PROVE  Inv'
<1>1. UNCHANGED <<ttyVars, consoleVars>> /\ InputOK'
  BY KeyboardTyped DEF Keys, Inv, TypeOK
<1>2. TaskOK'
  BY <1>1 DEF Inv, TypeOK, TaskOK, consoleVars
<1>. QED  BY <1>1, <1>2, Untouched DEF Inv, TypeOK, consoleVars

LEMMA InputStep ==
    ASSUME Inv, Input
    PROVE  Inv'
<1>1. UNCHANGED <<ttyVars, consoleVars>> /\ InputOK'
  BY InputAssumption, InputTyped DEF Input, Inv, TypeOK
<1>2. TaskOK'
  BY <1>1 DEF Inv, TypeOK, TaskOK, consoleVars
<1>. QED  BY <1>1, <1>2, Untouched DEF Inv, TypeOK, consoleVars

LEMMA ReadWaitStep ==
    ASSUME Inv, ReadWait
    PROVE  Inv'
<1>1. UNCHANGED <<ttyVars, consoleVars>> /\ InputOK'
  BY InputAssumption, PopTyped DEF ReadWait, Inv, TypeOK
<1>2. TaskOK'
  BY <1>1 DEF Inv, TypeOK, TaskOK, consoleVars
<1>. QED  BY <1>1, <1>2, Untouched DEF Inv, TypeOK, consoleVars

LEMMA ReadTakeStep ==
    ASSUME Inv, ReadTake
    PROVE  Inv'
<1>1. UNCHANGED <<ttyVars, reading>> /\ InputOK'
  BY InputAssumption, PopTyped DEF ReadTake, Inv, TypeOK
<1>2. ttask' = [ttask EXCEPT !.pc = "handle", !.ev = Popped] /\ ttask.pc = "read"
  BY DEF ReadTake, TAt
<1>3. Popped \in Event
  BY InputAssumption, RingSlots DEF Inv, TypeOK, InputOK
<1>4. TaskOK' /\ ttask'.tty = ttask.tty /\ ttask'.pc = "handle"
  BY <1>2, <1>3 DEF Inv, TypeOK, TaskOK, Task
<1>. QED  BY <1>1, <1>2, <1>4, Untouched DEF Inv, TypeOK

LEMMA NoCookStep ==
    ASSUME Inv, NoCook
    PROVE  Inv'
<1>1. UNCHANGED <<inputVars, ttyVars, reading>>
  BY DEF NoCook
<1>2. ttask' = [ttask EXCEPT !.pc = "after"] /\ ttask.pc = "handle"
  BY DEF NoCook, TAt, Goto
<1>3. TaskOK' /\ ttask'.tty = ttask.tty /\ ttask'.pc = "after"
  BY <1>2, TaskGoes DEF Inv, TypeOK, TaskOK, Task
<1>4. InputOK'
  BY <1>1 DEF Inv, TypeOK, InputOK, inputVars
<1>. QED  BY <1>1, <1>2, <1>3, <1>4, Untouched DEF Inv, TypeOK

(* A step that leaves terminal t as T, which looks the same.               *)
LEMMA Replaced ==
    ASSUME tty \in [Tty -> Terminal], NEW t \in Tty, NEW T \in Terminal,
           tty' = [tty EXCEPT ![t] = T], Looks(tty[t], T)
    PROVE  /\ tty' \in [Tty -> Terminal] /\ tty'[t] = T
           /\ \A u \in Tty : Looks(tty[u], tty'[u])
           /\ \A u \in Tty : u # t => tty'[u] = tty[u]
BY DEF Looks

LEMMA ProgramWriteStep ==
    ASSUME Inv, NEW p \in Program, ProgramWrite(p)
    PROVE  Inv'
<1>1. p \in Writer /\ 1 \in Tty /\ Text \in Seq(Int)
  BY ConsoleAssumption, Tasks
<1>2. WritesOK
  BY DEF Inv, TypeOK
<1>3. Call(p, 1, Text, "lock")
  BY DEF ProgramWrite
<1>4. /\ WritesOK' /\ write[p].pc = "idle" /\ write'[p].pc = "lock"
      /\ \A q \in Writer : q # p => write'[q] = write[q]
  BY <1>1, <1>2, <1>3, Called
<1>5. UNCHANGED <<inputVars, tty, current, screen, show_cursor, lost, ttask, reading>>
  BY DEF ProgramWrite, ttyOnly, fbVars
<1>6. Locked' /\ Shown'
  <2>1. \A t \in Tty : Looks(tty[t], tty'[t])
    BY <1>5 DEF Looks
  <2>2. current \in Tty /\ \A q \in Writer : write[q].tty \in Tty
    BY DEF Inv, TypeOK, WritesOK
  <2>3. \A q \in Writer : \/ write'[q] = write[q]
                          \/ ~Inside(q) /\ write'[q].pc \in {"lock", "scan"}
    BY <1>4 DEF Inside
  <2>. QED  BY <1>5, <2>1, <2>2, <2>3, Quiet DEF Inv
<1>. QED  BY <1>4, <1>5, <1>6 DEF Inv, TypeOK, InputOK, TtysOK, TaskOK, inputVars

LEMMA ReadCookedStep ==
    ASSUME Inv, NEW r \in Reader, ReadCooked(r)
    PROVE  Inv'
<1>1. PICK T : T = tty[1] /\ T \in Terminal /\ 1 \in Tty
  BY ConsoleAssumption, Tasks DEF Inv, TypeOK, TtysOK
<1>2. T.cooked > 0 /\ T.cooked - 1 \in Nat /\ T.q \in Queue /\ Terminated(T.q)
  BY <1>1, TtyFields DEF ReadCooked, Inv, TypeOK, TtysOK
<1>3. PICK U : U = [T EXCEPT !.cooked = T.cooked - 1]
  OBVIOUS
<1>4. U \in Terminal /\ U.q = T.q /\ Looks(T, U)
  BY <1>1, <1>2, <1>3 DEF Terminal, TerminalAt, Looks
<1>5. tty' = [tty EXCEPT ![1] = U]
  BY <1>1, <1>3 DEF ReadCooked
<1>6. /\ tty' \in [Tty -> Terminal] /\ tty'[1] = U
      /\ \A u \in Tty : Looks(tty[u], tty'[u])
      /\ \A u \in Tty : u # 1 => tty'[u] = tty[u]
  BY <1>1, <1>4, <1>5, Replaced DEF Inv, TypeOK, TtysOK
<1>7. UNCHANGED <<inputVars, write, current, screen, show_cursor, lost, ttask>>
  BY DEF ReadCooked, ttyOnly, fbVars
<1>8. TtysOK'
  BY <1>2, <1>4, <1>6 DEF Inv, TypeOK, TtysOK
<1>9. Locked' /\ Shown'
  <2>1. /\ current \in Tty /\ \A q \in Writer : write[q].tty \in Tty
        /\ \A q \in Writer : write'[q] = write[q]
    BY <1>7 DEF Inv, TypeOK, WritesOK
  <2>. QED  BY <1>6, <1>7, <2>1, Quiet DEF Inv
<1>. QED  BY <1>7, <1>8, <1>9 DEF Inv, TypeOK, InputOK, WritesOK, TaskOK, inputVars

LEMMA ReadLineStep ==
    ASSUME Inv, NEW r \in Reader, ReadLine(r)
    PROVE  Inv'
<1>1. PICK T : T = tty[1] /\ T \in Terminal /\ 1 \in Tty
  BY ConsoleAssumption, Tasks DEF Inv, TypeOK, TtysOK
<1>2. T.q \in Queue /\ Terminated(T.q)
  BY <1>1, TtyFields DEF ReadLine, Inv, TypeOK, TtysOK
<1>3. PICK q : q = SkipLine(T.q) /\ q \in Queue /\ Terminated(q)
  BY <1>2, LineSkipped, TtyAssumption
<1>4. PICK U : U = [T EXCEPT !.q = q]
  OBVIOUS
<1>5. U \in Terminal /\ U.q = q /\ Looks(T, U)
  BY <1>1, <1>3, <1>4 DEF Terminal, TerminalAt, Looks
<1>6. tty' = [tty EXCEPT ![1] = U]
  BY <1>1, <1>3, <1>4 DEF ReadLine
<1>7. /\ tty' \in [Tty -> Terminal] /\ tty'[1] = U
      /\ \A u \in Tty : Looks(tty[u], tty'[u])
      /\ \A u \in Tty : u # 1 => tty'[u] = tty[u]
  BY <1>1, <1>5, <1>6, Replaced DEF Inv, TypeOK, TtysOK
<1>8. UNCHANGED <<inputVars, write, current, screen, show_cursor, lost, ttask>>
  BY DEF ReadLine, ttyOnly, fbVars
<1>9. TtysOK'
  BY <1>3, <1>5, <1>7 DEF Inv, TypeOK, TtysOK
<1>10. Locked' /\ Shown'
  <2>1. /\ current \in Tty /\ \A p \in Writer : write[p].tty \in Tty
        /\ \A p \in Writer : write'[p] = write[p]
    BY <1>8 DEF Inv, TypeOK, WritesOK
  <2>. QED  BY <1>7, <1>8, <2>1, Quiet DEF Inv
<1>. QED  BY <1>8, <1>9, <1>10 DEF Inv, TypeOK, InputOK, WritesOK, TaskOK, inputVars

(* What tty_cook leaves in the queue, however the character is cooked.     *)
LEMMA Cooked ==
    ASSUME TtysOK, TaskOK, Cook
    PROVE  \E q \in Queue, n \in {0, 1} :
              /\ tty_cook(q, n)
              /\ Echo \/ UNCHANGED write
              /\ Terminated(q) \/ (q = Mine.q /\ n = 0)
<1>1. Mine \in Terminal /\ Mine.q \in Queue
  BY TtyFields, TaskGoes DEF Mine, TtysOK, TaskOK, Task
<1>2. PICK ch \in Int : ch = ttask.ev.data
  BY TaskGoes
<1>3. PICK q \in Queue : q = Mine.q
  BY <1>1
<1>4. PICK q1 \in Queue : q1 = tty_enqueue(q, ch) /\ Terminated(q1)
  BY Enqueued, TtyAssumption
<1>5. PICK q2 \in Queue : q2 = tty_enqueue(q1, NUL) /\ Terminated(q2)
  <2>1. NUL \in Int
    BY DEF NUL
  <2>. QED  BY <2>1, Enqueued, TtyAssumption
<1>6. PICK q3 \in Queue : q3 = tty_pop_back(q) /\ Terminated(q3)
  BY PoppedBack, TtyAssumption
<1>7. \/ tty_cook(q2, 1) /\ Echo
      \/ tty_cook(q3, 0) /\ Echo
      \/ tty_cook(q, 0) /\ UNCHANGED write
      \/ tty_cook(q1, 0) /\ Echo
  BY <1>2, <1>3, <1>4, <1>5, <1>6 DEF Cook
<1>. QED  BY <1>3, <1>4, <1>5, <1>6, <1>7

LEMMA CookStep ==
    ASSUME Inv, Cook
    PROVE  Inv'
<1>1. TtysOK /\ TaskOK /\ WritesOK
  BY DEF Inv, TypeOK
<1>2. PICK q \in Queue, n \in {0, 1} :
         /\ tty_cook(q, n)
         /\ Echo \/ UNCHANGED write
         /\ Terminated(q) \/ (q = Mine.q /\ n = 0)
  BY <1>1, Cooked
<1>3. PICK t \in Tty : t = ttask.tty
  BY <1>1, TaskGoes
<1>4. PICK T \in Terminal : T = tty[t]
  BY <1>1 DEF TtysOK
<1>5. PICK m \in Nat : m = T.cooked + n
  BY TtyFields
<1>6. PICK U : U = [T EXCEPT !.q = q, !.cooked = m]
  OBVIOUS
<1>7. U \in Terminal /\ U.q = q /\ U.cooked = m /\ Looks(T, U)
  BY <1>6 DEF Terminal, TerminalAt, Looks
<1>8. tty' = [tty EXCEPT ![t] = U]
  BY <1>2, <1>3, <1>4, <1>5, <1>6 DEF tty_cook
<1>9. /\ tty' \in [Tty -> Terminal] /\ tty'[t] = U
      /\ \A u \in Tty : Looks(tty[u], tty'[u])
      /\ \A u \in Tty : u # t => tty'[u] = tty[u]
  BY <1>1, <1>4, <1>7, <1>8, Replaced DEF TtysOK
<1>10. /\ UNCHANGED <<in, itask, taking, current, screen, show_cursor, lost, reading>>
       /\ ttask' = [ttask EXCEPT !.pc = "after"] /\ ttask.pc = "handle"
  BY DEF Cook, Goto, TAt
<1>11. ttask' \in Task /\ ttask'.tty = ttask.tty /\ ttask'.pc = "after"
  BY <1>1, <1>10, TaskGoes
<1>12. TtysOK'
  <2>1. T.q = Mine.q
    BY <1>3, <1>4 DEF Mine
  <2>2. Terminated(U.q) \/ (U.q = T.q /\ U.cooked = T.cooked)
    BY <1>2, <1>5, <1>7, <2>1, TtyFields
  <2>3. ASSUME NEW u \in Tty, tty'[u].cooked > 0 PROVE Terminated(tty'[u].q)
    <3>1. tty[u].cooked > 0 => Terminated(tty[u].q)
      BY <1>1 DEF TtysOK
    <3>. QED  BY <1>4, <1>9, <2>2, <2>3, <3>1
  <2>4. ASSUME reading' # {} PROVE Terminated(tty'[1].q)
    <3>1. Terminated(tty[1].q) /\ 1 \in Tty
      BY <1>1, <1>10, <2>4, ConsoleAssumption, Tasks DEF TtysOK
    <3>. QED  BY <1>4, <1>9, <2>2, <3>1
  <2>. QED  BY <1>9, <2>3, <2>4 DEF TtysOK
<1>13. /\ WritesOK'
       /\ \A p \in Writer : \/ write'[p] = write[p]
                            \/ ~Inside(p) /\ write'[p].pc \in {"lock", "scan"}
  <2>1. CASE Echo
    <3>1. TtyTask \in Writer /\ <<ttask.ev.data>> \in Seq(Int)
      BY <1>1, ConsoleAssumption, Tasks, TaskGoes
    <3>2. /\ WritesOK' /\ write[TtyTask].pc = "idle" /\ write'[TtyTask].pc = "lock"
          /\ \A p \in Writer : p # TtyTask => write'[p] = write[p]
      BY <1>1, <1>3, <2>1, <3>1, Called DEF Echo
    <3>. QED  BY <3>2 DEF Inside
  <2>2. CASE UNCHANGED write
    BY <1>1, <2>2 DEF WritesOK
  <2>. QED  BY <1>2, <2>1, <2>2
<1>14. Locked' /\ Shown'
  <2>1. current \in Tty /\ \A p \in Writer : write[p].tty \in Tty
    BY <1>1 DEF WritesOK, Inv, TypeOK
  <2>. QED  BY <1>9, <1>10, <1>11, <1>13, <2>1, Quiet DEF Inv
<1>. QED  BY <1>10, <1>11, <1>12, <1>13, <1>14 DEF Inv, TypeOK, InputOK, TaskOK

LEMMA BlinkStep ==
    ASSUME Inv, Blink
    PROVE  Inv'
<1>1. UNCHANGED <<inputVars, tty, current, screen, write, lost, reading>> /\ ttask.pc = "after"
  BY DEF Blink, TAt
<1>2. TaskOK
  BY DEF Inv, TypeOK
<1>3. CASE ttask' = [ttask EXCEPT !.pc = "read"] /\ UNCHANGED show_cursor
  <2>1. ttask' \in Task /\ ttask'.tty = ttask.tty /\ ttask'.pc = "read"
    BY <1>2, <1>3, TaskGoes
  <2>2. UNCHANGED <<ttyVars, reading>>
    BY <1>1, <1>3 DEF ttyVars
  <2>3. InputOK'
    BY <1>1 DEF inputVars, InputOK, Inv, TypeOK
  <2>. QED  BY <1>1, <2>1, <2>2, <2>3, Untouched DEF Inv, TypeOK, TaskOK
<1>4. CASE ttask' = [ttask EXCEPT !.pc = "mark"]
  <2>1. ttask' \in Task /\ ttask'.tty = ttask.tty /\ ttask'.pc = "mark"
    BY <1>2, <1>4, TaskGoes
  <2>2. TypeOK'
    BY <1>1, <2>1 DEF Inv, TypeOK, inputVars, InputOK, TtysOK, WritesOK, TaskOK
  <2>3. Locked'
    BY <1>1 DEF Inv, Locked, Inside
  <2>4. ASSUME NEW t \in Tty, NEW c, NEW x, Right(t, c, x) PROVE Right(t, c, x)'
    BY <1>1, <2>1, <2>4 DEF Right, Drawn
  <2>5. current \in Tty /\ \A p \in Writer : write[p].tty \in Tty
    BY DEF Inv, TypeOK, WritesOK
  <2>6. ASSUME ~lost' PROVE (OnScreen /\ \A p \in Writer : InHand(p) /\ Finished(p))'
    <3>1. OnScreen /\ \A p \in Writer : InHand(p) /\ Finished(p)
      BY <1>1, <2>6 DEF Inv, Shown
    <3>2. OnScreen'
      BY <1>1, <2>4, <2>5, <3>1 DEF OnScreen
    <3>3. ASSUME NEW p \in Writer PROVE InHand(p)' /\ Finished(p)'
      <4>1. write'[p] = write[p] /\ write[p].tty \in Tty /\ InHand(p) /\ Finished(p)
        BY <1>1, <2>5, <3>1
      <4>2. InHand(p)'
        BY <1>1, <2>1, <2>4, <4>1 DEF InHand
      <4>3. Finished(p)'
        BY <1>1, <2>4, <2>5, <4>1 DEF Finished
      <4>. QED  BY <4>2, <4>3
    <3>. QED  BY <3>2, <3>3
  <2>7. Shown'
    BY <1>1, <2>1, <2>6 DEF Inv, Shown
  <2>. QED  BY <2>2, <2>3, <2>7 DEF Inv
<1>. QED  BY <1>3, <1>4 DEF Blink, Goto

(* The terminal task marks cells of a terminal it has not locked: if the   *)
(* marks are not lost, nobody has scanned that terminal and not cleared.   *)
LEMMA NotLost ==
    ASSUME NEW t, NEW cells, MarkUnlocked(t, cells), ~lost'
    PROVE  /\ ~lost
           /\ \A p \in Writer : write[p].tty = t => write[p].pc \notin {"draw", "clear"}
BY DEF MarkUnlocked

(* The lock of terminal t is as it was, and so is who holds it.            *)
LEMMA SameLocks ==
    ASSUME Locked, \A p \in Writer : write[p].tty \in Tty,
           \A t \in Tty : tty'[t].lock = tty[t].lock,
           \A p \in Writer : write'[p] = write[p] \/ ~Inside(p)'
    PROVE  Locked'
BY DEF Locked, Inside

LEMMA MarkCursorStep ==
    ASSUME Inv, MarkCursor
    PROVE  Inv'
<1>1. TtysOK /\ TaskOK /\ WritesOK /\ current \in Tty
  BY DEF Inv, TypeOK
<1>2. PICK t \in Tty : t = ttask.tty
  BY <1>1, TaskGoes
<1>3. /\ UNCHANGED <<inputVars, current, screen, show_cursor, reading>>
      /\ ttask' = [ttask EXCEPT !.pc = "read"] /\ ttask.pc = "mark"
      /\ MarkUnlocked(t, {tty[t].cursor}) /\ Call(TtyTask, t, <<>>, "lock")
  BY <1>2 DEF MarkCursor, Goto, TAt, Mine, fbVars
<1>4. ttask' \in Task /\ ttask'.tty = ttask.tty /\ ttask'.pc = "read" /\ t = current
  BY <1>1, <1>2, <1>3, TaskGoes DEF Inv, Shown
<1>5. {tty[t].cursor} \in SUBSET Nat
  BY <1>1, TtyFields DEF TtysOK, Cell
<1>6. /\ tty' \in [Tty -> Terminal]
      /\ \A u \in Tty : /\ tty'[u].lock = tty[u].lock /\ tty'[u].cursor = tty[u].cursor
                        /\ tty'[u].buf = tty[u].buf /\ tty'[u].q = tty[u].q
                        /\ tty'[u].cooked = tty[u].cooked
                        /\ u # t => tty'[u] = tty[u]
      /\ tty'[t].dirty = tty[t].dirty \cup {tty[t].cursor}
  BY <1>1, <1>3, <1>5, MarksOnly DEF TtysOK
<1>7. /\ WritesOK' /\ write'[TtyTask].pc = "lock" /\ TtyTask \in Writer
      /\ \A p \in Writer : p # TtyTask => write'[p] = write[p]
  <2>1. TtyTask \in Writer /\ <<>> \in Seq(Int)
    BY ConsoleAssumption, Tasks
  <2>. QED  BY <1>1, <1>3, <2>1, Called
<1>8. TypeOK'
  <2>1. TtysOK'
    BY <1>1, <1>3, <1>6, ConsoleAssumption, Tasks DEF TtysOK
  <2>2. InputOK'
    BY <1>3 DEF Inv, TypeOK, InputOK, inputVars
  <2>. QED  BY <1>3, <1>4, <1>7, <2>1, <2>2 DEF Inv, TypeOK, TaskOK
<1>9. Locked'
  BY <1>1, <1>6, <1>7, SameLocks DEF Inv, Inside, WritesOK
<1>10. ASSUME ~lost' PROVE (OnScreen /\ \A p \in Writer : InHand(p) /\ Finished(p))'
  <2>1. /\ ~lost
        /\ \A p \in Writer : write[p].tty = t => write[p].pc \notin {"draw", "clear"}
    BY <1>3, <1>10, NotLost
  <2>2. OnScreen
    BY <1>3, <2>1 DEF Inv, Shown
  <2>3. OnScreen'
    <3>1. ASSUME NEW c \in Cell, c \notin tty'[t].dirty PROVE Right(t, c, screen[c])'
      <4>1. c \notin tty[t].dirty /\ c # tty[t].cursor
        BY <1>6, <3>1
      <4>2. screen[c] = tty[t].buf[c]
        BY <1>4, <2>2, <4>1 DEF OnScreen, Right, Drawn
      <4>. QED  BY <1>3, <1>6, <4>1, <4>2 DEF Right, Drawn
    <3>. QED  BY <1>3, <1>4, <3>1 DEF OnScreen
  <2>4. ASSUME NEW p \in Writer, write'[p].pc \in {"draw", "clear"} PROVE write'[p].tty # t
    BY <1>7, <2>1, <2>4
  <2>. QED  BY <1>2, <1>3, <1>4, <2>3, <2>4 DEF InHand, Finished
<1>11. Shown'
  BY <1>3, <1>4, <1>2, <1>10 DEF Shown
<1>. QED  BY <1>8, <1>9, <1>11 DEF Inv

LEMMA BootStep ==
    ASSUME Inv, Boot
    PROVE  Inv'
<1>1. TtysOK /\ TaskOK /\ WritesOK /\ current \in Tty /\ 1 \in Tty
  BY ConsoleAssumption, Tasks DEF Inv, TypeOK
<1>2. /\ UNCHANGED <<inputVars, current, screen, show_cursor, reading>>
      /\ ttask' = [ttask EXCEPT !.pc = "read"] /\ ttask.pc = "boot"
      /\ MarkUnlocked(1, Cell) /\ Call(TtyTask, 1, <<>>, "scan")
  BY DEF Boot, Goto, TAt, fbVars
<1>3. ttask' \in Task /\ ttask'.tty = 1 /\ ttask'.pc = "read" /\ current = 1
  BY <1>1, <1>2, TaskGoes DEF Inv, Shown
<1>4. Cell \in SUBSET Nat
  BY DEF Cell
<1>5. /\ tty' \in [Tty -> Terminal]
      /\ \A u \in Tty : /\ tty'[u].lock = tty[u].lock /\ tty'[u].q = tty[u].q
                        /\ tty'[u].cooked = tty[u].cooked
      /\ tty'[1].dirty = tty[1].dirty \cup Cell
  BY <1>1, <1>2, <1>4, MarksOnly DEF TtysOK
<1>6. /\ WritesOK' /\ write'[TtyTask].pc = "scan" /\ TtyTask \in Writer
      /\ \A p \in Writer : p # TtyTask => write'[p] = write[p]
  <2>1. TtyTask \in Writer /\ <<>> \in Seq(Int)
    BY ConsoleAssumption, Tasks
  <2>. QED  BY <1>1, <1>2, <2>1, Called
<1>7. TypeOK'
  <2>1. TtysOK'
    BY <1>1, <1>2, <1>5 DEF TtysOK
  <2>2. InputOK'
    BY <1>2 DEF Inv, TypeOK, InputOK, inputVars
  <2>. QED  BY <1>1, <1>2, <1>3, <1>6, <2>1, <2>2 DEF TypeOK, TaskOK
<1>8. Locked'
  BY <1>1, <1>5, <1>6, SameLocks DEF Inv, Inside, WritesOK
<1>9. ASSUME ~lost' PROVE (OnScreen /\ \A p \in Writer : InHand(p) /\ Finished(p))'
  <2>1. \A p \in Writer : write[p].tty = 1 => write[p].pc \notin {"draw", "clear"}
    BY <1>2, <1>9, NotLost
  <2>2. OnScreen'
    BY <1>2, <1>3, <1>5 DEF OnScreen
  <2>3. ASSUME NEW p \in Writer, write'[p].pc \in {"draw", "clear"} PROVE write'[p].tty # 1
    BY <1>6, <2>1, <2>3
  <2>. QED  BY <1>2, <1>3, <2>2, <2>3 DEF InHand, Finished
<1>10. Shown'
  BY <1>2, <1>3, <1>9 DEF Shown
<1>. QED  BY <1>7, <1>8, <1>10 DEF Inv

LEMMA SwitchStep ==
    ASSUME Inv, Switch
    PROVE  Inv'
<1>1. TtysOK /\ TaskOK /\ WritesOK /\ current \in Tty
  BY DEF Inv, TypeOK
<1>2. PICK t \in Tty : t = Next2 /\ t # ttask.tty
  BY <1>1, TaskGoes, ConsoleAssumption, Tasks DEF Switch, Next2
<1>3. /\ UNCHANGED <<inputVars, current, screen, show_cursor, write, reading>>
      /\ ttask' = [ttask EXCEPT !.pc = "fbset", !.tty = t] /\ ttask.pc = "handle"
      /\ MarkUnlocked(t, Cell)
  BY <1>2 DEF Switch, TAt, fbVars
<1>4. ttask' \in Task /\ ttask'.tty = t /\ ttask'.pc = "fbset" /\ t # current
  BY <1>1, <1>2, <1>3 DEF Inv, Shown, TaskOK, Task
<1>5. Cell \in SUBSET Nat
  BY DEF Cell
<1>6. /\ tty' \in [Tty -> Terminal]
      /\ \A u \in Tty : /\ tty'[u].lock = tty[u].lock /\ tty'[u].q = tty[u].q
                        /\ tty'[u].cooked = tty[u].cooked
                        /\ u # t => tty'[u] = tty[u]
  BY <1>1, <1>3, <1>5, MarksOnly DEF TtysOK
<1>7. TypeOK'
  <2>1. TtysOK'
    BY <1>1, <1>3, <1>6, ConsoleAssumption, Tasks DEF TtysOK
  <2>2. InputOK' /\ WritesOK'
    BY <1>3 DEF Inv, TypeOK, InputOK, WritesOK, inputVars
  <2>. QED  BY <1>1, <1>3, <1>4, <2>1, <2>2 DEF TypeOK, TaskOK
<1>8. Locked'
  BY <1>1, <1>3, <1>6, SameLocks DEF Inv, Inside, WritesOK
<1>9. ASSUME ~lost' PROVE (OnScreen /\ \A p \in Writer : InHand(p) /\ Finished(p))'
  <2>1. /\ ~lost
        /\ \A p \in Writer : write[p].tty = t => write[p].pc \notin {"draw", "clear"}
    BY <1>3, <1>9, NotLost
  <2>2. OnScreen /\ \A p \in Writer : InHand(p) /\ Finished(p)
    BY <1>3, <2>1 DEF Inv, Shown
  <2>3. \A c, x : Right(current, c, x) => Right(current, c, x)'
    BY <1>1, <1>3, <1>4, <1>6 DEF Right, Drawn
  <2>4. tty'[current] = tty[current]
    BY <1>1, <1>4, <1>6
  <2>5. OnScreen'
    BY <1>3, <2>2, <2>3, <2>4 DEF OnScreen, Right
  <2>6. ASSUME NEW p \in Writer PROVE InHand(p)' /\ Finished(p)'
    <3>1. InHand(p)'
      <4>1. PICK f : f = write[p].sprites
        OBVIOUS
      <4>. SUFFICES ASSUME write[p].pc = "draw", write[p].tty \in {current, t}
                    PROVE  /\ write[p].tty = current
                           /\ DOMAIN f = tty'[current].dirty
                           /\ \A c \in Cell \cap tty'[current].dirty : Right(current, c, f[c])'
        <5>1. write' = write /\ current' = current /\ ttask'.tty = t
          BY <1>3, <1>4
        <5>. QED  BY <4>1, <5>1 DEF InHand, Right
      <4>2. write[p].tty = current
        BY <2>1
      <4>3. /\ DOMAIN f = tty[current].dirty
            /\ \A c \in Cell \cap tty[current].dirty : Right(current, c, f[c])
        BY <2>2, <4>1, <4>2 DEF InHand
      <4>. QED  BY <2>3, <2>4, <4>2, <4>3
    <3>2. Finished(p)'
      BY <1>3, <2>2, <2>3 DEF Finished, Right
    <3>. QED  BY <3>1, <3>2
  <2>. QED  BY <2>5, <2>6
<1>10. Shown'
  BY <1>4, <1>9 DEF Shown
<1>. QED  BY <1>7, <1>8, <1>10 DEF Inv

LEMMA FbSetStep ==
    ASSUME Inv, FbSet
    PROVE  Inv'
<1>1. TtysOK /\ TaskOK /\ WritesOK
  BY DEF Inv, TypeOK
<1>2. PICK t \in Tty : t = ttask.tty
  BY <1>1, TaskGoes
<1>3. /\ UNCHANGED <<inputVars, tty, screen, show_cursor, reading>>
      /\ ttask' = [ttask EXCEPT !.pc = "after"] /\ ttask.pc = "fbset"
      /\ current' = t /\ Call(TtyTask, t, <<>>, "lock")
      /\ lost' = \/ lost
                 \/ tty[t].dirty # Cell
                 \/ \E p \in Program : write[p].tty = t /\ write[p].pc = "clear"
  BY <1>2 DEF FbSet, TAt, Goto, Mine
<1>4. ttask' \in Task /\ ttask'.tty = t /\ ttask'.pc = "after"
  BY <1>1, <1>2, <1>3, TaskGoes
<1>5. /\ WritesOK' /\ write'[TtyTask].pc = "lock" /\ TtyTask \in Writer
      /\ \A p \in Writer : p # TtyTask => write'[p] = write[p]
  <2>1. TtyTask \in Writer /\ <<>> \in Seq(Int)
    BY ConsoleAssumption, Tasks
  <2>. QED  BY <1>1, <1>3, <2>1, Called
<1>6. TypeOK'
  <2>1. TtysOK'
    BY <1>1, <1>3 DEF TtysOK
  <2>2. InputOK'
    BY <1>3 DEF Inv, TypeOK, InputOK, inputVars
  <2>. QED  BY <1>3, <1>4, <1>5, <2>1, <2>2 DEF TypeOK, TaskOK
<1>7. Locked'
  BY <1>1, <1>3, <1>5, SameLocks DEF Inv, Inside, WritesOK
<1>8. ASSUME ~lost' PROVE (OnScreen /\ \A p \in Writer : InHand(p) /\ Finished(p))'
  <2>1. /\ ~lost /\ tty[t].dirty = Cell
        /\ \A p \in Program : write[p].tty = t => write[p].pc # "clear"
    BY <1>3, <1>8
  <2>2. OnScreen'
    BY <1>3, <2>1 DEF OnScreen
  <2>3. ASSUME NEW p \in Writer PROVE InHand(p)' /\ Finished(p)'
    <3>1. CASE p = TtyTask
      BY <1>5, <3>1 DEF InHand, Finished
    <3>2. CASE p # TtyTask
      <4>1. p \in Program /\ write'[p] = write[p]
        BY <1>5, <3>2, ConsoleAssumption, Tasks
      <4>2. InHand(p)
        BY <1>3, <2>1 DEF Inv, Shown
      <4>3. Finished(p)'
        BY <1>3, <2>1, <4>1 DEF Finished
      <4>4. ASSUME NEW c, NEW x, Right(t, c, x) PROVE Right(t, c, x)'
        BY <1>3, <4>4 DEF Right, Drawn
      <4>5. InHand(p)'
        <5>1. PICK f : f = write[p].sprites
          OBVIOUS
        <5>. SUFFICES ASSUME write[p].pc = "draw", write[p].tty = t
                      PROVE  /\ DOMAIN f = tty[t].dirty
                             /\ \A c \in Cell \cap tty[t].dirty : Right(t, c, f[c])'
          <6>1. tty' = tty /\ current' = t /\ ttask'.tty = t
            BY <1>3, <1>4
          <6>. QED  BY <4>1, <5>1, <6>1 DEF InHand, Right
        <5>2. /\ DOMAIN f = tty[t].dirty
              /\ \A c \in Cell \cap tty[t].dirty : Right(t, c, f[c])
          BY <1>2, <4>2, <5>1 DEF InHand
        <5>. QED  BY <4>4, <5>2
      <4>. QED  BY <4>3, <4>5
    <3>. QED  BY <3>1, <3>2
  <2>. QED  BY <2>2, <2>3
<1>9. Shown'
  BY <1>3, <1>4, <1>8 DEF Shown
<1>. QED  BY <1>6, <1>7, <1>9 DEF Inv

(* Who has the lock, or may take it, is alone on its terminal.             *)
LEMMA Alone ==
    ASSUME Locked, \A p \in Writer : write[p].tty \in Tty, NEW p \in Writer,
           Inside(p) \/ Its(p).lock > 0
    PROVE  \A q \in Writer : q # p /\ write[q].tty = write[p].tty => ~Inside(q)
<1>1. ASSUME NEW q \in Writer, Inside(q), write[q].tty = write[p].tty, q # p PROVE FALSE
  <2>1. Its(p).lock = 0
    BY <1>1 DEF Locked, Its
  <2>2. ~(0 > 0)
    OBVIOUS
  <2>. QED  BY <1>1, <2>1, <2>2 DEF Locked
<1>. QED  BY <1>1

(* A step of p in tty_write or tty_render, alone on its terminal.          *)
LEMMA AloneStep ==
    ASSUME Inv, NEW p \in Writer, Inside(p) \/ Its(p).lock > 0,
           UNCHANGED <<current, show_cursor, lost, ttask>>,
           screen' = screen \/ write[p].tty = current,
           \A t \in Tty : t # write[p].tty => tty'[t] = tty[t],
           \A q \in Writer : q # p => write'[q] = write[q],
           Inside(p)' => write'[p].tty = write[p].tty,
           tty'[write[p].tty].lock = IF Inside(p)' THEN 0 ELSE 1,
           ttask.pc # "boot" /\ ~lost =>
               /\ write[p].tty = current => OnScreen'
               /\ InHand(p)' /\ Finished(p)'
    PROVE  Locked' /\ Shown'
<1>1. current \in Tty /\ \A q \in Writer : write[q].tty \in Tty
  BY DEF Inv, TypeOK, WritesOK
<1>2. \A q \in Writer : q # p /\ write[q].tty = write[p].tty => ~Inside(q)
  BY <1>1, Alone DEF Inv
<1>3. PICK t \in Tty : t = write[p].tty
  BY <1>1
<1>4. Locked'
  <2>1. \A q \in Writer : q # p => (Inside(q)' <=> Inside(q))
    BY DEF Inside
  <2>2. \A u \in Tty : tty'[u].lock \in {0, 1}
    BY <1>3 DEF Inv, Locked
  <2>3. ASSUME NEW q \in Writer, Inside(q)' PROVE tty'[write'[q].tty].lock = 0
    <3>1. CASE q = p
      BY <2>3, <3>1
    <3>2. CASE q # p
      <4>1. write[q].tty # t /\ Inside(q)
        BY <1>2, <1>3, <2>1, <2>3, <3>2
      <4>. QED  BY <1>1, <1>3, <3>2, <4>1 DEF Inv, Locked
    <3>. QED  BY <3>1, <3>2
  <2>4. ASSUME NEW q \in Writer, NEW r \in Writer, Inside(q)', Inside(r)',
               write'[q].tty = write'[r].tty
        PROVE  q = r
    <3>1. CASE q = p
      BY <1>2, <2>1, <2>4, <3>1
    <3>2. CASE r = p
      BY <1>2, <2>1, <2>4, <3>2
    <3>3. CASE q # p /\ r # p
      BY <2>1, <2>4, <3>3 DEF Inv, Locked
    <3>. QED  BY <3>1, <3>2, <3>3
  <2>. QED  BY <2>2, <2>3, <2>4 DEF Locked
<1>5. ASSUME ttask.pc # "boot", ~lost
      PROVE  (OnScreen /\ \A q \in Writer : InHand(q) /\ Finished(q))'
  <2>1. OnScreen /\ \A q \in Writer : InHand(q) /\ Finished(q)
    BY <1>5 DEF Inv, Shown
  <2>2. ASSUME NEW u \in Tty, u # t, NEW c, NEW x, Right(u, c, x) PROVE Right(u, c, x)'
    BY <1>3, <2>2 DEF Right, Drawn
  <2>3. OnScreen'
    <3>1. CASE t = current
      BY <1>3, <1>5, <3>1
    <3>2. CASE t # current
      <4>1. screen' = screen /\ tty'[current] = tty[current] /\ current' = current
        BY <1>1, <1>3, <3>2
      <4>2. ASSUME NEW c \in Cell \ tty[current].dirty PROVE Right(current, c, screen[c])'
        <5>1. Right(current, c, screen[c])
          BY <2>1 DEF OnScreen
        <5>. QED  BY <4>1, <5>1 DEF Right, Drawn
      <4>. QED  BY <4>1, <4>2 DEF OnScreen
    <3>. QED  BY <3>1, <3>2
  <2>4. ASSUME NEW q \in Writer PROVE InHand(q)' /\ Finished(q)'
    <3>1. CASE q = p
      BY <1>5, <3>1
    <3>2. CASE q # p /\ write[q].pc \notin {"draw", "clear"}
      BY <3>2 DEF InHand, Finished
    <3>3. CASE q # p /\ write[q].pc \in {"draw", "clear"}
      <4>1. PICK u \in Tty : u = write[q].tty /\ u # t
        BY <1>1, <1>2, <1>3, <3>3 DEF Inside
      <4>2. write'[q] = write[q] /\ tty'[u] = tty[u] /\ current' = current /\ ttask' = ttask
        BY <1>3, <3>3, <4>1
      <4>3. InHand(q)'
        <5>1. PICK f : f = write[q].sprites
          OBVIOUS
        <5>. SUFFICES ASSUME write[q].pc = "draw", u \in {current, ttask.tty}
                      PROVE  /\ DOMAIN f = tty[u].dirty
                             /\ \A c \in Cell \cap tty[u].dirty : Right(u, c, f[c])'
          BY <4>1, <4>2, <5>1 DEF InHand, Right
        <5>2. /\ DOMAIN f = tty[u].dirty
              /\ \A c \in Cell \cap tty[u].dirty : Right(u, c, f[c])
          BY <2>1, <4>1, <5>1 DEF InHand
        <5>. QED  BY <2>2, <4>1, <5>2
      <4>4. Finished(q)'
        <5>1. CASE u = current
          <6>1. screen' = screen
            BY <1>3, <4>1, <5>1
          <6>. QED  BY <2>1, <2>2, <4>1, <4>2, <5>1, <6>1 DEF Finished
        <5>2. CASE u # current
          BY <4>1, <4>2, <5>2 DEF Finished
        <5>. QED  BY <5>1, <5>2
      <4>. QED  BY <4>3, <4>4
    <3>. QED  BY <3>1, <3>2, <3>3
  <2>. QED  BY <2>3, <2>4
<1>6. Shown'
  BY <1>5 DEF Inv, Shown
<1>. QED  BY <1>4, <1>6

(* The types after a step of p in tty_write or tty_render.                 *)
LEMMA WriterTyped ==
    ASSUME TypeOK, NEW p \in Writer, WritesOK', tty' \in [Tty -> Terminal],
           UNCHANGED <<inputVars, consoleVars, current>>,
           \A t \in Tty : t # write[p].tty => tty'[t] = tty[t],
           tty'[write[p].tty].q = Its(p).q, tty'[write[p].tty].cooked = Its(p).cooked
    PROVE  TypeOK'
<1>1. 1 \in Tty /\ \A t \in Tty : tty'[t].q = tty[t].q /\ tty'[t].cooked = tty[t].cooked
  BY ConsoleAssumption, Tasks DEF Its
<1>2. TtysOK'
  BY <1>1 DEF TypeOK, TtysOK, Terminated, consoleVars
<1>. QED  BY <1>2 DEF TypeOK, InputOK, TaskOK, inputVars, consoleVars

LEMMA WriteLockStep ==
    ASSUME Inv, NEW p \in Writer, WriteLock(p), UNCHANGED <<inputVars, consoleVars>>
    PROVE  Inv'
<1>1. WritesOK /\ tty \in [Tty -> Terminal] /\ write[p].tty \in Tty
  BY DEF Inv, TypeOK, WritesOK, TtysOK
<1>2. PICK T \in Terminal : T = Its(p)
  BY <1>1 DEF Its
<1>3. T.lock = 1
  BY <1>1, <1>2 DEF Inv, Locked, WriteLock, Its
<1>4. PICK U : U = [T EXCEPT !.lock = 0]
  OBVIOUS
<1>5. /\ U \in Terminal /\ U.lock = 0 /\ U.q = T.q /\ U.cooked = T.cooked
      /\ U.dirty = T.dirty /\ U.buf = T.buf /\ U.cursor = T.cursor
  BY <1>4 DEF Terminal, TerminalAt
<1>6. Step(p, U, "put")
  <2>1. [Its(p) EXCEPT !.lock = @ - 1] = U
    BY <1>2, <1>3, <1>4
  <2>. QED  BY <2>1 DEF WriteLock
<1>7. /\ WritesOK' /\ tty' \in [Tty -> Terminal]
      /\ write'[p].pc = "put" /\ write'[p].tty = write[p].tty
      /\ \A q \in Writer : q # p => write'[q] = write[q]
      /\ tty'[write[p].tty] = U
      /\ \A t \in Tty : t # write[p].tty => tty'[t] = tty[t]
      /\ UNCHANGED <<current, show_cursor>>
  BY <1>1, <1>5, <1>6, Stepped
<1>8. UNCHANGED <<screen, lost, ttask>>
  BY DEF WriteLock, consoleVars
<1>9. TypeOK'
  BY <1>2, <1>5, <1>7, WriterTyped DEF Inv
<1>10. ASSUME ttask.pc # "boot", ~lost
       PROVE  (write[p].tty = current => OnScreen') /\ InHand(p)' /\ Finished(p)'
  <2>1. InHand(p)' /\ Finished(p)'
    BY <1>7 DEF InHand, Finished
  <2>2. ASSUME write[p].tty = current PROVE OnScreen'
    <3>1. OnScreen /\ tty[current] = T /\ tty'[current] = U
      BY <1>2, <1>7, <1>10, <2>2 DEF Inv, Shown, Its
    <3>2. ASSUME NEW c \in Cell \ U.dirty PROVE Right(current, c, screen[c])'
      <4>1. Right(current, c, screen[c])
        BY <1>5, <3>1, <3>2 DEF OnScreen
      <4>. QED  BY <1>5, <1>7, <1>8, <3>1, <3>2, <4>1 DEF Right, Drawn
    <3>. QED  BY <1>7, <3>1, <3>2 DEF OnScreen
  <2>. QED  BY <2>1, <2>2
<1>11. Locked' /\ Shown'
  <2>1. Inside(p)' /\ Its(p).lock > 0
    BY <1>2, <1>3, <1>7 DEF Inside
  <2>. QED  BY <1>5, <1>7, <1>8, <1>10, <2>1, AloneStep
<1>. QED  BY <1>9, <1>11 DEF Inv

LEMMA WritePutStep ==
    ASSUME Inv, NEW p \in Writer, WritePut(p), UNCHANGED <<inputVars, consoleVars>>
    PROVE  Inv'
<1>1. /\ WritesOK /\ tty \in [Tty -> Terminal]
      /\ write[p].tty \in Tty /\ write[p].data \in Seq(Int)
  BY DEF Inv, TypeOK, WritesOK, TtysOK
<1>2. PICK T \in Terminal : T = Its(p)
  BY <1>1 DEF Its
<1>3. Inside(p) /\ T.lock = 0
  BY <1>1, <1>2 DEF Inv, Locked, WritePut, At, Inside, Its
<1>4. PICK V \in Terminal : V = Puts(T, write[p].data) /\ Marked(T, V)
  BY <1>1, PutAll, TtyAssumption DEF Marked
<1>5. PICK U : U = [V EXCEPT !.lock = 1]
  OBVIOUS
<1>6. /\ U \in Terminal /\ U.lock = 1 /\ U.q = T.q /\ U.cooked = T.cooked
      /\ \A c \in Cell \ U.dirty :
            c \notin T.dirty /\ U.buf[c] = T.buf[c] /\ (c = U.cursor <=> c = T.cursor)
  <2>1. /\ U \in Terminal /\ U.lock = 1 /\ U.q = V.q /\ U.cooked = V.cooked
        /\ U.dirty = V.dirty /\ U.buf = V.buf /\ U.cursor = V.cursor
    BY <1>5 DEF Terminal, TerminalAt
  <2>. QED  BY <1>4, <2>1 DEF Marked
<1>7. Step(p, U, "scan")
  <2>1. [V EXCEPT !.lock = @ + 1] = U
    BY <1>3, <1>4, <1>5 DEF Marked
  <2>. QED  BY <1>2, <1>4, <2>1 DEF WritePut
<1>8. /\ WritesOK' /\ tty' \in [Tty -> Terminal]
      /\ write'[p].pc = "scan" /\ write'[p].tty = write[p].tty
      /\ \A q \in Writer : q # p => write'[q] = write[q]
      /\ tty'[write[p].tty] = U
      /\ \A t \in Tty : t # write[p].tty => tty'[t] = tty[t]
      /\ UNCHANGED <<current, show_cursor>>
  BY <1>1, <1>6, <1>7, Stepped
<1>9. UNCHANGED <<screen, lost, ttask>>
  BY DEF WritePut, consoleVars
<1>10. TypeOK'
  BY <1>2, <1>6, <1>8, WriterTyped DEF Inv
<1>11. ASSUME ttask.pc # "boot", ~lost
       PROVE  (write[p].tty = current => OnScreen') /\ InHand(p)' /\ Finished(p)'
  <2>1. InHand(p)' /\ Finished(p)'
    BY <1>8 DEF InHand, Finished
  <2>2. ASSUME write[p].tty = current PROVE OnScreen'
    <3>1. OnScreen /\ tty[current] = T /\ tty'[current] = U
      BY <1>2, <1>8, <1>11, <2>2 DEF Inv, Shown, Its
    <3>2. ASSUME NEW c \in Cell \ U.dirty PROVE Right(current, c, screen[c])'
      <4>1. Right(current, c, screen[c])
        BY <1>6, <3>1, <3>2 DEF OnScreen
      <4>. QED  BY <1>6, <1>8, <1>9, <3>1, <3>2, <4>1 DEF Right, Drawn
    <3>. QED  BY <1>8, <3>1, <3>2 DEF OnScreen
  <2>. QED  BY <2>1, <2>2
<1>12. Locked' /\ Shown'
  <2>1. ~Inside(p)'
    BY <1>8 DEF Inside
  <2>. QED  BY <1>3, <1>6, <1>8, <1>9, <1>11, <2>1, AloneStep
<1>. QED  BY <1>10, <1>12 DEF Inv

LEMMA RenderDrawStep ==
    ASSUME Inv, NEW p \in Writer, RenderDraw(p), UNCHANGED <<inputVars, consoleVars>>
    PROVE  Inv'
<1>1. WritesOK /\ tty \in [Tty -> Terminal] /\ write[p].tty \in Tty
  BY DEF Inv, TypeOK, WritesOK, TtysOK
<1>2. PICK T \in Terminal : T = Its(p)
  BY <1>1 DEF Its
<1>3. Inside(p) /\ T.lock = 0 /\ write[p].pc = "draw"
  BY <1>1, <1>2 DEF Inv, Locked, RenderDraw, At, Inside, Its
<1>4. /\ WritesOK' /\ tty' \in [Tty -> Terminal]
      /\ write'[p].pc = "clear" /\ write'[p].tty = write[p].tty
      /\ \A q \in Writer : q # p => write'[q] = write[q]
      /\ tty'[write[p].tty] = T
      /\ \A t \in Tty : t # write[p].tty => tty'[t] = tty[t]
      /\ UNCHANGED <<current, show_cursor>>
  BY <1>1, <1>2, Stepped DEF RenderDraw
<1>5. UNCHANGED <<lost, ttask>>
  BY DEF RenderDraw, consoleVars
<1>6. TypeOK'
  BY <1>2, <1>4, WriterTyped DEF Inv
<1>7. screen' = screen \/ write[p].tty = current
  BY DEF RenderDraw
<1>8. ASSUME ttask.pc # "boot", ~lost
      PROVE  (write[p].tty = current => OnScreen') /\ InHand(p)' /\ Finished(p)'
  <2>1. InHand(p)'
    BY <1>4 DEF InHand
  <2>2. ASSUME write[p].tty = current, NEW c \in Cell PROVE Right(current, c, screen[c])'
    <3>1. PICK f : f = write[p].sprites
      OBVIOUS
    <3>2. tty[current] = T /\ tty'[current] = T
      BY <1>2, <1>4, <2>2 DEF Its
    <3>3. /\ DOMAIN f = T.dirty
          /\ \A d \in Cell \cap T.dirty : Right(current, d, f[d])
          /\ \A d \in Cell \ T.dirty : Right(current, d, screen[d])
      BY <1>3, <1>8, <2>2, <3>1, <3>2 DEF Inv, Shown, InHand, OnScreen
    <3>4. screen'[c] = IF c \in T.dirty THEN f[c] ELSE screen[c]
      BY <2>2, <3>1, <3>3 DEF RenderDraw
    <3>5. PICK x : x = screen'[c] /\ Right(current, c, x)
      BY <3>3, <3>4
    <3>. QED  BY <1>4, <1>5, <3>2, <3>5 DEF Right, Drawn
  <2>3. Finished(p)'
    BY <1>4, <2>2 DEF Finished, Right
  <2>4. write[p].tty = current => OnScreen'
    BY <2>2 DEF OnScreen, Right
  <2>. QED  BY <2>1, <2>3, <2>4
<1>9. Locked' /\ Shown'
  <2>1. Inside(p)'
    BY <1>4 DEF Inside
  <2>. QED  BY <1>3, <1>4, <1>5, <1>7, <1>8, <2>1, AloneStep
<1>. QED  BY <1>6, <1>9 DEF Inv

LEMMA RenderScanStep ==
    ASSUME Inv, NEW p \in Writer, RenderScan(p), UNCHANGED <<inputVars, consoleVars>>
    PROVE  Inv'
<1>1. WritesOK /\ tty \in [Tty -> Terminal] /\ write[p].tty \in Tty
  BY DEF Inv, TypeOK, WritesOK, TtysOK
<1>2. PICK T \in Terminal : T = Its(p)
  BY <1>1 DEF Its
<1>3. T.lock = 1
  BY <1>1, <1>2 DEF Inv, Locked, RenderScan, Its
<1>4. PICK U : U = [T EXCEPT !.lock = 0]
  OBVIOUS
<1>5. /\ U \in Terminal /\ U.lock = 0 /\ U.q = T.q /\ U.cooked = T.cooked
      /\ U.dirty = T.dirty /\ U.buf = T.buf /\ U.cursor = T.cursor
  BY <1>4 DEF Terminal, TerminalAt
<1>6. tty' = [tty EXCEPT ![write[p].tty] = U]
  BY <1>2, <1>3, <1>4 DEF RenderScan, Its
<1>7. PICK s : s = [c \in T.dirty |-> Drawn(T, c)]
  OBVIOUS
<1>8. PICK w : w = [write[p] EXCEPT !.pc = "draw"]
  OBVIOUS
<1>9. w = [pc |-> "draw", tty |-> write[p].tty,
           data |-> write[p].data, sprites |-> write[p].sprites]
  BY <1>1, <1>8 DEF WritesOK
<1>10. PICK v : v = [w EXCEPT !.sprites = s]
  OBVIOUS
<1>11. v = [pc |-> "draw", tty |-> write[p].tty, data |-> write[p].data, sprites |-> s]
  BY <1>9, <1>10
<1>12. write' = [write EXCEPT ![p] = v]
  BY <1>1, <1>2, <1>7, <1>8, <1>10 DEF RenderScan, WritesOK
<1>13. /\ WritesOK' /\ tty' \in [Tty -> Terminal]
       /\ write'[p].pc = "draw" /\ write'[p].tty = write[p].tty /\ write'[p].sprites = s
       /\ \A q \in Writer : q # p => write'[q] = write[q]
       /\ tty'[write[p].tty] = U
       /\ \A t \in Tty : t # write[p].tty => tty'[t] = tty[t]
  <2>1. /\ write'[p] = v /\ write' = [q \in Writer |-> write'[q]]
        /\ \A q \in Writer : q # p => write'[q] = write[q]
    BY <1>1, <1>12 DEF WritesOK
  <2>2. v.pc = "draw" /\ v.tty = write[p].tty /\ v.data = write[p].data /\ v.sprites = s
    BY <1>11
  <2>3. WritesOK'
    BY <1>1, <1>11, <2>1, <2>2, ZenonT(60) DEF WritesOK
  <2>. QED  BY <1>1, <1>5, <1>6, <2>1, <2>2, <2>3
<1>14. UNCHANGED <<current, show_cursor, screen, lost, ttask>>
  BY DEF RenderScan, consoleVars
<1>15. TypeOK'
  BY <1>2, <1>5, <1>13, <1>14, WriterTyped DEF Inv
<1>16. ASSUME ttask.pc # "boot", ~lost
       PROVE  (write[p].tty = current => OnScreen') /\ InHand(p)' /\ Finished(p)'
  <2>1. Finished(p)'
    BY <1>13 DEF Finished
  <2>2. ASSUME NEW c \in Cell \cap T.dirty PROVE Right(write[p].tty, c, s[c])'
    <3>1. s[c] = Drawn(T, c)
      BY <1>7
    <3>2. PICK x : x = s[c] /\ x = s'[c]
      OBVIOUS
    <3>. QED  BY <1>5, <1>13, <1>14, <3>1 DEF Right, Drawn
  <2>3. InHand(p)'
    BY <1>5, <1>7, <1>13, <1>14, <2>2 DEF InHand, Right
  <2>4. ASSUME write[p].tty = current PROVE OnScreen'
    <3>1. OnScreen /\ tty[current] = T /\ tty'[current] = U
      BY <1>2, <1>13, <1>16, <2>4 DEF Inv, Shown, Its
    <3>2. ASSUME NEW c \in Cell \ U.dirty PROVE Right(current, c, screen[c])'
      <4>1. Right(current, c, screen[c])
        BY <1>5, <3>1, <3>2 DEF OnScreen
      <4>. QED  BY <1>5, <1>14, <3>1, <3>2, <4>1 DEF Right, Drawn
    <3>. QED  BY <1>14, <3>1, <3>2 DEF OnScreen
  <2>. QED  BY <2>1, <2>3, <2>4
<1>17. Locked' /\ Shown'
  <2>1. Inside(p)' /\ Its(p).lock > 0
    BY <1>2, <1>3, <1>13 DEF Inside
  <2>. QED  BY <1>5, <1>13, <1>14, <1>16, <2>1, AloneStep
<1>. QED  BY <1>15, <1>17 DEF Inv

LEMMA RenderClearStep ==
    ASSUME Inv, NEW p \in Writer, RenderClear(p), UNCHANGED <<inputVars, consoleVars>>
    PROVE  Inv'
<1>1. /\ WritesOK /\ tty \in [Tty -> Terminal] /\ write[p].tty \in Tty /\ 1 \in Tty
      /\ <<>> \in Seq(Int)
  <2>1. <<>> \in Seq(Int) /\ 1 \in Tty
    BY ConsoleAssumption, Tasks
  <2>. QED  BY <2>1 DEF Inv, TypeOK, WritesOK, TtysOK
<1>2. PICK T \in Terminal : T = Its(p)
  BY <1>1 DEF Its
<1>3. Inside(p) /\ T.lock = 0 /\ write[p].pc = "clear"
  BY <1>1, <1>2 DEF Inv, Locked, RenderClear, At, Inside, Its
<1>4. PICK V : V = [T EXCEPT !.dirty = {}]
  OBVIOUS
<1>5. /\ V \in Terminal /\ V.lock = 0 /\ V.q = T.q /\ V.cooked = T.cooked
      /\ V.dirty = {} /\ V.buf = T.buf /\ V.cursor = T.cursor
  BY <1>3, <1>4 DEF Terminal, TerminalAt
<1>6. PICK U : U = [V EXCEPT !.lock = 1]
  OBVIOUS
<1>7. /\ U \in Terminal /\ U.lock = 1 /\ U.q = T.q /\ U.cooked = T.cooked
      /\ U.dirty = {} /\ U.buf = T.buf /\ U.cursor = T.cursor
  BY <1>5, <1>6 DEF Terminal, TerminalAt
<1>8. tty' = [tty EXCEPT ![write[p].tty] = U]
  <2>1. PICK i \in Tty : i = write[p].tty
    BY <1>1
  <2>2. PICK X : X = [tty EXCEPT ![i].dirty = {}]
    OBVIOUS
  <2>3. X = [tty EXCEPT ![i] = V]
    BY <1>1, <1>2, <1>4, <2>1, <2>2 DEF Its
  <2>4. X \in [Tty -> Terminal] /\ X[i] = V
    BY <1>1, <1>5, <2>3
  <2>5. tty' = [X EXCEPT ![i].lock = @ + 1]
    BY <2>1, <2>2 DEF RenderClear
  <2>6. tty' = [X EXCEPT ![i] = U]
    BY <1>5, <1>6, <2>4, <2>5
  <2>. QED  BY <1>1, <2>1, <2>3, <2>6
<1>9. PICK n : /\ n = NoWrite /\ n.pc = "idle" /\ n.tty = 1 /\ n.data = <<>>
               /\ n = [pc |-> n.pc, tty |-> n.tty, data |-> n.data, sprites |-> n.sprites]
  <2>1. PICK n : n = NoWrite
    OBVIOUS
  <2>2. n = [pc |-> "idle", tty |-> 1, data |-> <<>>, sprites |-> <<>>]
    BY <2>1 DEF NoWrite
  <2>3. n.pc = "idle" /\ n.tty = 1 /\ n.data = <<>> /\ n.sprites = <<>>
    BY <2>2
  <2>. QED  BY <2>1, <2>2, <2>3
<1>10. /\ write'[p] = n /\ write' = [q \in Writer |-> write'[q]]
       /\ \A q \in Writer : q # p => write'[q] = write[q]
  BY <1>1, <1>9 DEF RenderClear, WritesOK
<1>11. WritesOK'
  BY <1>1, <1>9, <1>10, ZenonT(60) DEF WritesOK
<1>12. /\ tty' \in [Tty -> Terminal] /\ tty'[write[p].tty] = U
       /\ \A t \in Tty : t # write[p].tty => tty'[t] = tty[t]
  BY <1>1, <1>7, <1>8
<1>13. UNCHANGED <<current, show_cursor, screen, lost, ttask>>
  BY DEF RenderClear, consoleVars
<1>14. TypeOK'
  BY <1>2, <1>7, <1>11, <1>12, <1>13, WriterTyped DEF Inv
<1>15. ASSUME ttask.pc # "boot", ~lost
       PROVE  (write[p].tty = current => OnScreen') /\ InHand(p)' /\ Finished(p)'
  <2>1. InHand(p)' /\ Finished(p)'
    BY <1>9, <1>10 DEF InHand, Finished
  <2>2. ASSUME write[p].tty = current PROVE OnScreen'
    <3>1. Finished(p) /\ tty[current] = T /\ tty'[current] = U
      BY <1>2, <1>12, <1>15, <2>2 DEF Inv, Shown, Its
    <3>2. ASSUME NEW c \in Cell PROVE Right(current, c, screen[c])'
      <4>1. Right(current, c, screen[c])
        BY <1>3, <2>2, <3>1 DEF Finished
      <4>. QED  BY <1>7, <1>13, <3>1, <4>1 DEF Right, Drawn
    <3>. QED  BY <1>13, <3>2 DEF OnScreen, Right
  <2>. QED  BY <2>1, <2>2
<1>16. Locked' /\ Shown'
  <2>1. ~Inside(p)'
    BY <1>9, <1>10 DEF Inside
  <2>. QED  BY <1>2, <1>3, <1>7, <1>10, <1>12, <1>13, <1>15, <2>1, AloneStep
<1>. QED  BY <1>14, <1>16 DEF Inv

LEMMA WriterStep ==
    ASSUME Inv, NEW p \in Writer, WriteStep(p), UNCHANGED <<inputVars, consoleVars>>
    PROVE  Inv'
BY WriteLockStep, WritePutStep, RenderScanStep, RenderDrawStep, RenderClearStep DEF WriteStep

LEMMA StartTyped ==
    ASSUME Init
    PROVE  Inv
<1>1. InputOK
  <2>1. PICK n \in Nat \ {0} : n = NEVENTS
    BY InputAssumption DEF InputAssumption
  <2>2. NoEvent \in Event /\ 0 \in 0 .. n - 1
    BY <2>1 DEF Event
  <2>3. in \in Device
    BY <2>1, <2>2 DEF Init, InputInit, input_init, Device
  <2>. QED  BY <2>3 DEF Init, InputInit, InputOK
<1>2. tty_init \in Terminal /\ tty_init.lock = 1
  <2>1. /\ 0 \in Cell /\ 0 \in 0 .. TTY_COOK_BUF_SZ - 1 /\ NUL \in Int
        /\ Fresh \in Int
    BY TtyAssumption, Sizes DEF Cell, NUL, TtyAssumption
  <2>2. [buf |-> [i \in 0 .. TTY_COOK_BUF_SZ - 1 |-> Fresh], front |-> 0, rear |-> 0] \in Queue
    BY <2>1 DEF Queue
  <2>3. [c \in Cell |-> NUL] \in [Cell -> Int]
    BY <2>1
  <2>. QED  BY <2>1, <2>2, <2>3 DEF tty_init, Terminal, TerminalAt
<1>3. PICK W \in Terminal : W = Puts(tty_init, WelcomeText) /\ W.lock = 1
  <2>1. Marked(tty_init, Puts(tty_init, WelcomeText))
    BY <1>2, PutAll, TtyAssumption DEF TtyAssumption
  <2>. QED  BY <1>2, <2>1 DEF Marked
<1>4. PICK T \in Terminal : T = [W EXCEPT !.dirty = {}] /\ T.lock = 1 /\ T.cooked = W.cooked
  <2>1. PICK T : T = [W EXCEPT !.dirty = {}]
    OBVIOUS
  <2>2. T \in Terminal /\ T.lock = 1 /\ T.cooked = W.cooked
    BY <1>3, <2>1 DEF Terminal, TerminalAt
  <2>. QED  BY <2>1, <2>2
<1>5. tty = [t \in Tty |-> T]
  BY <1>3, <1>4 DEF Init, TtyInit
<1>6. W.cooked = 0
  <2>1. tty_init.cooked = 0
    BY DEF tty_init
  <2>. QED  BY <1>2, <1>3, <2>1, PutAll, TtyAssumption DEF TtyAssumption, Marked
<1>7. TtysOK
  <2>1. ~(0 > 0)
    OBVIOUS
  <2>. QED  BY <1>4, <1>5, <1>6, <2>1 DEF Init, TtysOK
<1>8. write = [p \in Writer |-> NoWrite]
  BY DEF Init, TtyInit
<1>9. WritesOK /\ \A p \in Writer : write[p].pc = "idle"
  <2>1. PICK n : n = NoWrite
    OBVIOUS
  <2>2. n = [pc |-> "idle", tty |-> 1, data |-> <<>>, sprites |-> <<>>]
    BY <2>1 DEF NoWrite
  <2>3. n.pc = "idle" /\ n.tty = 1 /\ n.data = <<>> /\ n.sprites = <<>>
    BY <2>2
  <2>4. <<>> \in Seq(Int) /\ 1 \in Tty
    BY ConsoleAssumption, Tasks
  <2>5. write = [p \in Writer |-> write[p]] /\ \A p \in Writer : write[p] = n
    BY <1>8, <2>1
  <2>. QED  BY <2>2, <2>3, <2>4, <2>5 DEF WritesOK
<1>10. /\ ttask = [pc |-> "boot", ev |-> NoEvent, tty |-> 1] /\ current = 1
       /\ ttask.pc = "boot" /\ ttask.tty = 1
  BY DEF Init, TtyInit
<1>11. TaskOK /\ current \in Tty
  <2>1. 1 \in Tty /\ NoEvent \in Event
    BY ConsoleAssumption, Tasks DEF Event
  <2>. QED  BY <1>10, <2>1 DEF TaskOK, Task
<1>12. Locked
  BY <1>4, <1>5, <1>9 DEF Locked, Inside
<1>13. Shown
  BY <1>10 DEF Shown
<1>. QED  BY <1>1, <1>7, <1>9, <1>11, <1>12, <1>13 DEF Inv, TypeOK

LEMMA StaysTyped ==
    ASSUME Inv, [Next]_vars
    PROVE  Inv'
<1>1. CASE UNCHANGED vars
  <2>1. UNCHANGED <<inputVars, ttyVars, consoleVars>>
    BY <1>1 DEF vars
  <2>2. InputOK' /\ TaskOK'
    BY <2>1 DEF Inv, TypeOK, InputOK, TaskOK, inputVars, consoleVars
  <2>. QED  BY <2>1, <2>2, Untouched DEF Inv, TypeOK, consoleVars
<1>2. CASE Keys
  BY <1>2, KeysStep
<1>3. CASE Input
  BY <1>3, InputStep
<1>4. CASE dev_tty_task
  <2>1. TtyTask \in Writer
    BY ConsoleAssumption, Tasks
  <2>. QED  BY <1>4, <2>1, BootStep, ReadWaitStep, ReadTakeStep, SwitchStep, FbSetStep,
              NoCookStep, CookStep, BlinkStep, MarkCursorStep, WriterStep DEF dev_tty_task
<1>5. ASSUME NEW p \in Program, ProgramWrite(p) \/ ProgramStep(p) PROVE Inv'
  <2>1. p \in Writer
    BY ConsoleAssumption, Tasks
  <2>. QED  BY <1>5, <2>1, ProgramWriteStep, WriterStep DEF ProgramStep
<1>6. ASSUME NEW r \in Reader, ReadCooked(r) \/ ReadLine(r) PROVE Inv'
  BY <1>6, ReadCookedStep, ReadLineStep
<1>. QED  BY <1>1, <1>2, <1>3, <1>4, <1>5, <1>6 DEF Next

LEMMA ShowsTerminal ==
    ASSUME Inv
    PROVE  ScreenShowsTerminal
BY DEF Inv, Shown, OnScreen, Right, ScreenShowsTerminal

(* A cell of the current terminal that is not marked dirty is on the       *)
(* screen as the terminal has it, unless a redraw mark was wiped by the    *)
(* memset of another task's render (dev_tty.c:115), for every size of the  *)
(* terminals and any number of programs that write at the same time.       *)
THEOREM ScreenShowsTerminalHolds == Spec => []ScreenShowsTerminal
<1>1. Init => Inv
  BY StartTyped
<1>2. Inv /\ [Next]_vars => Inv'
  BY StaysTyped
<1>3. Inv => ScreenShowsTerminal
  BY ShowsTerminal
<1>. QED  BY <1>1, <1>2, <1>3, PTL DEF Spec

-----------------------------------------------------------------------------
(* The line queue, as a reader has it: what is where in the ring.          *)

SZ == TTY_COOK_BUF_SZ

(* Positions counted round a ring.                                         *)
LEMMA Turns ==
    ASSUME NEW n \in Nat \ {0}, NEW f \in 0 .. n - 1, NEW a \in 0 .. n - 1
    PROVE  /\ (f + a) % n = IF f + a < n THEN f + a ELSE f + a - n
           /\ (f + a) % n \in 0 .. n - 1
<1>1. CASE f + a < n
  BY <1>1
<1>2. CASE ~(f + a < n)
  <2>1. PICK b \in 0 .. n - 1 : b = f + a - n
    BY <1>2
  <2>2. f + a = b + n /\ (b + n) % n = b
    BY <2>1
  <2>. QED  BY <1>2, <2>1, <2>2
<1>. QED  BY <1>1, <1>2

LEMMA Apart ==
    ASSUME NEW n \in Nat \ {0}, NEW f \in 0 .. n - 1, NEW a \in 0 .. n - 1, NEW b \in 0 .. n - 1,
           a # b
    PROVE  (f + a) % n # (f + b) % n
<1>1. (f + a) % n = IF f + a < n THEN f + a ELSE f + a - n
  BY Turns
<1>2. (f + b) % n = IF f + b < n THEN f + b ELSE f + b - n
  BY Turns
<1>. QED  BY <1>1, <1>2

LEMMA TurnOn ==
    ASSUME NEW n \in Nat \ {0}, NEW f \in 0 .. n - 1, NEW a \in Nat, NEW b \in Nat, a + b < n
    PROVE  (((f + a) % n) + b) % n = (f + (a + b)) % n
<1>1. a \in 0 .. n - 1 /\ b \in 0 .. n - 1 /\ a + b \in 0 .. n - 1
  OBVIOUS
<1>2. PICK g \in 0 .. n - 1 : g = (f + a) % n /\ g = IF f + a < n THEN f + a ELSE f + a - n
  BY <1>1, Turns, ZenonT(60)
<1>3. (g + b) % n = IF g + b < n THEN g + b ELSE g + b - n
  BY <1>1, Turns
<1>4. (f + (a + b)) % n = IF f + (a + b) < n THEN f + (a + b) ELSE f + (a + b) - n
  BY <1>1, Turns
<1>. QED  BY <1>2, <1>3, <1>4

LEMMA TurnBack ==
    ASSUME NEW n \in Nat \ {0}, NEW f \in 0 .. n - 1, NEW a \in 0 .. n - 1
    PROVE  (((f + a) % n) - 1) % n = (f + (IF a = 0 THEN n - 1 ELSE a - 1)) % n
<1>1. PICK g \in 0 .. n - 1 : g = (f + a) % n /\ g = IF f + a < n THEN f + a ELSE f + a - n
  BY Turns
<1>2. (g - 1) % n = IF g = 0 THEN n - 1 ELSE g - 1
  BY Around
<1>3. PICK b \in 0 .. n - 1 : b = IF a = 0 THEN n - 1 ELSE a - 1
  OBVIOUS
<1>4. (f + b) % n = IF f + b < n THEN f + b ELSE f + b - n
  BY Turns
<1>. QED  BY <1>1, <1>2, <1>3, <1>4

Pos(q, k) == (q.front + k) % SZ
Byte(q, k) == q.buf[Pos(q, k)]
Char == Int \ {NUL}

\* The queue holds, from front on, the lines of done after the first n, each
\* with its terminator, then rest; off says where each line ends.
Stored(q, n, done, rest, off) ==
    LET m == Len(done)
        size == off[m] + Len(rest)
    IN  /\ off \in [n .. m -> Nat] /\ off[n] = 0
        /\ size < SZ /\ q.rear = Pos(q, size)
        /\ Byte(q, size) = NUL /\ Byte(q, SZ - 1) = NUL
        /\ \A k \in n + 1 .. m :
              /\ off[k] = off[k - 1] + Len(done[k]) + 1 /\ off[k] <= off[m]
              /\ Byte(q, off[k] - 1) = NUL
              /\ \A j \in 1 .. Len(done[k]) : Byte(q, off[k - 1] + j - 1) = done[k][j]
        /\ \A j \in 1 .. Len(rest) : Byte(q, off[m] + j - 1) = rest[j]

LEMMA Sized ==
    ASSUME NEW q, NEW n \in Nat, NEW done \in Seq(Seq(Char)), NEW rest \in Seq(Char), NEW off,
           Stored(q, n, done, rest, off), n <= Len(done)
    PROVE  /\ Len(done) \in Nat /\ Len(rest) \in Nat /\ off[Len(done)] \in Nat
           /\ off[Len(done)] + Len(rest) \in 0 .. SZ - 1
           /\ SZ \in Nat \ {0}
           /\ \A k \in 1 .. Len(done) : done[k] \in Seq(Char) /\ Len(done[k]) \in Nat
<1>1. Len(done) \in Nat /\ Len(rest) \in Nat
  BY LenProperties
<1>2. \A k \in 1 .. Len(done) : done[k] \in Seq(Char)
  BY ElementOfSeq
<1>3. \A k \in 1 .. Len(done) : Len(done[k]) \in Nat
  BY <1>2, LenProperties
<1>4. off[Len(done)] \in Nat /\ off[Len(done)] + Len(rest) < SZ
  BY <1>1, SMTT(60) DEF Stored
<1>5. SZ \in Nat \ {0}
  BY TtyAssumption DEF SZ, TtyAssumption
<1>. QED  BY <1>1, <1>2, <1>3, <1>4, <1>5

\* Writes at places of the queue leave the other places alone.
LEMMA Positions ==
    ASSUME NEW q \in Queue
    PROVE  /\ SZ \in Nat \ {0} /\ q.front \in 0 .. SZ - 1 /\ q.buf \in [0 .. SZ - 1 -> Int]
           /\ \A k \in 0 .. SZ - 1 : Pos(q, k) \in 0 .. SZ - 1
           /\ \A k, l \in 0 .. SZ - 1 : k # l => Pos(q, k) # Pos(q, l)
           /\ \A k \in 0 .. SZ - 1 : k + 1 < SZ => Next1(Pos(q, k)) = Pos(q, k + 1)
           /\ \A k \in 0 .. SZ - 1 : k + 1 = SZ => Next1(Pos(q, k)) = q.front
           /\ \A k \in 0 .. SZ - 1 :
                 (Pos(q, k) - 1) % SZ = Pos(q, IF k = 0 THEN SZ - 1 ELSE k - 1)
           /\ Pos(q, 0) = q.front
<1>1. PICK n \in Nat \ {0} : n = SZ
  BY TtyAssumption DEF SZ, TtyAssumption
<1>2. PICK f \in 0 .. n - 1 : f = q.front /\ q.buf \in [0 .. n - 1 -> Int]
  BY <1>1 DEF Queue, SZ
<1>3. \A k : Pos(q, k) = (f + k) % n
  BY <1>1, <1>2 DEF Pos
<1>4. \A k \in 0 .. n - 1 : (f + k) % n \in 0 .. n - 1
  BY Turns
<1>5. \A k, l \in 0 .. n - 1 : k # l => (f + k) % n # (f + l) % n
  BY Apart
<1>6. ASSUME NEW k \in 0 .. n - 1, k + 1 < n PROVE Next1((f + k) % n) = (f + (k + 1)) % n
  <2>1. (((f + k) % n) + 1) % n = (f + (k + 1)) % n
    BY <1>6, TurnOn
  <2>. QED  BY <1>1, <2>1 DEF Next1, SZ
<1>7. ASSUME NEW k \in 0 .. n - 1, k + 1 = n PROVE Next1((f + k) % n) = f
  <2>1. PICK g \in 0 .. n - 1 : g = (f + k) % n /\ g = IF f + k < n THEN f + k ELSE f + k - n
    BY Turns
  <2>2. (g + 1) % n = IF g + 1 = n THEN 0 ELSE g + 1
    BY Around
  <2>3. (g + 1) % n = f
    BY <1>7, <2>1, <2>2
  <2>. QED  BY <1>1, <2>1, <2>3 DEF Next1, SZ
<1>8. \A k \in 0 .. n - 1 : (((f + k) % n) - 1) % n = (f + (IF k = 0 THEN n - 1 ELSE k - 1)) % n
  BY TurnBack
<1>9. (f + 0) % n = f
  OBVIOUS
<1>10. \A k, l \in 0 .. SZ - 1 : k # l => Pos(q, k) # Pos(q, l)
  BY <1>1, <1>3, <1>5
<1>11. /\ \A k \in 0 .. SZ - 1 : k + 1 < SZ => Next1(Pos(q, k)) = Pos(q, k + 1)
       /\ \A k \in 0 .. SZ - 1 : k + 1 = SZ => Next1(Pos(q, k)) = q.front
  BY <1>1, <1>2, <1>3, <1>6, <1>7
<1>12. \A k \in 0 .. SZ - 1 :
          (Pos(q, k) - 1) % SZ = Pos(q, IF k = 0 THEN SZ - 1 ELSE k - 1)
  BY <1>1, <1>3, <1>8
<1>. QED  BY <1>1, <1>2, <1>3, <1>4, <1>9, <1>10, <1>11, <1>12

(* A character enters at the rear.                                         *)
LEMMA Entered ==
    ASSUME NEW q \in Queue, NEW s \in 0 .. SZ - 1, q.rear = Pos(q, s), ~Full(q), NEW x \in Int,
           NEW u, u = tty_enqueue(q, x)
    PROVE  /\ u \in Queue /\ u.front = q.front
           /\ s + 1 \in 0 .. SZ - 1 /\ u.rear = Pos(u, s + 1)
           /\ Byte(u, s) = x /\ Byte(u, s + 1) = NUL
           /\ \A k \in 0 .. SZ - 1 : k # s /\ k # s + 1 => Byte(u, k) = Byte(q, k)
<1>1. PICK n \in Nat \ {0} : n = SZ
  BY Positions
<1>2. s + 1 < n
  <2>. SUFFICES ASSUME s + 1 = n PROVE FALSE
    BY <1>1
  <2>1. Next1(q.rear) = q.front
    BY <1>1, Positions
  <2>. QED  BY <2>1 DEF Full
<1>3. PICK a \in 0 .. n - 1 : a = Pos(q, s) /\ a = q.rear
  BY <1>1, Positions
<1>4. PICK b \in 0 .. n - 1 : b = Pos(q, s + 1) /\ b = Next1(a) /\ a # b
  <2>1. s + 1 \in 0 .. n - 1 /\ s # s + 1
    BY <1>1, <1>2
  <2>2. Pos(q, s + 1) = Next1(a)
    BY <1>1, <1>2, <1>3, Positions
  <2>3. Pos(q, s) # Pos(q, s + 1) /\ Pos(q, s + 1) \in 0 .. n - 1
    BY <1>1, <2>1, Positions
  <2>. QED  BY <1>3, <2>2, <2>3
<1>5. PICK c : c = [q.buf EXCEPT ![a] = x, ![b] = NUL]
  OBVIOUS
<1>6. q.buf \in [0 .. n - 1 -> Int]
  BY <1>1, Positions
<1>7. c[a] = x /\ c[b] = NUL /\ \A i \in 0 .. n - 1 : i # a /\ i # b => c[i] = q.buf[i]
  BY <1>4, <1>5, <1>6
<1>8. u = [q EXCEPT !.buf = c, !.rear = b]
  BY <1>3, <1>4, <1>5, Fields DEF tty_enqueue
<1>9. u \in Queue
  BY TtyAssumption, Enqueued
<1>10. u.buf = c /\ u.front = q.front /\ u.rear = b
  BY <1>8, Fields DEF Queue
<1>11. \A k : Pos(u, k) = Pos(q, k) /\ Byte(u, k) = c[Pos(q, k)]
  BY <1>10 DEF Pos, Byte
<1>12. ASSUME NEW k \in 0 .. SZ - 1, k # s, k # s + 1 PROVE Byte(u, k) = Byte(q, k)
  <2>1. s \in 0 .. SZ - 1 /\ s + 1 \in 0 .. SZ - 1
    BY <1>1, <1>2
  <2>2. Pos(q, k) \in 0 .. SZ - 1 /\ Pos(q, k) # Pos(q, s) /\ Pos(q, k) # Pos(q, s + 1)
    BY <1>12, <2>1, Positions
  <2>3. Pos(q, k) \in 0 .. n - 1 /\ Pos(q, k) # a /\ Pos(q, k) # b
    BY <1>1, <1>3, <1>4, <2>2
  <2>. QED  BY <1>7, <1>11, <2>3 DEF Byte
<1>. QED  BY <1>1, <1>2, <1>3, <1>4, <1>7, <1>9, <1>10, <1>11, <1>12

\* What Stored says, in numbers: the ring has z places and s are taken.
Layout(q, n, done, rest, off, z, m, l, e, s) ==
    /\ z = SZ /\ m = Len(done) /\ l = Len(rest) /\ e = off[m] /\ s = e + l /\ s < z
    /\ n <= m /\ off \in [n .. m -> Nat] /\ off[n] = 0
    /\ q.rear = Pos(q, s) /\ Byte(q, s) = NUL /\ Byte(q, z - 1) = NUL
    /\ \A k \in n + 1 .. m :
          /\ off[k - 1] \in Nat /\ Len(done[k]) \in Nat /\ off[k] \in Nat
          /\ off[k] = off[k - 1] + Len(done[k]) + 1 /\ off[k] <= e
          /\ Byte(q, off[k] - 1) = NUL
          /\ \A j \in 1 .. Len(done[k]) : Byte(q, off[k - 1] + j - 1) = done[k][j]
    /\ \A j \in 1 .. l : Byte(q, e + j - 1) = rest[j]

LEMMA LaidOut ==
    ASSUME NEW q \in Queue, NEW n \in Nat, NEW done \in Seq(Seq(Char)), NEW rest \in Seq(Char),
           NEW off, Stored(q, n, done, rest, off), n <= Len(done)
    PROVE  \E z \in Nat \ {0}, m \in Nat, l \in Nat, e \in Nat, s \in Nat :
              Layout(q, n, done, rest, off, z, m, l, e, s)
<1>1. PICK z \in Nat \ {0}, m \in Nat, l \in Nat, e \in Nat :
         z = SZ /\ m = Len(done) /\ l = Len(rest) /\ e = off[m]
  BY Sized
<1>2. PICK s \in Nat : s = e + l
  OBVIOUS
<1>3. /\ s < z /\ n <= m /\ off \in [n .. m -> Nat] /\ off[n] = 0
      /\ q.rear = Pos(q, s) /\ Byte(q, s) = NUL /\ Byte(q, z - 1) = NUL
      /\ \A j \in 1 .. l : Byte(q, e + j - 1) = rest[j]
  BY <1>1, <1>2 DEF Stored
<1>4. ASSUME NEW k \in n + 1 .. m
      PROVE  /\ off[k - 1] \in Nat /\ Len(done[k]) \in Nat /\ off[k] \in Nat
             /\ off[k] = off[k - 1] + Len(done[k]) + 1 /\ off[k] <= e
             /\ Byte(q, off[k] - 1) = NUL
             /\ \A j \in 1 .. Len(done[k]) : Byte(q, off[k - 1] + j - 1) = done[k][j]
  <2>1. /\ off[k] = off[k - 1] + Len(done[k]) + 1 /\ off[k] <= e
        /\ Byte(q, off[k] - 1) = NUL
        /\ \A j \in 1 .. Len(done[k]) : Byte(q, off[k - 1] + j - 1) = done[k][j]
    BY <1>1, <1>2 DEF Stored
  <2>2. k \in 1 .. m /\ k - 1 \in n .. m /\ k \in n .. m
    OBVIOUS
  <2>3. Len(done[k]) \in Nat
    BY <1>1, <2>2, Sized
  <2>. QED  BY <1>3, <2>1, <2>2, <2>3
<1>5. Layout(q, n, done, rest, off, z, m, l, e, s)
  BY <1>1, <1>2, <1>3, <1>4 DEF Layout
<1>. QED  BY <1>5

LEMMA Putting ==
    ASSUME NEW q \in Queue, NEW n \in Nat, NEW done \in Seq(Seq(Char)), NEW rest \in Seq(Char),
           NEW off, Stored(q, n, done, rest, off), n <= Len(done), ~Full(q), NEW ch \in Char
    PROVE  /\ tty_enqueue(q, ch) \in Queue
           /\ Stored(tty_enqueue(q, ch), n, done, Append(rest, ch), off)
<1>1. PICK z \in Nat \ {0}, m \in Nat, l \in Nat, e \in Nat, s \in Nat :
         Layout(q, n, done, rest, off, z, m, l, e, s)
  BY LaidOut
<1>2. s \in 0 .. SZ - 1 /\ q.rear = Pos(q, s) /\ ch \in Int
  BY <1>1 DEF Layout, Char
<1>3. PICK u : u = tty_enqueue(q, ch)
  OBVIOUS
<1>4. /\ u \in Queue /\ u.front = q.front
      /\ s + 1 \in 0 .. SZ - 1 /\ u.rear = Pos(u, s + 1)
      /\ Byte(u, s) = ch /\ Byte(u, s + 1) = NUL
      /\ \A k \in 0 .. SZ - 1 : k # s /\ k # s + 1 => Byte(u, k) = Byte(q, k)
  BY <1>2, <1>3, Entered
<1>5. PICK r : /\ r = Append(rest, ch) /\ Len(r) = l + 1
               /\ \A j \in 1 .. l : r[j] = rest[j]
               /\ r[l + 1] = ch
  <2>1. l = Len(rest)
    BY <1>1 DEF Layout
  <2>. QED  BY <2>1, AppendProperties, ZenonT(60)
<1>6. /\ z = SZ /\ s + 1 < z
      /\ \A k \in 0 .. z - 1 : k # s /\ k # s + 1 => Byte(u, k) = Byte(q, k)
  BY <1>1, <1>4, SMTT(60) DEF Layout
<1>7. Byte(u, z - 1) = NUL
  <2>1. z - 1 \in 0 .. z - 1 /\ Byte(q, z - 1) = NUL
    BY <1>1 DEF Layout
  <2>2. CASE z - 1 = s + 1
    BY <1>4, <2>2
  <2>3. CASE z - 1 # s + 1
    <3>1. z - 1 # s
      BY <1>6
    <3>. QED  BY <1>6, <2>1, <2>3, <3>1
  <2>. QED  BY <2>2, <2>3
<1>8. s = e + l /\ \A j \in 1 .. l : Byte(q, e + j - 1) = rest[j]
  BY <1>1 DEF Layout
<1>9. ASSUME NEW k \in n + 1 .. m
      PROVE  /\ off[k] = off[k - 1] + Len(done[k]) + 1 /\ off[k] <= e
             /\ Byte(u, off[k] - 1) = NUL
             /\ \A j \in 1 .. Len(done[k]) : Byte(u, off[k - 1] + j - 1) = done[k][j]
  <2>1. PICK o \in Nat, d \in Nat, v \in Nat :
           /\ off[k - 1] = o /\ Len(done[k]) = d /\ off[k] = v
           /\ v = o + d + 1 /\ v <= e
           /\ Byte(q, v - 1) = NUL
           /\ \A j \in 1 .. d : Byte(q, o + j - 1) = done[k][j]
    <3>1. /\ off[k - 1] \in Nat /\ Len(done[k]) \in Nat /\ off[k] \in Nat
          /\ off[k] = off[k - 1] + Len(done[k]) + 1 /\ off[k] <= e
          /\ Byte(q, off[k] - 1) = NUL
          /\ \A j \in 1 .. Len(done[k]) : Byte(q, off[k - 1] + j - 1) = done[k][j]
      BY <1>1 DEF Layout
    <3>. QED  BY <3>1
  <2>2. Byte(u, v - 1) = NUL
    <3>1. v - 1 \in 0 .. z - 1 /\ v - 1 # s /\ v - 1 # s + 1
      BY <1>6, <1>8, <2>1
    <3>. QED  BY <1>6, <2>1, <3>1
  <2>3. ASSUME NEW j \in 1 .. d PROVE Byte(u, o + j - 1) = done[k][j]
    <3>1. o + j - 1 \in 0 .. z - 1 /\ o + j - 1 # s /\ o + j - 1 # s + 1
      BY <1>6, <1>8, <2>1
    <3>. QED  BY <1>6, <2>1, <3>1
  <2>. QED  BY <2>1, <2>2, <2>3
<1>10. ASSUME NEW j \in 1 .. l + 1 PROVE Byte(u, e + j - 1) = r[j]
  <2>1. CASE j = l + 1
    <3>1. e + j - 1 = s
      BY <1>8, <2>1
    <3>. QED  BY <1>4, <1>5, <2>1, <3>1
  <2>2. CASE j # l + 1
    <3>1. j \in 1 .. l
      BY <2>2
    <3>2. e + j - 1 \in 0 .. z - 1 /\ e + j - 1 # s /\ e + j - 1 # s + 1
      BY <1>6, <1>8, <3>1
    <3>. QED  BY <1>5, <1>6, <1>8, <3>1, <3>2
  <2>. QED  BY <2>1, <2>2
<1>11. off \in [n .. m -> Nat] /\ off[n] = 0 /\ m = Len(done) /\ e = off[m]
  BY <1>1 DEF Layout
<1>12. e + (l + 1) = s + 1
  BY <1>8
<1>13. Stored(u, n, done, r, off)
  BY <1>4, <1>5, <1>6, <1>7, <1>9, <1>10, <1>11, <1>12 DEF Stored
<1>. QED  BY <1>3, <1>4, <1>5, <1>13

(* The line that is complete ends where the queue does.                    *)
LEMMA Ending ==
    ASSUME NEW q \in Queue, NEW n \in Nat, NEW done \in Seq(Seq(Char)), NEW rest \in Seq(Char),
           NEW off, Stored(q, n, done, rest, off), n <= Len(done), ~Full(q)
    PROVE  /\ tty_enqueue(q, NUL) \in Queue
           /\ \E new : Stored(tty_enqueue(q, NUL), n, Append(done, rest), <<>>, new)
<1>1. PICK z \in Nat \ {0}, m \in Nat, l \in Nat, e \in Nat, s \in Nat :
         Layout(q, n, done, rest, off, z, m, l, e, s)
  BY LaidOut
<1>2. s \in 0 .. SZ - 1 /\ q.rear = Pos(q, s) /\ NUL \in Int
  BY <1>1 DEF Layout, NUL
<1>3. PICK u : u = tty_enqueue(q, NUL)
  OBVIOUS
<1>4. /\ u \in Queue /\ u.front = q.front
      /\ s + 1 \in 0 .. SZ - 1 /\ u.rear = Pos(u, s + 1)
      /\ Byte(u, s) = NUL /\ Byte(u, s + 1) = NUL
      /\ \A k \in 0 .. SZ - 1 : k # s /\ k # s + 1 => Byte(u, k) = Byte(q, k)
  BY <1>2, <1>3, Entered
<1>5. PICK new : new = [k \in n .. m + 1 |-> IF k = m + 1 THEN s + 1 ELSE off[k]]
  OBVIOUS
<1>6. PICK ds : /\ ds = Append(done, rest) /\ Len(ds) = m + 1
                /\ \A j \in 1 .. m : ds[j] = done[j]
                /\ ds[m + 1] = rest
  <2>1. m = Len(done)
    BY <1>1 DEF Layout
  <2>. QED  BY <2>1, AppendProperties, ZenonT(60)
<1>7. /\ z = SZ /\ s + 1 < z /\ s = e + l /\ l = Len(rest) /\ e = off[m] /\ n <= m
      /\ off \in [n .. m -> Nat] /\ off[n] = 0
      /\ \A k \in 0 .. z - 1 : k # s /\ k # s + 1 => Byte(u, k) = Byte(q, k)
  BY <1>1, <1>4, SMTT(60) DEF Layout
<1>8. s = e + l /\ s + 1 < z
  BY <1>7
<1>9. \A k \in 0 .. z - 1 : k # s /\ k # s + 1 => Byte(u, k) = Byte(q, k)
  BY <1>7
<1>10. Byte(u, z - 1) = NUL
  <2>1. z - 1 \in 0 .. z - 1 /\ Byte(q, z - 1) = NUL
    BY <1>1 DEF Layout
  <2>2. CASE z - 1 = s + 1
    BY <1>4, <2>2
  <2>3. CASE z - 1 # s + 1
    <3>1. z - 1 # s
      BY <1>7
    <3>. QED  BY <1>7, <2>1, <2>3, <3>1
  <2>. QED  BY <2>2, <2>3
<1>11. /\ new \in [n .. m + 1 -> Nat] /\ new[n] = 0 /\ new[m + 1] = s + 1
       /\ \A k \in n .. m : new[k] = off[k]
  BY <1>5, <1>7, SMTT(60)
<1>12. ASSUME NEW k \in n + 1 .. m
       PROVE  /\ new[k] = new[k - 1] + Len(ds[k]) + 1 /\ new[k] <= new[m + 1]
              /\ Byte(u, new[k] - 1) = NUL
              /\ \A j \in 1 .. Len(ds[k]) : Byte(u, new[k - 1] + j - 1) = ds[k][j]
  <2>1. PICK o \in Nat, d \in Nat, v \in Nat :
           /\ off[k - 1] = o /\ Len(done[k]) = d /\ off[k] = v
           /\ v = o + d + 1 /\ v <= e
           /\ Byte(q, v - 1) = NUL
           /\ \A j \in 1 .. d : Byte(q, o + j - 1) = done[k][j]
    <3>1. /\ off[k - 1] \in Nat /\ Len(done[k]) \in Nat /\ off[k] \in Nat
          /\ off[k] = off[k - 1] + Len(done[k]) + 1 /\ off[k] <= e
          /\ Byte(q, off[k] - 1) = NUL
          /\ \A j \in 1 .. Len(done[k]) : Byte(q, off[k - 1] + j - 1) = done[k][j]
      BY <1>1 DEF Layout
    <3>. QED  BY <3>1
  <2>2. Byte(u, v - 1) = NUL
    <3>1. v \in Nat \ {0} /\ v <= e
      BY <2>1, SMTT(60)
    <3>2. v - 1 \in 0 .. z - 1 /\ v - 1 # s /\ v - 1 # s + 1
      BY <1>8, <3>1
    <3>. QED  BY <1>9, <2>1, <3>2
  <2>3. ASSUME NEW j \in 1 .. d PROVE Byte(u, o + j - 1) = done[k][j]
    <3>1. o + j - 1 \in 0 .. z - 1 /\ o + j - 1 # s /\ o + j - 1 # s + 1
      BY <1>8, <2>1, SMTT(60)
    <3>. QED  BY <1>9, <2>1, <3>1
  <2>4. k \in n .. m /\ k - 1 \in n .. m /\ k \in 1 .. m
    OBVIOUS
  <2>5. new[k] = v /\ new[k - 1] = o /\ ds[k] = done[k]
    BY <1>6, <1>11, <2>1, <2>4
  <2>6. v <= s + 1
    BY <1>8, <2>1
  <2>. QED  BY <1>11, <2>1, <2>2, <2>3, <2>5, <2>6
<1>13. /\ new[m + 1] = new[m] + Len(ds[m + 1]) + 1
       /\ Byte(u, new[m + 1] - 1) = NUL
       /\ \A j \in 1 .. Len(ds[m + 1]) : Byte(u, new[m] + j - 1) = ds[m + 1][j]
  <2>1. new[m] = e /\ ds[m + 1] = rest /\ Len(ds[m + 1]) = l
    BY <1>6, <1>7, <1>11
  <2>2. \A j \in 1 .. l : Byte(q, e + j - 1) = rest[j]
    BY <1>1 DEF Layout
  <2>3. ASSUME NEW j \in 1 .. l PROVE Byte(u, e + j - 1) = rest[j]
    <3>1. e + j - 1 \in 0 .. z - 1 /\ e + j - 1 # s /\ e + j - 1 # s + 1
      BY <1>7, SMTT(60)
    <3>. QED  BY <1>7, <2>2, <3>1
  <2>4. Byte(u, s + 1 - 1) = NUL
    <3>1. s + 1 - 1 = s
      OBVIOUS
    <3>. QED  BY <1>4, <3>1
  <2>. QED  BY <1>7, <1>11, <2>1, <2>3, <2>4
<1>14. ASSUME NEW k \in n + 1 .. m + 1
       PROVE  /\ new[k] = new[k - 1] + Len(ds[k]) + 1 /\ new[k] <= new[m + 1]
              /\ Byte(u, new[k] - 1) = NUL
              /\ \A j \in 1 .. Len(ds[k]) : Byte(u, new[k - 1] + j - 1) = ds[k][j]
  <2>1. CASE k = m + 1
    <3>1. k - 1 = m /\ s + 1 <= s + 1
      BY <2>1
    <3>2. new[m + 1] <= new[m + 1]
      BY <1>11, <3>1
    <3>. QED  BY <1>13, <2>1, <3>1, <3>2
  <2>2. CASE k # m + 1
    <3>1. k \in n + 1 .. m
      BY <2>2
    <3>. QED  BY <1>12, <3>1
  <2>. QED  BY <2>1, <2>2
<1>15. Len(<<>>) = 0 /\ new[m + 1] + 0 = s + 1
  BY <1>11
<1>16. \A j \in 1 .. 0 : Byte(u, new[m + 1] + j - 1) = <<>>[j]
  OBVIOUS
<1>17. Stored(u, n, ds, <<>>, new)
  <2>1. PICK M : M = m + 1 /\ M = Len(ds)
    BY <1>6
  <2>2. /\ new \in [n .. M -> Nat] /\ new[n] = 0 /\ new[M] = s + 1
        /\ new[M] + Len(<<>>) = s + 1 /\ s + 1 < SZ /\ u.rear = Pos(u, s + 1)
        /\ Byte(u, s + 1) = NUL /\ Byte(u, SZ - 1) = NUL
        /\ \A j \in 1 .. Len(<<>>) : Byte(u, new[M] + j - 1) = <<>>[j]
    BY <1>4, <1>7, <1>10, <1>11, <1>15, <1>16, <2>1
  <2>3. \A k \in n + 1 .. M :
           /\ new[k] = new[k - 1] + Len(ds[k]) + 1 /\ new[k] <= new[M]
           /\ Byte(u, new[k] - 1) = NUL
           /\ \A j \in 1 .. Len(ds[k]) : Byte(u, new[k - 1] + j - 1) = ds[k][j]
    BY <1>14, <2>1
  <2>. QED  BY <2>1, <2>2, <2>3 DEF Stored
<1>. QED  BY <1>3, <1>4, <1>6, <1>17

(* There is something to erase exactly if the line has begun, and it is    *)
(* the last character.                                                     *)
LEMMA Erasing ==
    ASSUME NEW q \in Queue, NEW n \in Nat, NEW done \in Seq(Seq(Char)), NEW rest \in Seq(Char),
           NEW off, Stored(q, n, done, rest, off), n <= Len(done)
    PROVE  /\ CanPop(q) <=> rest # <<>>
           /\ rest # <<>> =>
                 /\ tty_pop_back(q) \in Queue
                 /\ Stored(tty_pop_back(q), n, done, SubSeq(rest, 1, Len(rest) - 1), off)
<1>1. PICK z \in Nat \ {0}, m \in Nat, l \in Nat, e \in Nat, s \in Nat :
         Layout(q, n, done, rest, off, z, m, l, e, s)
  BY LaidOut
<1>2. /\ z = SZ /\ s < z /\ s = e + l /\ l = Len(rest) /\ e = off[m] /\ n <= m /\ m = Len(done)
      /\ off \in [n .. m -> Nat] /\ off[n] = 0 /\ q.rear = Pos(q, s) /\ Byte(q, z - 1) = NUL
      /\ \A j \in 1 .. l : Byte(q, e + j - 1) = rest[j]
  BY <1>1 DEF Layout
<1>3. PICK t \in 0 .. z - 1 : t = IF s = 0 THEN z - 1 ELSE s - 1
  BY <1>2
<1>4. LastPos(q) = Pos(q, t)
  <2>1. s \in 0 .. SZ - 1
    BY <1>2
  <2>2. (Pos(q, s) - 1) % SZ = Pos(q, t)
    BY <1>2, <1>3, <2>1, Positions, ZenonT(60)
  <2>. QED  BY <1>2, <2>2 DEF LastPos, SZ
<1>5. ASSUME rest = <<>> PROVE Byte(q, t) = NUL
  <2>1. l = 0 /\ s = e
    BY <1>2, <1>5
  <2>2. CASE s = 0
    BY <1>2, <1>3, <2>2
  <2>3. CASE s # 0
    <3>1. m \in n + 1 .. m
      BY <1>2, <2>1, <2>3
    <3>2. Byte(q, off[m] - 1) = NUL
      BY <1>1, <3>1 DEF Layout
    <3>. QED  BY <1>2, <1>3, <2>1, <2>3, <3>2
  <2>. QED  BY <2>2, <2>3
<1>6. ASSUME rest # <<>> PROVE l # 0
  BY <1>2, <1>6, EmptySeq
<1>7. ASSUME rest # <<>> PROVE Byte(q, t) # NUL
  <2>1. l \in 1 .. l /\ s - 1 = e + l - 1 /\ s # 0
    BY <1>2, <1>6, <1>7, SMTT(60)
  <2>2. rest[l] \in Char
    BY <1>2, <2>1, ElementOfSeq
  <2>3. Byte(q, e + l - 1) = rest[l]
    BY <1>2, <2>1
  <2>. QED  BY <1>3, <2>1, <2>2, <2>3 DEF Char
<1>8. CanPop(q) <=> rest # <<>>
  BY <1>4, <1>5, <1>7 DEF CanPop, Byte
<1>9. ASSUME rest # <<>>
      PROVE  /\ tty_pop_back(q) \in Queue
             /\ Stored(tty_pop_back(q), n, done, SubSeq(rest, 1, Len(rest) - 1), off)
  <2>1. l # 0 /\ s # 0 /\ t = s - 1
    BY <1>2, <1>3, <1>6, <1>9
  <2>2. PICK u : u = tty_pop_back(q)
    OBVIOUS
  <2>3. u \in Queue
    BY <2>2, PoppedBack, TtyAssumption
  <2>4. PICK a \in 0 .. z - 1 : a = Pos(q, t) /\ a = LastPos(q)
    BY <1>2, <1>3, <1>4, Positions
  <2>5. PICK b : b = [q.buf EXCEPT ![a] = NUL]
    OBVIOUS
  <2>6. q.buf \in [0 .. z - 1 -> Int]
    BY <1>2, Positions
  <2>7. u = [q EXCEPT !.buf = b, !.rear = a]
    <3>1. u = [q EXCEPT !.buf[a] = NUL, !.rear = a]
      BY <2>2, <2>4 DEF tty_pop_back
    <3>. QED  BY <2>5, <3>1, Fields
  <2>8. u.buf = b /\ u.front = q.front /\ u.rear = a
    BY <2>7, Fields DEF Queue
  <2>9. \A k : Pos(u, k) = Pos(q, k) /\ Byte(u, k) = b[Pos(q, k)]
    BY <2>8 DEF Pos, Byte
  <2>10. Byte(u, t) = NUL
    BY <2>4, <2>5, <2>6, <2>9
  <2>11. ASSUME NEW k \in 0 .. z - 1, k # t PROVE Byte(u, k) = Byte(q, k)
    <3>1. Pos(q, k) \in 0 .. z - 1 /\ Pos(q, k) # a
      <4>1. k \in 0 .. SZ - 1 /\ t \in 0 .. SZ - 1
        BY <1>2
      <4>2. Pos(q, k) \in 0 .. SZ - 1 /\ Pos(q, k) # Pos(q, t)
        BY <2>11, <4>1, Positions
      <4>. QED  BY <1>2, <2>4, <4>2
    <3>. QED  BY <2>5, <2>6, <2>9, <3>1 DEF Byte
  <2>12. Byte(u, z - 1) = NUL
    <3>1. z - 1 \in 0 .. z - 1
      OBVIOUS
    <3>. QED  BY <1>2, <2>10, <2>11, <3>1
  <2>13. PICK r : /\ r = SubSeq(rest, 1, l - 1) /\ Len(r) = l - 1
                  /\ \A j \in 1 .. l - 1 : r[j] = rest[j]
    <3>1. PICK d \in Nat : d = l - 1
      BY <2>1
    <3>2. \A i \in 1 .. d : rest[i] \in Char
      BY <1>2, <3>1, ElementOfSeq
    <3>3. PICK r : r = SubSeq(rest, 1, d)
      OBVIOUS
    <3>4. /\ Len(r) = (IF 1 <= d THEN d - 1 + 1 ELSE 0)
          /\ \A j \in 1 .. d - 1 + 1 : r[j] = rest[1 + j - 1]
      BY <3>2, <3>3, SubSeqProperties
    <3>5. Len(r) = d /\ \A j \in 1 .. d : r[j] = rest[j]
      BY <3>4
    <3>. QED  BY <3>1, <3>3, <3>5
  <2>14. ASSUME NEW k \in n + 1 .. m
         PROVE  /\ off[k] = off[k - 1] + Len(done[k]) + 1 /\ off[k] <= e
                /\ Byte(u, off[k] - 1) = NUL
                /\ \A j \in 1 .. Len(done[k]) : Byte(u, off[k - 1] + j - 1) = done[k][j]
    <3>1. PICK o \in Nat, d \in Nat, v \in Nat :
             /\ off[k - 1] = o /\ Len(done[k]) = d /\ off[k] = v
             /\ v = o + d + 1 /\ v <= e
             /\ Byte(q, v - 1) = NUL
             /\ \A j \in 1 .. d : Byte(q, o + j - 1) = done[k][j]
      <4>1. /\ off[k - 1] \in Nat /\ Len(done[k]) \in Nat /\ off[k] \in Nat
            /\ off[k] = off[k - 1] + Len(done[k]) + 1 /\ off[k] <= e
            /\ Byte(q, off[k] - 1) = NUL
            /\ \A j \in 1 .. Len(done[k]) : Byte(q, off[k - 1] + j - 1) = done[k][j]
        BY <1>1 DEF Layout
      <4>. QED  BY <4>1
    <3>2. Byte(u, v - 1) = NUL
      <4>1. v - 1 \in 0 .. z - 1 /\ v - 1 # t
        BY <1>2, <2>1, <3>1, SMTT(60)
      <4>. QED  BY <2>11, <3>1, <4>1
    <3>3. ASSUME NEW j \in 1 .. d PROVE Byte(u, o + j - 1) = done[k][j]
      <4>1. j \in 1 .. d /\ o + d + 1 <= e /\ s = e + l /\ s < z /\ t = s - 1
        BY <1>2, <2>1, <3>1
      <4>2. o + j - 1 \in 0 .. z - 1 /\ o + j - 1 # t
        BY <4>1
      <4>. QED  BY <2>11, <3>1, <4>2
    <3>. QED  BY <3>1, <3>2, <3>3
  <2>15. ASSUME NEW j \in 1 .. l - 1 PROVE Byte(u, e + j - 1) = r[j]
    <3>1. e + j - 1 \in 0 .. z - 1 /\ e + j - 1 # t /\ j \in 1 .. l
      <4>1. s = e + l /\ s < z /\ t = s - 1
        BY <1>2, <2>1
      <4>. QED  BY <4>1
    <3>. QED  BY <1>2, <2>11, <2>13, <3>1
  <2>16. e + (l - 1) = t /\ u.rear = Pos(u, t) /\ t < z
    BY <1>2, <2>1, <2>4, <2>8, <2>9, SMTT(60)
  <2>17. Stored(u, n, done, r, off)
    BY <1>2, <2>10, <2>12, <2>13, <2>14, <2>15, <2>16 DEF Stored
  <2>. QED  BY <1>2, <2>2, <2>3, <2>13, <2>17
<1>. QED  BY <1>8, <1>9

\* What fits of a line in a reader's buffer.
Cut(l) == [i \in {j \in DOMAIN l : j <= Count} |-> l[i]]

(* The lines end one after the other.                                      *)
LEMMA Rising ==
    ASSUME NEW n \in Nat, NEW m \in Nat, NEW off \in [n .. m -> Nat],
           \A k \in n + 1 .. m : off[k] >= off[k - 1]
    PROVE  \A k \in n + 1 .. m : off[k] >= off[n + 1]
<1>. DEFINE P == {j \in Nat : n + 1 + j <= m => off[n + 1 + j] >= off[n + 1]}
<1>1. 0 \in P
  <2>1. n + 1 <= m => n + 1 \in n .. m
    OBVIOUS
  <2>. QED  BY <2>1
<1>2. ASSUME NEW j \in 1 .. m, j - 1 \in P PROVE j \in P
  <2>. SUFFICES ASSUME n + 1 + j <= m PROVE off[n + 1 + j] >= off[n + 1]
    OBVIOUS
  <2>1. PICK k \in n + 1 .. m : k = n + 1 + j /\ k - 1 = n + 1 + (j - 1) /\ k - 1 \in n .. m
    OBVIOUS
  <2>2. off[k] >= off[k - 1] /\ off[k - 1] >= off[n + 1]
    BY <1>2, <2>1
  <2>3. off[k] \in Nat /\ off[k - 1] \in Nat /\ off[n + 1] \in Nat
    BY <2>1
  <2>. QED  BY <2>1, <2>2, <2>3, SMTT(60)
<1>3. \A j \in 0 .. m : j \in P
  <2>. HIDE DEF P
  <2>. QED  BY <1>1, <1>2, UpTo
<1>4. ASSUME NEW k \in n + 1 .. m PROVE off[k] >= off[n + 1]
  <2>1. k - n - 1 \in 0 .. m /\ n + 1 + (k - n - 1) = k /\ k <= m
    OBVIOUS
  <2>. QED  BY <1>3, <2>1
<1>. QED  BY <1>4

(* A reader gets the first line there is, and leaves those after it.       *)
LEMMA Reading ==
    ASSUME NEW q \in Queue, NEW n \in Nat, NEW done \in Seq(Seq(Char)), NEW rest \in Seq(Char),
           NEW off, Stored(q, n, done, rest, off), n < Len(done), Terminated(q)
    PROVE  /\ Line(q, Count) = Cut(done[n + 1])
           /\ SkipLine(q) \in Queue
           /\ \E new : Stored(SkipLine(q), n + 1, done, rest, new)
<1>1. PICK z \in Nat \ {0}, m \in Nat, l \in Nat, e \in Nat, s \in Nat :
         Layout(q, n, done, rest, off, z, m, l, e, s)
  <2>1. n <= Len(done)
    BY LenProperties
  <2>. QED  BY <2>1, LaidOut
<1>2. /\ z = SZ /\ s < z /\ s = e + l /\ l = Len(rest) /\ e = off[m] /\ n < m /\ m = Len(done)
      /\ off \in [n .. m -> Nat] /\ off[n] = 0 /\ q.rear = Pos(q, s) /\ Byte(q, s) = NUL
      /\ \A j \in 1 .. l : Byte(q, e + j - 1) = rest[j]
  BY <1>1 DEF Layout
<1>3. n + 1 \in n + 1 .. m /\ n + 1 \in 1 .. m /\ n + 1 - 1 = n
  BY <1>2
<1>4. PICK x \in Seq(Char) : x = done[n + 1]
  BY <1>2, <1>3, ElementOfSeq
<1>5. PICK d \in Nat, v \in Nat :
         /\ d = Len(x) /\ v = off[n + 1] /\ v = d + 1 /\ v <= e
         /\ Byte(q, v - 1) = NUL
         /\ \A j \in 1 .. d : Byte(q, j - 1) = x[j]
  <2>1. /\ off[n] = 0 /\ Len(x) \in Nat /\ off[n + 1] \in Nat
        /\ off[n + 1] = off[n] + Len(x) + 1 /\ off[n + 1] <= e
        /\ Byte(q, off[n + 1] - 1) = NUL
        /\ \A j \in 1 .. Len(x) : Byte(q, off[n] + j - 1) = x[j]
    <3>1. PICK k \in n + 1 .. m : k = n + 1 /\ k - 1 = n /\ done[k] = x
      BY <1>3, <1>4
    <3>2. /\ Len(done[k]) \in Nat /\ off[k] \in Nat
          /\ off[k] = off[k - 1] + Len(done[k]) + 1 /\ off[k] <= e
          /\ Byte(q, off[k] - 1) = NUL
          /\ \A j \in 1 .. Len(done[k]) : Byte(q, off[k - 1] + j - 1) = done[k][j]
      BY <1>1 DEF Layout
    <3>. QED  BY <1>2, <3>1, <3>2, ZenonT(60)
  <2>2. \A j \in 1 .. Len(x) : 0 + j - 1 = j - 1
    BY <2>1
  <2>. QED  BY <2>1, <2>2
<1>6. v < z /\ d \in 0 .. z - 1 /\ v - 1 = d /\ v \in 1 .. z - 1
  BY <1>2, <1>5
<1>7. LineLen(q) = d
  <2>1. PICK k \in 0 .. z - 1 :
           k = LineLen(q) /\ Byte(q, k) = NUL /\ \A i \in 0 .. k - 1 : Byte(q, i) # NUL
    BY <1>2, LineEnds, TtyAssumption DEF Byte, Pos, SZ
  <2>2. ~(d < k)
    BY <1>5, <1>6, <2>1, SMTT(60)
  <2>3. ASSUME k < d PROVE FALSE
    <3>1. k + 1 \in 1 .. d /\ k + 1 - 1 = k
      BY <2>3
    <3>2. x[k + 1] \in Char
      BY <1>4, <1>5, <3>1, ElementOfSeq
    <3>. QED  BY <1>5, <2>1, <3>1, <3>2 DEF Char
  <2>. QED  BY <2>1, <2>2, <2>3
<1>8. PICK f \in 0 .. z - 1 : f = q.front
  BY <1>2, Positions
<1>9. v <= e /\ e < z
  <2>1. v <= e /\ e + l = s /\ s < z
    BY <1>2, <1>5
  <2>. QED  BY <2>1
<1>10. Line(q, Count) = Cut(x)
  <2>1. DOMAIN x = 1 .. d
    BY <1>4, <1>5, LenProperties
  <2>2. ASSUME NEW i \in 1 .. d PROVE q.buf[(q.front + i - 1) % TTY_COOK_BUF_SZ] = x[i]
    <3>1. f + i - 1 = f + (i - 1)
      OBVIOUS
    <3>. QED  BY <1>5, <1>8, <3>1 DEF Byte, Pos, SZ
  <2>3. Line(q, Count) =
          [i \in {j \in 1 .. d : j <= Count} |-> q.buf[(q.front + i - 1) % TTY_COOK_BUF_SZ]]
    BY <1>7 DEF Line
  <2>. QED  BY <2>1, <2>2, <2>3 DEF Cut
<1>11. PICK u : u = SkipLine(q)
  OBVIOUS
<1>12. u \in Queue
  BY <1>11, LineSkipped, TtyAssumption
<1>13. u.buf = q.buf /\ u.front = Pos(q, v) /\ u.rear = q.rear
  <2>1. f + d + 1 = f + v
    BY <1>5
  <2>2. u = [q EXCEPT !.front = (f + v) % z]
    BY <1>2, <1>7, <1>11, <1>8, <2>1 DEF SkipLine, SZ
  <2>3. u = [q EXCEPT !.front = Pos(q, v)]
    BY <1>2, <1>8, <2>2 DEF Pos
  <2>. QED  BY <2>3, Fields
<1>14. ASSUME NEW k \in Nat, v + k < z
       PROVE  Pos(u, k) = Pos(q, v + k) /\ Byte(u, k) = Byte(q, v + k)
  <2>1. (((f + v) % z) + k) % z = (f + (v + k)) % z
    BY <1>14, TurnOn, ZenonT(60)
  <2>2. Pos(u, k) = Pos(q, v + k)
    BY <1>2, <1>8, <1>13, <2>1 DEF Pos
  <2>. QED  BY <1>13, <2>2 DEF Byte
<1>15. Byte(u, z - 1) = NUL
  <2>1. 0 \in 0 .. SZ - 1 /\ v \in 0 .. SZ - 1 /\ v # 0
    BY <1>2, <1>6
  <2>2. (Pos(u, 0) - 1) % SZ = Pos(u, SZ - 1) /\ Pos(u, 0) = u.front
    BY <1>12, <2>1, Positions
  <2>3. (Pos(q, v) - 1) % SZ = Pos(q, v - 1)
    BY <2>1, Positions
  <2>4. Pos(u, z - 1) = Pos(q, v - 1)
    BY <1>2, <1>13, <2>2, <2>3
  <2>. QED  BY <1>5, <1>13, <2>4 DEF Byte
<1>16. \A k \in n + 1 .. m : off[k] >= v
  <2>1. ASSUME NEW k \in n + 1 .. m PROVE off[k] >= off[k - 1]
    <3>1. /\ off[k - 1] \in Nat /\ Len(done[k]) \in Nat /\ off[k] \in Nat
          /\ off[k] = off[k - 1] + Len(done[k]) + 1
      BY <1>1 DEF Layout
    <3>. QED  BY <3>1, SMTT(60)
  <2>2. off \in [n .. m -> Nat]
    BY <1>2
  <2>. QED  BY <1>5, <2>1, <2>2, Rising
<1>17. PICK new : new = [k \in n + 1 .. m |-> off[k] - v]
  OBVIOUS
<1>18. new \in [n + 1 .. m -> Nat] /\ new[n + 1] = 0 /\ new[m] = e - v /\ e - v \in Nat
  <2>1. \A k \in n + 1 .. m : off[k] \in Nat /\ off[k] >= v
    BY <1>2, <1>16, SMTT(60)
  <2>2. \A k \in n + 1 .. m : off[k] - v \in Nat
    BY <2>1
  <2>3. m \in n + 1 .. m /\ e - v \in Nat /\ v - v = 0
    BY <1>2, <1>9, SMTT(60)
  <2>4. off[m] = e /\ off[n + 1] = v
    BY <1>2, <1>5
  <2>. QED  BY <1>3, <1>17, <2>2, <2>3, <2>4
<1>19. ASSUME NEW k \in n + 1 + 1 .. m
       PROVE  /\ new[k] = new[k - 1] + Len(done[k]) + 1 /\ new[k] <= new[m]
              /\ Byte(u, new[k] - 1) = NUL
              /\ \A j \in 1 .. Len(done[k]) : Byte(u, new[k - 1] + j - 1) = done[k][j]
  <2>1. k \in n + 1 .. m /\ k - 1 \in n + 1 .. m
    OBVIOUS
  <2>2. PICK o \in Nat, c \in Nat, w \in Nat :
           /\ off[k - 1] = o /\ Len(done[k]) = c /\ off[k] = w
           /\ w = o + c + 1 /\ w <= e
           /\ Byte(q, w - 1) = NUL
           /\ \A j \in 1 .. c : Byte(q, o + j - 1) = done[k][j]
    <3>1. /\ off[k - 1] \in Nat /\ Len(done[k]) \in Nat /\ off[k] \in Nat
          /\ off[k] = off[k - 1] + Len(done[k]) + 1 /\ off[k] <= e
          /\ Byte(q, off[k] - 1) = NUL
          /\ \A j \in 1 .. Len(done[k]) : Byte(q, off[k - 1] + j - 1) = done[k][j]
      BY <1>1, <2>1 DEF Layout
    <3>. QED  BY <3>1
  <2>3. o >= v /\ o + c + 1 <= e /\ e < z /\ w = o + c + 1
    <3>1. off[k - 1] >= v /\ off[k - 1] = o
      BY <1>16, <2>1, <2>2
    <3>2. w = o + c + 1 /\ w <= e
      BY <2>2
    <3>. QED  BY <1>9, <3>1, <3>2
  <2>4. new[k] = w - v /\ new[k - 1] = o - v
    BY <1>17, <2>1, <2>2
  <2>5. w - v = o - v + c + 1 /\ w - v <= e - v
    BY <2>3
  <2>6. Byte(u, w - v - 1) = NUL
    <3>1. w - v - 1 \in Nat /\ v + (w - v - 1) = w - 1 /\ w - 1 < z
      BY <2>3
    <3>. QED  BY <1>14, <2>2, <3>1
  <2>7. ASSUME NEW j \in 1 .. c PROVE Byte(u, o - v + j - 1) = done[k][j]
    <3>1. o - v + j - 1 \in Nat /\ v + (o - v + j - 1) = o + j - 1 /\ o + j - 1 < z
      BY <2>3
    <3>. QED  BY <1>14, <2>2, <3>1
  <2>. QED  BY <1>18, <2>2, <2>4, <2>5, <2>6, <2>7
<1>20. ASSUME NEW j \in 1 .. l PROVE Byte(u, e - v + j - 1) = rest[j]
  <2>1. v <= e /\ e + l < z
    BY <1>2, <1>5
  <2>2. e - v + j - 1 \in Nat /\ v + (e - v + j - 1) = e + j - 1 /\ e + j - 1 < z
    BY <2>1
  <2>. QED  BY <1>2, <1>14, <2>2
<1>21. /\ e - v + l = s - v /\ s - v < z /\ u.rear = Pos(u, s - v) /\ Byte(u, s - v) = NUL
  <2>1. v <= e /\ e + l < z /\ s = e + l
    BY <1>2, <1>5
  <2>2. s - v \in Nat /\ v + (s - v) = s /\ s < z /\ e - v + l = s - v /\ s - v < z
    BY <2>1
  <2>. QED  BY <1>2, <1>13, <1>14, <2>2, ZenonT(60)
<1>22. Stored(u, n + 1, done, rest, new)
  BY <1>2, <1>15, <1>18, <1>19, <1>20, <1>21 DEF Stored
<1>. QED  BY <1>4, <1>10, <1>11, <1>12, <1>22

\* One character more, as Edited takes it.
EditStep(e, x) ==
    CASE x = NL -> [done |-> Append(e.done, Append(e.rest, NL)), rest |-> <<>>]
      [] x = BS -> [e EXCEPT !.rest = SubSeq(@, 1, Len(@) - 1)]
      [] OTHER  -> [e EXCEPT !.rest = Append(@, x)]

Edit == [done : Seq(Seq(Char)), rest : Seq(Char)]
NoEdit == [done |-> <<>>, rest |-> <<>>]

LEMMA Shorter ==
    ASSUME NEW r \in Seq(Char)
    PROVE  /\ SubSeq(r, 1, Len(r) - 1) \in Seq(Char)
           /\ r = <<>> => SubSeq(r, 1, Len(r) - 1) = <<>>
<1>1. PICK l \in Nat : l = Len(r)
  BY LenProperties
<1>2. \A i \in 1 .. l - 1 : r[i] \in Char
  BY <1>1, ElementOfSeq
<1>3. 1 \in Int /\ l - 1 \in Int
  OBVIOUS
<1>4. SubSeq(r, 1, l - 1) \in Seq(Char)
  BY <1>2, <1>3, SubSeqProperties
<1>5. ASSUME r = <<>> PROVE SubSeq(r, 1, l - 1) = <<>>
  <2>1. l = 0
    BY <1>1, <1>5, EmptySeq
  <2>2. l - 1 \in Int /\ l - 1 < 1
    BY <2>1
  <2>. QED  BY <1>3, <2>2, SubSeqEmpty
<1>. QED  BY <1>1, <1>4, <1>5

LEMMA EditTyped ==
    ASSUME NEW e \in Edit, NEW x \in Char
    PROVE  /\ EditStep(e, x) \in Edit
           /\ x = NL => /\ EditStep(e, x).done = Append(e.done, Append(e.rest, x))
                        /\ EditStep(e, x).rest = <<>>
           /\ x # NL => EditStep(e, x).done = e.done
           /\ x = BS => EditStep(e, x).rest = SubSeq(e.rest, 1, Len(e.rest) - 1)
           /\ x \notin {NL, BS} => EditStep(e, x).rest = Append(e.rest, x)
<1>1. /\ e.done \in Seq(Seq(Char)) /\ e.rest \in Seq(Char)
      /\ e = [done |-> e.done, rest |-> e.rest]
  BY DEF Edit
<1>2. NL # BS
  BY DEF NL, BS
<1>3. CASE x = NL
  <2>1. EditStep(e, x) = [done |-> Append(e.done, Append(e.rest, NL)), rest |-> <<>>]
    BY <1>2, <1>3 DEF EditStep
  <2>2. Append(e.rest, NL) \in Seq(Char)
    BY <1>1, <1>3, AppendProperties
  <2>3. Append(e.done, Append(e.rest, NL)) \in Seq(Seq(Char)) /\ <<>> \in Seq(Char)
    BY <1>1, <2>2, AppendProperties, EmptySeq
  <2>. QED  BY <1>2, <1>3, <2>1, <2>3 DEF Edit
<1>4. CASE x = BS
  <2>1. EditStep(e, x) = [e EXCEPT !.rest = SubSeq(e.rest, 1, Len(e.rest) - 1)]
    BY <1>1, <1>2, <1>4 DEF EditStep
  <2>2. EditStep(e, x) = [done |-> e.done, rest |-> SubSeq(e.rest, 1, Len(e.rest) - 1)]
    BY <1>1, <2>1
  <2>. QED  BY <1>1, <1>2, <1>4, <2>2, Shorter DEF Edit
<1>5. CASE x \notin {NL, BS}
  <2>1. EditStep(e, x) = [e EXCEPT !.rest = Append(e.rest, x)]
    BY <1>1, <1>5 DEF EditStep
  <2>2. EditStep(e, x) = [done |-> e.done, rest |-> Append(e.rest, x)]
    BY <1>1, <2>1
  <2>. QED  BY <1>1, <1>5, <2>2, AppendProperties DEF Edit
<1>. QED  BY <1>3, <1>4, <1>5

\* f edits s character by character.
Edits(f, s) ==
    /\ f \in [0 .. Len(s) -> Edit] /\ f[0] = NoEdit
    /\ \A k \in 1 .. Len(s) : f[k] = EditStep(f[k - 1], s[k])

LEMMA NoEdits == NoEdit \in Edit
BY EmptySeq DEF NoEdit, Edit

LEMMA EditedBy ==
    ASSUME NEW s \in Seq(Char)
    PROVE  \E f : Edits(f, s) /\ Edited(s) = f[Len(s)]
<1>1. PICK n \in Nat : n = Len(s) /\ \A k \in 1 .. n : s[k] \in Char
  BY ElementOfSeq, LenProperties
<1>. DEFINE F == [k \in 1 .. n |-> [e \in Edit |-> EditStep(e, s[k])]]
            Goes(f) == f = [k \in 0 .. n |->
                  IF k = 0 THEN NoEdit
                  ELSE LET e == f[k - 1]
                       IN  CASE s[k] = NL -> [done |-> Append(e.done, Append(e.rest, NL)),
                                              rest |-> <<>>]
                             [] s[k] = BS -> [e EXCEPT !.rest = SubSeq(@, 1, Len(@) - 1)]
                             [] OTHER     -> [e EXCEPT !.rest = Append(@, s[k])]]
            g == CHOOSE f : Goes(f)
<1>2. Edited(s) = g[n]
  BY <1>1 DEF Edited, NoEdit
<1>3. \A f : Goes(f) <=> f = [k \in 0 .. n |-> IF k = 0 THEN NoEdit ELSE EditStep(f[k - 1], s[k])]
  BY DEF EditStep
<1>. HIDE DEF Goes
<1>4. F \in [1 .. n -> [Edit -> Edit]]
  BY <1>1, EditTyped
<1>5. PICK f : Recursive(f, n, Edit, NoEdit, F)
  <2>. HIDE DEF F
  <2>. QED  BY <1>4, NoEdits, Recursion
<1>6. /\ f \in [0 .. n -> Edit] /\ f[0] = NoEdit
      /\ \A k \in 1 .. n : f[k] = EditStep(f[k - 1], s[k])
  <2>1. \A k \in 1 .. n : f[k - 1] \in Edit
    BY <1>1, <1>5 DEF Recursive
  <2>. QED  BY <1>5, <2>1 DEF Recursive
<1>7. Goes(f)
  BY <1>3, <1>6
<1>8. Goes(g)
  BY <1>7
<1>. HIDE DEF g
<1>9. g = [k \in 0 .. n |-> IF k = 0 THEN NoEdit ELSE EditStep(g[k - 1], s[k])]
  BY <1>3, <1>8
<1>10. \A k \in 0 .. n : g[k] \in Edit
  <2>. DEFINE P == {k \in 0 .. n : g[k] \in Edit}
  <2>1. 0 \in P
    BY <1>9, NoEdits
  <2>2. ASSUME NEW k \in 1 .. n, k - 1 \in P PROVE k \in P
    <3>1. g[k] = EditStep(g[k - 1], s[k]) /\ g[k - 1] \in Edit /\ s[k] \in Char
      BY <1>1, <1>9, <2>2
    <3>. QED  BY <3>1, EditTyped
  <2>. HIDE DEF P
  <2>3. \A k \in 0 .. n : k \in P
    BY <2>1, <2>2, UpTo
  <2>. QED  BY <2>3 DEF P
<1>11. g[0] = NoEdit /\ \A k \in 1 .. n : g[k] = EditStep(g[k - 1], s[k])
  BY <1>9
<1>12. g \in [0 .. n -> Edit]
  BY <1>9, <1>10
<1>13. Edits(g, s)
  BY <1>1, <1>11, <1>12 DEF Edits
<1>. QED  BY <1>1, <1>2, <1>13

(* Edited goes character by character.                                     *)
LEMMA EditedOn ==
    ASSUME NEW s \in Seq(Char), NEW x \in Char
    PROVE  /\ Edited(s) \in Edit
           /\ Edited(Append(s, x)) = EditStep(Edited(s), x)
           /\ Append(s, x) \in Seq(Char)
<1>1. PICK n \in Nat : n = Len(s)
  BY LenProperties
<1>2. PICK u \in Seq(Char) : /\ u = Append(s, x) /\ Len(u) = n + 1 /\ u[n + 1] = x
                             /\ \A k \in 1 .. n : u[k] = s[k]
  <2>1. PICK u : u = Append(s, x)
    OBVIOUS
  <2>2. /\ u \in Seq(Char) /\ Len(u) = Len(s) + 1 /\ u[Len(s) + 1] = x
        /\ \A k \in 1 .. Len(s) : u[k] = s[k]
    BY <2>1, AppendProperties
  <2>. QED  BY <1>1, <2>1, <2>2
<1>3. PICK f : Edits(f, s) /\ Edited(s) = f[n]
  BY <1>1, EditedBy
<1>4. PICK g : Edits(g, u) /\ Edited(u) = g[n + 1]
  BY <1>2, EditedBy
<1>5. \A k \in 0 .. n : g[k] = f[k]
  <2>. DEFINE P == {k \in 0 .. n : g[k] = f[k]}
  <2>1. 0 \in P
    BY <1>3, <1>4 DEF Edits
  <2>2. ASSUME NEW k \in 1 .. n, k - 1 \in P PROVE k \in P
    <3>1. k \in 1 .. n + 1
      OBVIOUS
    <3>2. g[k] = EditStep(g[k - 1], u[k]) /\ f[k] = EditStep(f[k - 1], s[k])
      BY <1>1, <1>2, <1>3, <1>4, <3>1 DEF Edits
    <3>3. u[k] = s[k] /\ g[k - 1] = f[k - 1]
      BY <1>2, <2>2
    <3>. QED  BY <3>2, <3>3
  <2>. HIDE DEF P
  <2>3. \A k \in 0 .. n : k \in P
    BY <2>1, <2>2, UpTo
  <2>. QED  BY <2>3 DEF P
<1>6. f[n] \in Edit
  BY <1>1, <1>3 DEF Edits
<1>7. g[n + 1] = EditStep(g[n], u[n + 1])
  <2>1. n + 1 \in 1 .. n + 1 /\ n + 1 - 1 = n
    OBVIOUS
  <2>. QED  BY <1>2, <1>4, <2>1 DEF Edits
<1>8. g[n] = f[n]
  BY <1>5
<1>. QED  BY <1>2, <1>3, <1>4, <1>6, <1>7, <1>8

LEMMA EditedNone == Edited(<<>>) = NoEdit
<1>1. <<>> \in Seq(Char) /\ Len(<<>>) = 0
  BY EmptySeq
<1>2. PICK f : Edits(f, <<>>) /\ Edited(<<>>) = f[0]
  BY <1>1, EditedBy
<1>. QED  BY <1>2 DEF Edits

-----------------------------------------------------------------------------
(* Every event of the ring has its token, and no other token there is.     *)

\* No panic has stopped the machine.
Alive == panicked = ""

Pending == IF itask \in {"signal_drain", "signal_wait"} THEN 1 ELSE 0
Taken == IF TtyTask \in taking THEN 1 ELSE 0

Balanced == (in.rear - in.front) % NEVENTS = in.event_sem + Pending + Taken

RingOK ==
    /\ panicked \in {"", "input queue full", "tty queue full"}
    /\ Alive => Balanced

(* Going round the ring with one index or the other.                       *)
LEMMA RingTurns ==
    ASSUME NEW n \in Nat \ {0}, NEW f \in 0 .. n - 1, NEW r \in 0 .. n - 1
    PROVE  /\ (r - f) % n = IF f <= r THEN r - f ELSE r - f + n
           /\ (r + 1) % n # f => (((r + 1) % n) - f) % n = ((r - f) % n) + 1
           /\ (r - f) % n # 0 => r # f /\ (r - ((f + 1) % n)) % n = ((r - f) % n) - 1
<1>1. ASSUME NEW g \in 0 .. n - 1, NEW t \in 0 .. n - 1
      PROVE  (t - g) % n = IF g <= t THEN t - g ELSE t - g + n
  <2>1. CASE g <= t
    <3>1. PICK d \in 0 .. n - 1 : d = t - g
      BY <2>1
    <3>. QED  BY <2>1, <3>1
  <2>2. CASE ~(g <= t)
    <3>1. PICK d \in 0 .. n - 1 : d = t - g + n
      BY <2>2
    <3>2. t - g = d - n /\ (d - n) % n = d
      BY <3>1
    <3>. QED  BY <2>2, <3>1, <3>2
  <2>. QED  BY <2>1, <2>2
<1>2. (r - f) % n = IF f <= r THEN r - f ELSE r - f + n
  BY <1>1
<1>3. PICK s \in 0 .. n - 1 : s = (r + 1) % n /\ s = IF r + 1 = n THEN 0 ELSE r + 1
  BY Around
<1>4. PICK g \in 0 .. n - 1 : g = (f + 1) % n /\ g = IF f + 1 = n THEN 0 ELSE f + 1
  BY Around
<1>5. (s - f) % n = IF f <= s THEN s - f ELSE s - f + n
  BY <1>1
<1>6. (r - g) % n = IF g <= r THEN r - g ELSE r - g + n
  BY <1>1
<1>7. s # f => (s - f) % n = ((r - f) % n) + 1
  BY <1>2, <1>3, <1>5
<1>8. (r - f) % n # 0 => r # f /\ (r - g) % n = ((r - f) % n) - 1
  BY <1>2, <1>4, <1>6
<1>. QED  BY <1>2, <1>3, <1>4, <1>7, <1>8

\* The counts of RingOK, as numbers.
Counts(k, p, t) == k = in.event_sem /\ p = Pending /\ t = Taken

LEMMA Counted ==
    ASSUME in \in Device
    PROVE  \E k, p, t \in Nat : Counts(k, p, t)
<1>1. in.event_sem \in Nat /\ Pending \in {0, 1} /\ Taken \in {0, 1}
  BY DEF Device, Pending, Taken
<1>. QED  BY <1>1 DEF Counts

LEMMA PushedOne ==
    ASSUME in \in Device, NEW ev \in Event, NEW next, push_event(ev, next)
    PROVE  /\ panicked' \in {"", "input queue full"}
           /\ panicked' = "" =>
                (in'.rear - in'.front) % NEVENTS = ((in.rear - in.front) % NEVENTS) + 1
           /\ in'.event_sem = in.event_sem
<1>1. PICK n \in Nat \ {0} : n = NEVENTS
  BY InputAssumption DEF InputAssumption
<1>2. PICK f \in 0 .. n - 1, r \in 0 .. n - 1, s \in 0 .. n - 1 :
         f = in.front /\ r = in.rear /\ s = (r + 1) % n
  BY <1>1, RingSlots, InputAssumption
<1>3. PICK es : es = [in.events EXCEPT ![in.rear] = ev]
  OBVIOUS
<1>4. in' = [in EXCEPT !.events = es, !.rear = s]
  BY <1>1, <1>2, <1>3 DEF push_event
<1>5. in'.rear = s /\ in'.front = f /\ in'.event_sem = in.event_sem
  BY <1>2, <1>4 DEF Device
<1>6. panicked' = IF s = f THEN "input queue full" ELSE ""
  BY <1>1, <1>2 DEF push_event
<1>7. s # f => (s - f) % n = ((r - f) % n) + 1
  BY <1>2, RingTurns
<1>. QED  BY <1>1, <1>2, <1>5, <1>6, <1>7

LEMMA KeyRing ==
    ASSUME in \in Device, NEW s, input_keydown(s), itask = "drain", Alive, RingOK,
           taking' = taking
    PROVE  RingOK'
<1>1. PICK k \in Nat, t \in Nat : k = in.event_sem /\ t = Taken /\ Pending = 0 /\ Taken' = t
  <2>1. Pending = 0 /\ Taken' = Taken
    BY DEF Pending, Taken
  <2>. QED  BY <2>1, Counted DEF Counts
<1>2. PICK w \in Nat : w = (in.rear - in.front) % NEVENTS /\ w = k + t
  <2>1. (in.rear - in.front) % NEVENTS = k + 0 + t /\ k + 0 + t \in Nat /\ k + 0 + t = k + t
    <3>1. Balanced
      BY DEF RingOK
    <3>. QED  BY <1>1, <3>1 DEF Balanced
  <2>. QED  BY <2>1
<1>3. CASE UNCHANGED <<itask, panicked, in.rear, in.front, in.event_sem>>
  <2>1. Pending' = 0
    BY <1>3 DEF Pending
  <2>. QED  BY <1>1, <1>2, <1>3, <2>1 DEF RingOK, Alive, Balanced
<1>4. ASSUME NEW ev \in Event, push_event(ev, "signal_drain") PROVE RingOK'
  <2>1. Pending' = 1
    BY <1>4 DEF push_event, Pending
  <2>2. /\ panicked' \in {"", "input queue full"} /\ in'.event_sem = in.event_sem
        /\ panicked' = "" => (in'.rear - in'.front) % NEVENTS = w + 1
    BY <1>2, <1>4, PushedOne
  <2>3. w + 1 = k + 1 + t
    BY <1>2
  <2>. QED  BY <1>1, <2>1, <2>2, <2>3 DEF RingOK, Alive, Balanced
<1>5. CASE in' = [in EXCEPT !.down = IF s.keydown THEN @ \cup {s.code} ELSE @ \ {s.code}]
           /\ UNCHANGED <<itask, panicked>>
  BY <1>3, <1>5 DEF Device
<1>6. CASE in' = [in EXCEPT !.capslock = (@ # s.keydown)] /\ UNCHANGED <<itask, panicked>>
  BY <1>3, <1>6 DEF Device
<1>7. CASE /\ s.code \in DOMAIN keymap /\ s.keydown
           /\ push_event(KeyEvent(s.code, Held(Ctrl), Held(Alt), Held(Shift),
                                  in.capslock), "signal_drain")
  <2>1. Held(Ctrl) \in BOOLEAN /\ Held(Alt) \in BOOLEAN
    BY DEF Held
  <2>2. KeyEvent(s.code, Held(Ctrl), Held(Alt), Held(Shift), in.capslock) \in Event
    BY <1>7, <2>1, KeyEvents
  <2>. QED  BY <1>4, <1>7, <2>2
<1>8. CASE UNCHANGED <<in, itask, panicked>>
  BY <1>3, <1>8
<1>. QED  BY <1>5, <1>6, <1>7, <1>8 DEF input_keydown

LEMMA InputRing ==
    ASSUME InputOK, RingOK, Alive, dev_input_task
    PROVE  RingOK'
<1>1. PICK k \in Nat, t \in Nat : /\ k = in.event_sem /\ t = Taken /\ Taken' = t
                                  /\ in \in Device /\ taking' = taking
  <2>1. in \in Device /\ taking' = taking /\ Taken' = Taken
    BY DEF InputOK, Taken, dev_input_task, Drain, Tick, PushSignal, WaitIrq
  <2>. QED  BY <2>1, Counted DEF Counts
<1>2. CASE Drain
  <2>1. itask = "drain"
    BY <1>2 DEF Drain
  <2>2. CASE itask' = "timer" /\ UNCHANGED <<in, panicked>>
    <3>1. Pending' = Pending
      BY <2>1, <2>2 DEF Pending
    <3>. QED  BY <1>1, <2>2, <3>1 DEF RingOK, Alive, Balanced
  <2>3. CASE input_keydown(input_keybrd(Head(kbd)))
    BY <1>1, <2>1, <2>3, KeyRing
  <2>. QED  BY <1>2, <2>2, <2>3 DEF Drain
<1>3. CASE Tick
  <2>1. Pending = 0
    BY <1>3 DEF Tick, Pending
  <2>2. CASE itask' = "wait" /\ UNCHANGED <<in, panicked>>
    <3>1. Pending' = Pending
      BY <2>1, <2>2 DEF Pending
    <3>. QED  BY <1>1, <2>2, <3>1 DEF RingOK, Alive, Balanced
  <2>3. CASE push_event(NoEvent, "signal_wait")
    <3>1. Pending' = 1 /\ NoEvent \in Event
      BY <2>3 DEF push_event, Pending, Event
    <3>2. PICK w \in Nat : w = (in.rear - in.front) % NEVENTS /\ w = k + t
      <4>1. (in.rear - in.front) % NEVENTS = k + 0 + t /\ k + 0 + t \in Nat /\ k + 0 + t = k + t
        <5>1. Balanced
          BY DEF RingOK
        <5>. QED  BY <1>1, <2>1, <5>1 DEF Balanced
      <4>. QED  BY <4>1
    <3>3. /\ panicked' \in {"", "input queue full"} /\ in'.event_sem = in.event_sem
          /\ panicked' = "" => (in'.rear - in'.front) % NEVENTS = w + 1
      BY <1>1, <2>3, <3>1, <3>2, PushedOne
    <3>4. w + 1 = k + 1 + t
      BY <3>2
    <3>. QED  BY <1>1, <3>1, <3>3, <3>4 DEF RingOK, Alive, Balanced
  <2>. QED  BY <1>3, <2>2, <2>3 DEF Tick
<1>4. CASE PushSignal
  <2>1. Pending = 1 /\ Pending' = 0 /\ panicked' = ""
    BY <1>4 DEF PushSignal, Pending, Alive
  <2>2. in' = [in EXCEPT !.event_sem = k + 1]
    BY <1>1, <1>4 DEF PushSignal
  <2>3. in'.rear = in.rear /\ in'.front = in.front /\ in'.event_sem = k + 1
    BY <1>1, <2>2 DEF Device
  <2>4. k + 1 + 0 + t = k + 1 + t
    OBVIOUS
  <2>. QED  BY <1>1, <2>1, <2>3, <2>4 DEF RingOK, Alive, Balanced
<1>5. CASE WaitIrq
  <2>1. Pending' = Pending /\ UNCHANGED <<in, panicked>>
    BY <1>5 DEF WaitIrq, Pending
  <2>. QED  BY <1>1, <2>1 DEF RingOK, Alive, Balanced
<1>. QED  BY <1>2, <1>3, <1>4, <1>5 DEF dev_input_task

LEMMA PopRing ==
    ASSUME InputOK, RingOK, Alive, PopWait(TtyTask) \/ PopTake(TtyTask)
    PROVE  RingOK'
<1>1. PICK m \in Nat, p \in Nat : /\ m = in.event_sem /\ p = Pending /\ Pending' = p
                                  /\ in \in Device
  <2>1. in \in Device /\ Pending' = Pending
    BY DEF InputOK, Pending, PopWait, PopTake
  <2>. QED  BY <2>1, Counted DEF Counts
<1>2. CASE PopWait(TtyTask)
  <2>1. Taken = 0 /\ Taken' = 1 /\ panicked' = ""
    BY <1>2 DEF PopWait, Taken, Alive
  <2>2. PICK k \in Nat : m = k + 1 /\ k = m - 1
    <3>1. m > 0
      BY <1>1, <1>2 DEF PopWait
    <3>. QED  BY <3>1
  <2>3. in' = [in EXCEPT !.event_sem = k]
    BY <1>1, <1>2, <2>2 DEF PopWait
  <2>4. in'.rear = in.rear /\ in'.front = in.front /\ in'.event_sem = k
    BY <1>1, <2>3 DEF Device
  <2>5. m + p + 0 = k + p + 1
    BY <2>2
  <2>. QED  BY <1>1, <2>1, <2>2, <2>4, <2>5 DEF RingOK, Alive, Balanced
<1>3. CASE PopTake(TtyTask)
  <2>1. Taken = 1 /\ Taken' = 0
    BY <1>3 DEF PopTake, Taken
  <2>2. PICK n \in Nat \ {0} : n = NEVENTS
    BY InputAssumption DEF InputAssumption
  <2>3. PICK f \in 0 .. n - 1, r \in 0 .. n - 1, g \in 0 .. n - 1 :
           f = in.front /\ r = in.rear /\ g = (f + 1) % n
    BY <1>1, <2>2, RingSlots, InputAssumption
  <2>4. in' = [in EXCEPT !.front = g]
    BY <1>3, <2>2, <2>3 DEF PopTake
  <2>5. in'.rear = r /\ in'.front = g /\ in'.event_sem = m
    BY <1>1, <2>3, <2>4 DEF Device
  <2>6. PICK k \in Nat : k = m + p
    OBVIOUS
  <2>7. (r - f) % n = k + 1
    BY <1>1, <2>1, <2>2, <2>3, <2>6 DEF RingOK, Alive, Balanced
  <2>8. r # f /\ (r - g) % n = ((r - f) % n) - 1
    <3>1. (r - f) % n # 0
      BY <2>7
    <3>2. (r - f) % n # 0 => r # f /\ (r - ((f + 1) % n)) % n = ((r - f) % n) - 1
      BY RingTurns
    <3>3. g = (f + 1) % n
      BY <2>3
    <3>4. r # f /\ (r - ((f + 1) % n)) % n = ((r - f) % n) - 1
      BY <3>1, <3>2
    <3>. QED  BY <3>3, <3>4
  <2>9. panicked' = ""
    BY <1>3, <2>3, <2>8 DEF PopTake, is_empty
  <2>10. (r - g) % n = k /\ k = k + 0
    BY <2>7, <2>8
  <2>. QED  BY <1>1, <2>1, <2>2, <2>5, <2>6, <2>9, <2>10 DEF RingOK, Alive, Balanced
<1>. QED  BY <1>2, <1>3

-----------------------------------------------------------------------------
(* The lines.                                                              *)

Typed == Edited(cooked[1])
Got == {Cut(l) : l \in Seq(Char)}

\* What the readers have had, and what the queue still holds for them.
LinesOK ==
    /\ cooked \in [Tty -> Seq(Char)]
    /\ IsFiniteSet(reading) /\ lines \in Seq(Got)
    /\ Len(lines) + tty[1].cooked + Cardinality(reading) = Len(Typed.done)
    /\ \A i \in 1 .. Len(lines) : lines[i] = Cut(Typed.done[i])
    /\ \E off : Stored(tty[1].q, Len(lines), Typed.done, Typed.rest, off)

Tally(a, b, c, m) ==
    /\ a = Len(lines) /\ b = tty[1].cooked /\ c = Cardinality(reading)
    /\ m = Len(Typed.done) /\ a + b + c = m

LEMMA Tallied ==
    ASSUME TtysOK, LinesOK
    PROVE  /\ \E a, b, c, m \in Nat : Tally(a, b, c, m)
           /\ Typed \in Edit /\ Typed.done \in Seq(Seq(Char)) /\ Typed.rest \in Seq(Char)
           /\ cooked[1] \in Seq(Char) /\ 1 \in Tty
           /\ tty[1] \in Terminal /\ tty[1].q \in Queue
<1>1. 1 \in Tty /\ cooked[1] \in Seq(Char)
  BY ConsoleAssumption, Tasks DEF LinesOK
<1>2. Typed \in Edit
  <2>1. NL \in Char
    BY DEF NL, NUL, Char
  <2>. QED  BY <1>1, <2>1, EditedOn DEF Typed
<1>3. Typed.done \in Seq(Seq(Char)) /\ Typed.rest \in Seq(Char)
  BY <1>2 DEF Edit
<1>4. tty[1] \in Terminal /\ tty[1].q \in Queue /\ tty[1].cooked \in Nat
  BY <1>1, TtyFields DEF TtysOK
<1>5. Len(lines) \in Nat /\ Cardinality(reading) \in Nat /\ Len(Typed.done) \in Nat
  BY <1>3, LenProperties, FS_CardinalityType DEF LinesOK
<1>6. \E a, b, c, m \in Nat : Tally(a, b, c, m)
  BY <1>4, <1>5 DEF LinesOK, Tally
<1>. QED  BY <1>1, <1>2, <1>3, <1>4, <1>6

\* A step leaves what the readers and the line queue of terminal 1 share.
SameQueue ==
    /\ tty'[1].q = tty[1].q /\ tty'[1].cooked = tty[1].cooked
    /\ UNCHANGED <<reading, lines>>

LEMMA LinesKept ==
    ASSUME LinesOK, SameQueue, cooked' \in [Tty -> Seq(Char)], cooked'[1] = cooked[1]
    PROVE  LinesOK'
<1>1. Typed' = Typed
  BY DEF Typed
<1>. QED  BY <1>1 DEF LinesOK, SameQueue

LEMMA WriterKeeps ==
    ASSUME TypeOK, NEW p \in Writer, WriteStep(p)
    PROVE  tty'[1].q = tty[1].q /\ tty'[1].cooked = tty[1].cooked
<1>1. /\ tty \in [Tty -> Terminal] /\ 1 \in Tty
      /\ write[p].tty \in Tty /\ write[p].data \in Seq(Int)
  BY ConsoleAssumption, Tasks DEF TypeOK, TtysOK, WritesOK
<1>2. PICK i \in Tty : i = write[p].tty
  BY <1>1
<1>3. PICK T \in Terminal : T = tty[i] /\ T = Its(p)
  BY <1>1, <1>2 DEF Its
<1>4. ASSUME NEW U, tty' = [tty EXCEPT ![i] = U], U.q = T.q, U.cooked = T.cooked
      PROVE  tty'[1].q = tty[1].q /\ tty'[1].cooked = tty[1].cooked
  BY <1>1, <1>3, <1>4
<1>5. CASE WriteLock(p)
  <2>1. PICK U : U = [T EXCEPT !.lock = T.lock - 1]
    OBVIOUS
  <2>2. U.q = T.q /\ U.cooked = T.cooked
    BY <2>1, TtyFields
  <2>3. tty' = [tty EXCEPT ![i] = U]
    BY <1>2, <1>3, <1>5, <2>1 DEF WriteLock, Step
  <2>. QED  BY <1>4, <2>2, <2>3
<1>6. CASE WritePut(p)
  <2>1. PICK V \in Terminal : V = Puts(T, write[p].data) /\ V.q = T.q /\ V.cooked = T.cooked
    BY <1>1, PutAll, TtyAssumption DEF Marked
  <2>2. PICK U : U = [V EXCEPT !.lock = V.lock + 1]
    OBVIOUS
  <2>3. U.q = T.q /\ U.cooked = T.cooked
    BY <2>1, <2>2, TtyFields
  <2>4. tty' = [tty EXCEPT ![i] = U]
    BY <1>2, <1>3, <1>6, <2>1, <2>2 DEF WritePut, Step
  <2>. QED  BY <1>4, <2>3, <2>4
<1>7. CASE RenderScan(p)
  <2>1. PICK U : U = [T EXCEPT !.lock = T.lock - 1]
    OBVIOUS
  <2>2. U.q = T.q /\ U.cooked = T.cooked
    BY <2>1, TtyFields
  <2>3. tty' = [tty EXCEPT ![i] = U]
    BY <1>2, <1>3, <1>7, <2>1 DEF RenderScan
  <2>. QED  BY <1>4, <2>2, <2>3
<1>8. CASE RenderDraw(p)
  <2>1. tty' = [tty EXCEPT ![i] = T]
    BY <1>2, <1>3, <1>8 DEF RenderDraw, Step
  <2>. QED  BY <1>4, <2>1
<1>9. CASE RenderClear(p)
  <2>1. PICK X : X = [tty EXCEPT ![i].dirty = {}]
    OBVIOUS
  <2>2. PICK V : V = [T EXCEPT !.dirty = {}]
    OBVIOUS
  <2>3. V.q = T.q /\ V.cooked = T.cooked
    BY <2>2, TtyFields
  <2>4. V \in Terminal
    BY <2>2 DEF Terminal, TerminalAt
  <2>5. X = [tty EXCEPT ![i] = V]
    BY <1>1, <1>3, <2>1, <2>2
  <2>6. X \in [Tty -> Terminal] /\ X[i] = V /\ X[1] = IF i = 1 THEN V ELSE tty[1]
    BY <1>1, <2>4, <2>5
  <2>7. tty' = [X EXCEPT ![i].lock = @ + 1]
    BY <1>2, <1>9, <2>1 DEF RenderClear
  <2>8. PICK U : U = [V EXCEPT !.lock = V.lock + 1]
    OBVIOUS
  <2>9. U.q = V.q /\ U.cooked = V.cooked
    BY <2>4, <2>8, TtyFields
  <2>10. tty' = [X EXCEPT ![i] = U]
    BY <2>6, <2>7, <2>8
  <2>11. tty'[1] = IF i = 1 THEN U ELSE tty[1]
    BY <1>1, <2>6, <2>10
  <2>. QED  BY <1>3, <2>3, <2>9, <2>11
<1>. QED  BY <1>5, <1>6, <1>7, <1>8, <1>9 DEF WriteStep

(* A character is cooked for terminal 1.                                   *)
LEMMA CookedOne ==
    ASSUME TtysOK, LinesOK, ttask.tty = 1, NEW q \in Queue, NEW n \in {0, 1}, tty_cook(q, n),
           NEW x \in Char, x = ttask.ev.data, UNCHANGED <<reading, lines>>,
           NEW e, e = EditStep(Typed, x), Len(e.done) = Len(Typed.done) + n,
           \A i \in 1 .. Len(Typed.done) : e.done[i] = Typed.done[i],
           \E off : Stored(q, Len(lines), e.done, e.rest, off)
    PROVE  LinesOK'
<1>1. PICK a, b, c, m \in Nat : Tally(a, b, c, m)
  BY Tallied
<1>2. a = Len(lines) /\ b = tty[1].cooked /\ c = Cardinality(reading) /\ m = Len(Typed.done)
      /\ a + b + c = m
  BY <1>1 DEF Tally
<1>3. PICK T \in Terminal : T = tty[1]
  BY Tallied
<1>4. tty'[1].q = q /\ tty'[1].cooked = b + n
  <2>1. PICK V : V = [T EXCEPT !.q = q]
    OBVIOUS
  <2>2. V \in Terminal /\ V.q = q /\ V.cooked = T.cooked
    BY <2>1 DEF Terminal, TerminalAt
  <2>3. PICK U : U = [V EXCEPT !.cooked = V.cooked + n]
    OBVIOUS
  <2>4. U.q = q /\ U.cooked = b + n
    <3>1. V.cooked = b
      BY <1>2, <1>3, <2>2
    <3>. QED  BY <2>2, <2>3, <3>1, TtyFields
  <2>5. 1 \in Tty /\ tty \in [Tty -> Terminal]
    BY Tallied DEF TtysOK
  <2>6. PICK X : X = [tty EXCEPT ![1].q = q]
    OBVIOUS
  <2>7. X = [tty EXCEPT ![1] = V]
    BY <1>3, <2>1, <2>5, <2>6
  <2>8. X[1] = V /\ 1 \in DOMAIN X
    BY <2>5, <2>7
  <2>9. tty' = [X EXCEPT ![1].cooked = @ + n]
    BY <2>6 DEF tty_cook
  <2>10. tty'[1] = U
    BY <2>3, <2>8, <2>9
  <2>. QED  BY <2>4, <2>10
<1>5. cooked' = [cooked EXCEPT ![1] = Append(cooked[1], x)]
  BY DEF tty_cook
<1>6. /\ Append(cooked[1], x) \in Seq(Char)
      /\ Edited(Append(cooked[1], x)) = e
  BY Tallied, EditedOn DEF Typed
<1>7. cooked' \in [Tty -> Seq(Char)] /\ Typed' = e
  <2>1. cooked \in [Tty -> Seq(Char)] /\ 1 \in Tty
    BY Tallied DEF LinesOK
  <2>2. cooked' \in [Tty -> Seq(Char)] /\ cooked'[1] = Append(cooked[1], x)
    BY <1>5, <1>6, <2>1
  <2>. QED  BY <1>6, <2>2 DEF Typed
<1>8. a + (b + n) + c = m + n
  <2>1. a + b + c = m /\ n \in Int
    BY <1>2
  <2>. QED  BY <2>1, SMTT(60)
<1>9. IsFiniteSet(reading') /\ lines' \in Seq(Got) /\ reading' = reading /\ lines' = lines
  BY DEF LinesOK
<1>10. Len(lines') + tty'[1].cooked + Cardinality(reading') = Len(Typed'.done)
  BY <1>2, <1>4, <1>7, <1>8, <1>9
<1>11. ASSUME NEW i \in 1 .. Len(lines) PROVE lines[i] = Cut(e.done[i])
  <2>1. i \in 1 .. m
    BY <1>2
  <2>. QED  BY <1>2, <2>1 DEF LinesOK
<1>12. \E off : Stored(tty'[1].q, Len(lines'), Typed'.done, Typed'.rest, off)
  BY <1>4, <1>7, <1>9
<1>. QED  BY <1>7, <1>9, <1>10, <1>11, <1>12 DEF LinesOK

(* A character of terminal 2 leaves the lines alone.                       *)
LEMMA CookedOther ==
    ASSUME TtysOK, LinesOK, NEW t \in Tty, t = ttask.tty, t # 1, NEW q, NEW n, tty_cook(q, n),
           NEW x \in Char, x = ttask.ev.data, UNCHANGED <<reading, lines>>
    PROVE  LinesOK'
<1>1. 1 \in Tty /\ tty \in [Tty -> Terminal] /\ cooked \in [Tty -> Seq(Char)]
  BY Tallied DEF TtysOK, LinesOK
<1>2. PICK X : X = [tty EXCEPT ![t].q = q]
  OBVIOUS
<1>3. X[1] = tty[1] /\ 1 \in DOMAIN X
  BY <1>1, <1>2
<1>4. tty' = [X EXCEPT ![t].cooked = @ + n]
  BY <1>2 DEF tty_cook
<1>5. tty'[1] = tty[1]
  BY <1>3, <1>4
<1>6. cooked' = [cooked EXCEPT ![t] = Append(cooked[t], x)]
  BY DEF tty_cook
<1>7. Append(cooked[t], x) \in Seq(Char)
  BY <1>1, AppendProperties
<1>8. cooked' \in [Tty -> Seq(Char)] /\ cooked'[1] = cooked[1]
  BY <1>1, <1>6, <1>7
<1>9. SameQueue
  BY <1>5 DEF SameQueue
<1>. QED  BY <1>8, <1>9, LinesKept

LEMMA CookLines ==
    ASSUME Inv, LinesOK, Cook, Alive'
    PROVE  LinesOK'
<1>1. TtysOK /\ TaskOK
  BY DEF Inv, TypeOK
<1>2. UNCHANGED <<reading, lines>>
  BY DEF Cook
<1>3. PICK x \in Char : x = ttask.ev.data
  <2>1. ttask.ev \in Event /\ ttask.ev # NoEvent
    BY <1>1, TaskGoes DEF Cook
  <2>2. \A v \in Event : v # NoEvent => v.data \in Nat \ {0}
    BY DEF Event
  <2>. QED  BY <2>1, <2>2 DEF Char, NUL
<1>4. PICK t \in Tty : t = ttask.tty
  BY <1>1, TaskGoes
<1>5. CASE t # 1
  <2>1. PICK q, n : tty_cook(q, n)
    BY <1>1, Cooked
  <2>. QED  BY <1>1, <1>2, <1>3, <1>4, <1>5, <2>1, CookedOther
<1>6. CASE t = 1
  <2>1. ttask.tty = 1
    BY <1>4, <1>6
  <2>2. PICK a, b, c, m \in Nat : Tally(a, b, c, m)
    BY <1>1, Tallied
  <2>3. a = Len(lines) /\ m = Len(Typed.done) /\ a + b + c = m
    BY <2>2 DEF Tally
  <2>4. a <= m
    BY <2>3
  <2>5. PICK q \in Queue : q = tty[1].q /\ q = Mine.q
    BY <1>1, <2>1, Tallied DEF Mine
  <2>6. PICK done \in Seq(Seq(Char)), rest \in Seq(Char) :
           /\ done = Typed.done /\ rest = Typed.rest /\ a <= Len(done) /\ Len(done) = m
    BY <1>1, <2>3, <2>4, Tallied
  <2>7. PICK off : Stored(q, a, done, rest, off)
    BY <1>1, <2>3, <2>5, <2>6 DEF LinesOK
  <2>8. Typed \in Edit
    BY <1>1, Tallied
  <2>9. PICK e \in Edit :
           /\ e = EditStep(Typed, x)
           /\ x = NL => e.done = Append(done, Append(rest, x)) /\ e.rest = <<>>
           /\ x # NL => e.done = done
           /\ x = BS => e.rest = SubSeq(rest, 1, Len(rest) - 1)
           /\ x \notin {NL, BS} => e.rest = Append(rest, x)
    BY <2>6, <2>8, EditTyped
  <2>10. NL # BS
    BY DEF NL, BS
  <2>11. ASSUME NEW u \in Queue, tty_cook(u, 0), x # NL,
                \E new : Stored(u, a, done, e.rest, new)
         PROVE  LinesOK'
    <3>1. Len(e.done) = Len(Typed.done) + 0
      BY <2>3, <2>6, <2>9, <2>11
    <3>2. \A i \in 1 .. Len(Typed.done) : e.done[i] = Typed.done[i]
      BY <2>6, <2>9, <2>11
    <3>3. \E new : Stored(u, Len(lines), e.done, e.rest, new)
      BY <2>3, <2>9, <2>11
    <3>. QED  BY <1>1, <1>2, <1>3, <2>1, <2>9, <2>11, <3>1, <3>2, <3>3, CookedOne
  <2>12. PICK q1 : q1 = tty_enqueue(q, x)
    OBVIOUS
  <2>13. CASE x = NL /\ tty_cook(tty_enqueue(q1, NUL), 1) /\ PanicIf(Full(q) \/ Full(q1))
    <3>1. ~Full(q) /\ ~Full(q1)
      BY <2>13 DEF PanicIf, Alive
    <3>2. q1 \in Queue /\ Stored(q1, a, done, Append(rest, x), off)
      BY <2>6, <2>7, <2>12, <3>1, Putting
    <3>3. PICK r \in Seq(Char) : r = Append(rest, x)
      BY AppendProperties
    <3>4. PICK u \in Queue : /\ u = tty_enqueue(q1, NUL)
                             /\ \E new : Stored(u, a, Append(done, r), <<>>, new)
      BY <2>6, <2>7, <3>1, <3>2, <3>3, Ending
    <3>5. e.done = Append(done, r) /\ e.rest = <<>>
      BY <2>9, <2>13, <3>3
    <3>6. Len(e.done) = Len(Typed.done) + 1
      BY <2>6, <3>3, <3>5, AppendProperties
    <3>7. \A i \in 1 .. Len(Typed.done) : e.done[i] = Typed.done[i]
      BY <2>6, <3>3, <3>5, AppendProperties
    <3>8. \E new : Stored(u, Len(lines), e.done, e.rest, new)
      BY <2>3, <3>4, <3>5
    <3>9. tty_cook(u, 1)
      BY <2>13, <3>4
    <3>. QED  BY <1>1, <1>2, <1>3, <2>1, <2>9, <3>6, <3>7, <3>8, <3>9, CookedOne, ZenonT(60)
  <2>14. CASE x = BS /\ CanPop(q) /\ tty_cook(tty_pop_back(q), 0)
    <3>1. /\ tty_pop_back(q) \in Queue
          /\ Stored(tty_pop_back(q), a, done, SubSeq(rest, 1, Len(rest) - 1), off)
      BY <2>6, <2>7, <2>14, Erasing
    <3>2. e.rest = SubSeq(rest, 1, Len(rest) - 1) /\ x # NL
      BY <2>9, <2>10, <2>14
    <3>. QED  BY <2>11, <2>14, <3>1, <3>2
  <2>15. CASE x = BS /\ ~CanPop(q) /\ tty_cook(q, 0)
    <3>1. rest = <<>>
      BY <2>6, <2>7, <2>15, Erasing
    <3>2. SubSeq(rest, 1, Len(rest) - 1) = rest
      BY <3>1, Shorter
    <3>3. e.rest = rest /\ x # NL
      BY <2>9, <2>10, <2>15, <3>2
    <3>. QED  BY <2>6, <2>7, <2>11, <2>15, <3>3
  <2>16. CASE x \notin {NL, BS} /\ tty_cook(q1, 0) /\ PanicIf(Full(q))
    <3>1. ~Full(q)
      BY <2>16 DEF PanicIf, Alive
    <3>2. q1 \in Queue /\ Stored(q1, a, done, Append(rest, x), off)
      BY <2>6, <2>7, <2>12, <3>1, Putting
    <3>3. e.rest = Append(rest, x) /\ x # NL
      BY <2>9, <2>16
    <3>. QED  BY <2>11, <2>16, <3>2, <3>3
  <2>. QED  BY <1>3, <2>5, <2>12, <2>13, <2>14, <2>15, <2>16 DEF Cook
<1>. QED  BY <1>5, <1>6

LEMMA ReadCookedLines ==
    ASSUME Inv, LinesOK, NEW r \in Reader, ReadCooked(r)
    PROVE  LinesOK'
<1>1. TtysOK
  BY DEF Inv, TypeOK
<1>2. PICK a, b, c, m \in Nat : Tally(a, b, c, m)
  BY <1>1, Tallied
<1>3. /\ a = Len(lines) /\ b = tty[1].cooked /\ c = Cardinality(reading) /\ m = Len(Typed.done)
      /\ a + b + c = m
  BY <1>2 DEF Tally
<1>4. PICK d \in Nat : b = d + 1 /\ d = b - 1
  <2>1. b > 0
    BY <1>3 DEF ReadCooked
  <2>. QED  BY <2>1
<1>5. PICK T \in Terminal : T = tty[1]
  BY <1>1, Tallied
<1>6. PICK U : U = [T EXCEPT !.cooked = d]
  OBVIOUS
<1>7. U.cooked = d /\ U.q = T.q
  BY <1>6, TtyFields
<1>8. tty' = [tty EXCEPT ![1] = U]
  BY <1>3, <1>4, <1>5, <1>6 DEF ReadCooked
<1>9. tty'[1] = U
  <2>1. 1 \in Tty /\ tty \in [Tty -> Terminal]
    BY <1>1, Tallied DEF TtysOK
  <2>. QED  BY <1>8, <2>1
<1>10. /\ reading' = reading \cup {r} /\ r \notin reading
       /\ UNCHANGED <<cooked, lines>>
  BY DEF ReadCooked
<1>11. IsFiniteSet(reading') /\ Cardinality(reading') = c + 1
  BY <1>3, <1>10, FS_AddElement DEF LinesOK
<1>12. Typed' = Typed
  BY <1>10 DEF Typed
<1>13. a + d + (c + 1) = m
  BY <1>3, <1>4
<1>14. Len(lines') + tty'[1].cooked + Cardinality(reading') = Len(Typed'.done)
  BY <1>3, <1>7, <1>9, <1>10, <1>11, <1>12, <1>13
<1>. QED  BY <1>5, <1>7, <1>9, <1>10, <1>11, <1>12, <1>14 DEF LinesOK

LEMMA ReadLineLines ==
    ASSUME Inv, LinesOK, NEW r \in Reader, ReadLine(r)
    PROVE  LinesOK'
<1>1. TtysOK
  BY DEF Inv, TypeOK
<1>2. PICK a, b, c, m \in Nat : Tally(a, b, c, m)
  BY <1>1, Tallied
<1>3. /\ a = Len(lines) /\ b = tty[1].cooked /\ c = Cardinality(reading) /\ m = Len(Typed.done)
      /\ a + b + c = m
  BY <1>2 DEF Tally
<1>4. /\ reading' = reading \ {r} /\ r \in reading
      /\ lines' = Append(lines, Line(tty[1].q, Count)) /\ UNCHANGED cooked
  BY DEF ReadLine
<1>5. PICK d \in Nat : c = d + 1 /\ Cardinality(reading') = d /\ IsFiniteSet(reading')
  <2>1. IsFiniteSet(reading)
    BY DEF LinesOK
  <2>2. IsFiniteSet(reading') /\ Cardinality(reading') = c - 1
    BY <1>3, <1>4, <2>1, FS_RemoveElement
  <2>3. Cardinality(reading') \in Nat
    BY <2>2, FS_CardinalityType
  <2>. QED  BY <2>2, <2>3
<1>6. a < m /\ a + 1 + b + d = m
  <2>1. a + b + c = m /\ c = d + 1
    BY <1>3, <1>5
  <2>. QED  BY <2>1
<1>7. PICK T \in Terminal : T = tty[1]
  BY <1>1, Tallied
<1>8. PICK q \in Queue : q = T.q /\ Terminated(q)
  <2>1. reading # {}
    BY <1>4
  <2>. QED  BY <1>1, <1>7, <2>1, TtyFields DEF TtysOK
<1>9. PICK done \in Seq(Seq(Char)), rest \in Seq(Char) :
         done = Typed.done /\ rest = Typed.rest /\ Len(done) = m
  BY <1>1, <1>3, Tallied
<1>10. PICK off : Stored(q, a, done, rest, off)
  BY <1>3, <1>7, <1>8, <1>9 DEF LinesOK
<1>11. /\ Line(q, Count) = Cut(done[a + 1])
       /\ \E new : Stored(SkipLine(q), a + 1, done, rest, new)
  BY <1>6, <1>8, <1>9, <1>10, Reading
<1>12. PICK x \in Got : x = Cut(done[a + 1]) /\ x = Line(q, Count)
  <2>1. a + 1 \in 1 .. m
    BY <1>6
  <2>2. done[a + 1] \in Seq(Char)
    BY <1>9, <2>1, ElementOfSeq
  <2>. QED  BY <1>11, <2>2 DEF Got
<1>13. PICK ls : /\ ls = lines' /\ ls \in Seq(Got) /\ Len(ls) = a + 1
                 /\ \A i \in 1 .. a : ls[i] = lines[i]
                 /\ ls[a + 1] = x
  <2>1. lines \in Seq(Got)
    BY DEF LinesOK
  <2>2. lines' = Append(lines, x)
    BY <1>4, <1>7, <1>8, <1>12
  <2>. QED  BY <1>3, <2>1, <2>2, AppendProperties, ZenonT(60)
<1>14. PICK U : U = [T EXCEPT !.q = SkipLine(q)]
  OBVIOUS
<1>15. U.cooked = b /\ U.q = SkipLine(q)
  BY <1>3, <1>7, <1>14, TtyFields
<1>16. tty' = [tty EXCEPT ![1] = U]
  BY <1>7, <1>8, <1>14 DEF ReadLine
<1>17. tty'[1] = U
  <2>1. 1 \in Tty /\ tty \in [Tty -> Terminal]
    BY <1>1, Tallied DEF TtysOK
  <2>. QED  BY <1>16, <2>1
<1>18. Typed' = Typed
  BY <1>4 DEF Typed
<1>19. Len(lines') + tty'[1].cooked + Cardinality(reading') = Len(Typed'.done)
  BY <1>3, <1>5, <1>6, <1>13, <1>15, <1>17, <1>18
<1>20. ASSUME NEW i \in 1 .. a + 1 PROVE ls[i] = Cut(done[i])
  <2>1. CASE i = a + 1
    BY <1>12, <1>13, <2>1
  <2>2. CASE i # a + 1
    <3>1. i \in 1 .. a
      BY <2>2
    <3>. QED  BY <1>3, <1>9, <1>13, <3>1 DEF LinesOK
  <2>. QED  BY <2>1, <2>2
<1>21. \A i \in 1 .. Len(lines') : lines'[i] = Cut(Typed'.done[i])
  BY <1>9, <1>13, <1>18, <1>20
<1>22. \E new : Stored(tty'[1].q, Len(lines'), Typed'.done, Typed'.rest, new)
  BY <1>9, <1>11, <1>13, <1>15, <1>17, <1>18
<1>23. cooked' \in [Tty -> Seq(Char)]
  BY <1>4 DEF LinesOK
<1>. QED  BY <1>5, <1>13, <1>19, <1>21, <1>22, <1>23 DEF LinesOK

Sound == Inv /\ RingOK /\ (Alive => LinesOK)

(* A step that leaves the ring, and whether the machine runs, alone.       *)
LEMMA RingKept ==
    ASSUME RingOK, UNCHANGED <<in, itask, taking, panicked>>
    PROVE  RingOK'
BY DEF RingOK, Alive, Balanced, Pending, Taken

LEMMA StartSound ==
    ASSUME Fresh = NUL, Init
    PROVE  Sound
<1>1. Inv
  BY StartTyped
<1>2. RingOK
  <2>1. in = input_init /\ itask = "drain" /\ taking = {} /\ panicked = ""
    BY DEF Init, InputInit
  <2>2. in.rear = 0 /\ in.front = 0 /\ in.event_sem = 0 /\ Pending = 0 /\ Taken = 0
    BY <2>1 DEF input_init, Pending, Taken
  <2>3. PICK n \in Nat \ {0} : n = NEVENTS
    BY InputAssumption DEF InputAssumption
  <2>4. (0 - 0) % n = 0 + 0 + 0
    OBVIOUS
  <2>5. Balanced
    BY <2>2, <2>3, <2>4 DEF Balanced
  <2>. QED  BY <2>1, <2>5 DEF RingOK
<1>3. LinesOK
  <2>1. PICK z \in Nat \ {0} : z = SZ /\ z = TTY_COOK_BUF_SZ
    BY TtyAssumption DEF TtyAssumption, SZ
  <2>2. PICK Q0 : Q0 = [buf |-> [i \in 0 .. z - 1 |-> NUL], front |-> 0, rear |-> 0]
    OBVIOUS
  <2>3. Q0.buf = [i \in 0 .. z - 1 |-> NUL] /\ Q0.front = 0 /\ Q0.rear = 0
    BY <2>2
  <2>4. tty_init.q = Q0 /\ tty_init.cooked = 0 /\ tty_init \in Terminal
    <3>1. tty_init.q = Q0 /\ tty_init.cooked = 0
      BY <2>1, <2>2 DEF tty_init
    <3>2. 0 \in Cell /\ 0 \in 0 .. z - 1 /\ NUL \in Int
      BY TtyAssumption, Sizes DEF Cell, NUL
    <3>3. Q0 \in Queue
      BY <2>1, <2>2, <3>2 DEF Queue
    <3>4. [c \in Cell |-> NUL] \in [Cell -> Int]
      BY <3>2
    <3>5. tty_init = [lock |-> 1, cooked |-> 0, cursor |-> 0, dirty |-> {},
                      buf |-> [c \in Cell |-> NUL], q |-> Q0]
      BY <2>1, <2>2 DEF tty_init
    <3>. QED  BY <3>1, <3>2, <3>3, <3>4, <3>5 DEF Terminal, TerminalAt
  <2>5. PICK W \in Terminal : W = Puts(tty_init, WelcomeText) /\ W.q = Q0 /\ W.cooked = 0
    <3>1. Marked(tty_init, Puts(tty_init, WelcomeText))
      BY <2>4, PutAll, TtyAssumption DEF TtyAssumption
    <3>. QED  BY <2>4, <3>1 DEF Marked
  <2>6. PICK T : T = [W EXCEPT !.dirty = {}] /\ T.q = Q0 /\ T.cooked = 0
    <3>1. PICK T : T = [W EXCEPT !.dirty = {}]
      OBVIOUS
    <3>2. T.q = W.q /\ T.cooked = W.cooked
      BY <3>1, TtyFields
    <3>. QED  BY <2>5, <3>1, <3>2
  <2>7. 1 \in Tty /\ tty = [t \in Tty |-> T]
    BY <2>5, <2>6, ConsoleAssumption, Tasks DEF Init, TtyInit
  <2>8. tty[1].q = Q0 /\ tty[1].cooked = 0
    BY <2>6, <2>7
  <2>9. cooked = [t \in Tty |-> <<>>] /\ reading = {} /\ lines = <<>>
    BY DEF Init
  <2>10. /\ <<>> \in Seq(Char) /\ <<>> \in Seq(Got) /\ Len(<<>>) = 0
         /\ IsFiniteSet({}) /\ Cardinality({}) = 0
    BY EmptySeq, FS_EmptySet
  <2>11. Typed.done = <<>> /\ Typed.rest = <<>>
    BY <2>7, <2>9, EditedNone DEF Typed, NoEdit
  <2>12. PICK off : off = [k \in 0 .. 0 |-> 0]
    OBVIOUS
  <2>13. \A k \in 0 .. z - 1 : Pos(Q0, k) = k /\ Byte(Q0, k) = NUL
    <3>1. ASSUME NEW k \in 0 .. z - 1 PROVE Pos(Q0, k) = k
      <4>1. (0 + k) % z = k
        OBVIOUS
      <4>. QED  BY <2>1, <2>3, <4>1 DEF Pos
    <3>. QED  BY <2>3, <3>1 DEF Byte
  <2>14. Stored(Q0, 0, <<>>, <<>>, off)
    <3>1. 0 \in 0 .. z - 1 /\ z - 1 \in 0 .. z - 1 /\ 0 < z /\ 0 + 0 = 0
      OBVIOUS
    <3>2. off \in [0 .. 0 -> Nat] /\ off[0] = 0
      BY <2>12
    <3>3. Q0.rear = Pos(Q0, 0) /\ Byte(Q0, 0) = NUL /\ Byte(Q0, SZ - 1) = NUL /\ 0 < SZ
      BY <2>1, <2>3, <2>13, <3>1
    <3>. QED  BY <2>10, <3>1, <3>2, <3>3 DEF Stored
  <2>15. \E o : Stored(tty[1].q, Len(lines), Typed.done, Typed.rest, o)
    BY <2>8, <2>9, <2>10, <2>11, <2>14
  <2>16. Len(lines) + tty[1].cooked + Cardinality(reading) = Len(Typed.done)
    BY <2>8, <2>9, <2>10, <2>11
  <2>. QED  BY <2>9, <2>10, <2>15, <2>16 DEF LinesOK
<1>. QED  BY <1>1, <1>2, <1>3 DEF Sound

(* Steps of the terminal task that leave the line queues alone.            *)
LEMMA TaskKeeps ==
    ASSUME Inv, LinesOK,
           Boot \/ ReadWait \/ ReadTake \/ Switch \/ FbSet \/ NoCook \/ Blink \/ MarkCursor
    PROVE  LinesOK'
<1>1. UNCHANGED <<cooked, reading, lines>>
  BY DEF Boot, ReadWait, ReadTake, Switch, FbSet, NoCook, Blink, MarkCursor, consoleVars
<1>2. 1 \in Tty /\ tty \in [Tty -> Terminal] /\ TaskOK /\ Cell \in SUBSET Nat
  BY ConsoleAssumption, Tasks DEF Inv, TypeOK, TtysOK, Cell
<1>3. CASE tty' = tty
  <2>1. SameQueue
    BY <1>1, <1>3 DEF SameQueue
  <2>. QED  BY <1>1, <2>1, LinesKept DEF LinesOK
<1>4. ASSUME NEW t \in Tty, NEW cells \in SUBSET Nat, MarkUnlocked(t, cells) PROVE LinesOK'
  <2>1. SameQueue
    BY <1>1, <1>2, <1>4, MarksOnly DEF SameQueue
  <2>. QED  BY <1>1, <2>1, LinesKept DEF LinesOK
<1>5. CASE ReadWait \/ ReadTake \/ FbSet \/ NoCook \/ Blink
  BY <1>3, <1>5 DEF ReadWait, ReadTake, FbSet, NoCook, Blink, ttyVars
<1>6. CASE Boot
  BY <1>2, <1>4, <1>6 DEF Boot
<1>7. CASE Switch
  <2>1. Next2 \in Tty
    BY <1>2, TaskGoes, ConsoleAssumption, Tasks DEF Next2
  <2>. QED  BY <1>2, <1>4, <1>7, <2>1 DEF Switch
<1>8. CASE MarkCursor
  <2>1. ttask.tty \in Tty
    BY <1>2, TaskGoes
  <2>2. {Mine.cursor} \in SUBSET Nat
    BY <1>2, <2>1, TtyFields DEF Mine, Cell
  <2>. QED  BY <1>4, <1>8, <2>1, <2>2 DEF MarkCursor
<1>. QED  BY <1>5, <1>6, <1>7, <1>8

LEMMA WriterLines ==
    ASSUME Inv, LinesOK, NEW p \in Writer, WriteStep(p), UNCHANGED <<inputVars, consoleVars>>
    PROVE  LinesOK'
<1>1. SameQueue
  BY WriterKeeps DEF Inv, SameQueue, consoleVars
<1>2. cooked' = cooked
  BY DEF consoleVars
<1>. QED  BY <1>1, <1>2, LinesKept DEF LinesOK

LEMMA StaysSound ==
    ASSUME Sound, Alive, Next
    PROVE  Sound'
<1>1. Inv /\ RingOK /\ LinesOK
  BY DEF Sound
<1>2. Inv'
  BY <1>1, StaysTyped
<1>3. InputOK
  BY <1>1 DEF Inv, TypeOK
<1>4. ASSUME UNCHANGED <<ttyVars, consoleVars>> PROVE LinesOK'
  <2>1. SameQueue /\ cooked' = cooked
    BY <1>4 DEF SameQueue, ttyVars, consoleVars
  <2>. QED  BY <1>1, <2>1, LinesKept DEF LinesOK
<1>5. CASE Keys
  <2>1. UNCHANGED <<in, itask, taking, panicked>>
    BY <1>5 DEF Keys, Keyboard, KeyStroke, input_notify
  <2>2. RingOK'
    BY <1>1, <2>1, RingKept
  <2>3. LinesOK'
    BY <1>4, <1>5 DEF Keys
  <2>. QED  BY <1>2, <2>2, <2>3 DEF Sound
<1>6. CASE Input
  <2>1. RingOK'
    BY <1>1, <1>3, <1>6, InputRing DEF Input
  <2>2. LinesOK'
    BY <1>4, <1>6 DEF Input
  <2>. QED  BY <1>2, <2>1, <2>2 DEF Sound
<1>7. CASE Boot \/ ReadWait \/ ReadTake \/ Switch \/ FbSet \/ NoCook \/ Blink \/ MarkCursor
  <2>1. LinesOK'
    BY <1>1, <1>7, TaskKeeps
  <2>2. CASE ReadWait \/ ReadTake
    <3>1. RingOK'
      BY <1>1, <1>3, <2>2, PopRing DEF ReadWait, ReadTake
    <3>. QED  BY <1>2, <2>1, <3>1 DEF Sound
  <2>3. CASE Boot \/ Switch \/ FbSet \/ NoCook \/ Blink \/ MarkCursor
    <3>1. UNCHANGED <<in, itask, taking, panicked>>
      BY <2>3 DEF Boot, Switch, FbSet, NoCook, Blink, MarkCursor, inputVars
    <3>2. RingOK'
      BY <1>1, <3>1, RingKept
    <3>. QED  BY <1>2, <2>1, <3>2 DEF Sound
  <2>. QED  BY <1>7, <2>2, <2>3
<1>8. CASE Cook
  <2>1. UNCHANGED <<in, itask, taking>> /\ panicked' \in {"", "tty queue full"}
    BY <1>8 DEF Cook, PanicIf
  <2>2. RingOK'
    BY <1>1, <2>1 DEF RingOK, Balanced, Pending, Taken
  <2>3. Alive' => LinesOK'
    BY <1>1, <1>8, CookLines
  <2>. QED  BY <1>2, <2>2, <2>3 DEF Sound
<1>9. ASSUME NEW p \in Writer, WriteStep(p), UNCHANGED <<inputVars, consoleVars>> PROVE Sound'
  <2>1. UNCHANGED <<in, itask, taking, panicked>>
    BY <1>9 DEF inputVars
  <2>2. RingOK'
    BY <1>1, <2>1, RingKept
  <2>3. LinesOK'
    BY <1>1, <1>9, WriterLines
  <2>. QED  BY <1>2, <2>2, <2>3 DEF Sound
<1>10. CASE dev_tty_task
  <2>1. TtyTask \in Writer
    BY ConsoleAssumption, Tasks
  <2>. QED  BY <1>7, <1>8, <1>9, <1>10, <2>1 DEF dev_tty_task
<1>11. ASSUME NEW p \in Program, ProgramWrite(p) \/ ProgramStep(p) PROVE Sound'
  <2>1. CASE ProgramWrite(p)
    <3>1. UNCHANGED <<in, itask, taking, panicked, tty, cooked, reading, lines>>
      BY <2>1 DEF ProgramWrite, inputVars
    <3>2. RingOK'
      BY <1>1, <3>1, RingKept
    <3>3. SameQueue
      BY <3>1 DEF SameQueue
    <3>4. LinesOK'
      BY <1>1, <3>1, <3>3, LinesKept DEF LinesOK
    <3>. QED  BY <1>2, <3>2, <3>4 DEF Sound
  <2>2. CASE ProgramStep(p)
    <3>1. p \in Writer
      BY ConsoleAssumption, Tasks
    <3>. QED  BY <1>9, <2>2, <3>1 DEF ProgramStep
  <2>. QED  BY <1>11, <2>1, <2>2
<1>12. ASSUME NEW r \in Reader, ReadCooked(r) \/ ReadLine(r) PROVE Sound'
  <2>1. UNCHANGED <<in, itask, taking, panicked>>
    BY <1>12 DEF ReadCooked, ReadLine, inputVars
  <2>2. RingOK'
    BY <1>1, <2>1, RingKept
  <2>3. LinesOK'
    BY <1>1, <1>12, ReadCookedLines, ReadLineLines
  <2>. QED  BY <1>2, <2>2, <2>3 DEF Sound
<1>. QED  BY <1>5, <1>6, <1>10, <1>11, <1>12 DEF Next

LEMMA GivesLines ==
    ASSUME Sound
    PROVE  LinesAsTyped
<1>1. panicked \in {"", "input queue full", "tty queue full"}
  BY DEF Sound, RingOK
<1>2. ASSUME Alive
      PROVE  /\ Len(lines) + tty[1].cooked + Cardinality(reading) = Len(Typed.done)
             /\ lines = [i \in 1 .. Len(lines) |-> Cut(Typed.done[i])]
  <2>1. /\ lines \in Seq(Got)
        /\ Len(lines) + tty[1].cooked + Cardinality(reading) = Len(Typed.done)
        /\ \A i \in 1 .. Len(lines) : lines[i] = Cut(Typed.done[i])
    BY <1>2 DEF Sound, LinesOK
  <2>2. lines = [i \in 1 .. Len(lines) |-> lines[i]]
    BY <2>1, LenProperties
  <2>. QED  BY <2>1, <2>2
<1>. QED  BY <1>1, <1>2 DEF LinesAsTyped, Typed, Cut, Alive

(* The readers get the lines that were typed, each once, whole, in order   *)
(* and without what was erased (tty_cook and tty_read, dev_tty.c), if the  *)
(* allocator gave a queue that was clear; and only a full ring or a full   *)
(* queue stops the machine.                                                *)
THEOREM LinesAsTypedHolds == Fresh = NUL => (Spec => []LinesAsTyped)
<1>. SUFFICES ASSUME Fresh = NUL PROVE Spec => []LinesAsTyped
  OBVIOUS
<1>1. Init => Sound
  BY StartSound
<1>2. Sound /\ [Next]_vars => Sound'
  <2>1. ASSUME Sound, UNCHANGED vars PROVE Sound'
    <3>1. UNCHANGED <<in, itask, taking, panicked>> /\ UNCHANGED <<tty, cooked, reading, lines>>
      BY <2>1 DEF vars, inputVars, ttyVars, consoleVars
    <3>2. Inv' /\ RingOK'
      BY <2>1, <3>1, StaysTyped, RingKept DEF Sound
    <3>3. Alive' => LinesOK'
      BY <2>1, <3>1, LinesKept DEF Sound, Alive, SameQueue, LinesOK
    <3>. QED  BY <3>2, <3>3 DEF Sound
  <2>2. Next => Alive
    BY DEF Next, Alive
  <2>. QED  BY <2>1, <2>2, StaysSound
<1>3. Sound => LinesAsTyped
  BY GivesLines
<1>. QED  BY <1>1, <1>2, <1>3, PTL DEF Spec
=============================================================================
