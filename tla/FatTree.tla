------------------------------- MODULE FatTree ------------------------------
(***************************************************************************)
(* fatree.c: prints a FAT32 image as a tree, each file with its clusters.  *)
(* The recursion of dfs is a stack of its calls.                           *)
(***************************************************************************)
EXTENDS FatImage

VARIABLES
    tree,           \* what is on the disk
    disk, fat,      \* the image: its units, its file allocation table
    stack,          \* calls of dfs: [clusId, d, depth, is_dir], the last on top
    listing         \* what was printed: an entry or a cluster number

fatreeVars == <<tree, disk, fat, stack, listing>>

Call(clusId, depth, is_dir) == [clusId |-> clusId, d |-> 0, depth |-> depth, is_dir |-> is_dir]
Entry(name, depth) == [name |-> name, depth |-> depth, clus |-> 0]
Cluster(c) == [name |-> <<"#">>, depth |-> 0, clus |-> c]

BPB_RootClus == tree[1].chain[1]

FatreeInit ==
    /\ tree \in Trees
    /\ disk = DiskOf(tree) /\ fat = FatOf(tree)
    /\ stack = <<Call(BPB_RootClus, 0, TRUE)>>
    /\ listing = <<>>

Top == stack[Len(stack)]
Calling == stack # <<>>
InCluster == Calling /\ Top.clusId < CLUS_INVALID

\* The loop of a call: the next entry of this cluster, or the next cluster.
SetTop(call) == [stack EXCEPT ![Len(stack)] = call]
NextEntry == SetTop([Top EXCEPT !.d = @ + 1])

\* Fault: the next cluster is not read from its first entry.
next_cluster_KeepsEntry == SetTop([Top EXCEPT !.clusId = fat[@]])

next_cluster == SetTop([Top EXCEPT !.clusId = fat[@], !.d = 0])

Return ==
    /\ Calling /\ Top.clusId >= CLUS_INVALID
    /\ stack' = Front(stack)
    /\ UNCHANGED <<tree, disk, fat, listing>>

\* The entry looked at; a directory is entered unless its name begins with a
\* dot, the clusters of anything else are listed.
DirEntry ==
    /\ InCluster /\ Top.is_dir /\ Top.d < UnitsPerClus
    /\ UNCHANGED <<tree, disk, fat>>
    /\ LET dent == disk[cluster_to_sec(Top.clusId) + Top.d]
           skipped == dent.name[1] \in {NUL, Deleted} \/ HIDDEN \subseteq dent.attr
           isDir == DIRECTORY \subseteq dent.attr
       IN  /\ listing' = IF skipped THEN listing ELSE Append(listing, Entry(get_filename(dent), Top.depth))
           /\ stack' = IF skipped \/ (isDir /\ dent.name[1] = ".") THEN NextEntry
                       ELSE Append(NextEntry, Call(dent.clus, Top.depth + 1, isDir))

DirCluster ==
    /\ InCluster /\ Top.is_dir /\ Top.d = UnitsPerClus
    /\ stack' = next_cluster
    /\ UNCHANGED <<tree, disk, fat, listing>>

FileCluster ==
    /\ InCluster /\ ~Top.is_dir
    /\ listing' = Append(listing, Cluster(Top.clusId))
    /\ stack' = next_cluster
    /\ UNCHANGED <<tree, disk, fat>>

FatreeNext == Return \/ DirEntry \/ DirCluster \/ FileCluster
-----------------------------------------------------------------------------

\* The listing of directory i of the tree, read off the tree itself.
RECURSIVE TreeListing(_, _)
TreeListing(i, depth) ==
    LET kids == SelectSeq(Children(tree, i), LAMBDA k : tree[k].kind \in {"dir", "file"})
        dots == IF i = 1 THEN <<>> ELSE <<Entry(<<".">>, depth), Entry(<<".", ".">>, depth)>>
        body(k) == IF tree[k].kind = "dir" THEN TreeListing(k, depth + 1)
                   ELSE IF tree[k].chain = <<>> THEN <<Cluster(0)>>
                   ELSE [c \in DOMAIN tree[k].chain |-> Cluster(tree[k].chain[c])]
        shown(k) == <<Entry(get_filename([name |-> tree[k].short]), depth)>> \o body(k)
    IN  dots \o FlattenSeq([k \in DOMAIN kids |-> shown(kids[k])])

(* When dfs is done it has printed every directory and file of the tree    *)
(* once, in order and at its depth, across the clusters of a directory,    *)
(* each file with all its clusters, and nothing deleted or hidden          *)
(* (fatree.c:162-195).  An empty file shows the number 0 its entry holds.  *)
ListsTree == stack = <<>> => listing = TreeListing(1, 0)
=============================================================================
