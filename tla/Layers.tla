------------------------------- MODULE Layers -------------------------------
(***************************************************************************)
(* Images built on images: the delta between two of them                    *)
(* (limnifs-write/src/delta_builder.rs, limni diff) and the flattening of a  *)
(* chain of layers into one manifest (limnifs-write/src/flatten.rs).         *)
(*                                                                          *)
(* A tree maps the path of every node, a sequence of name ranks, to          *)
(* [type, mode, owner, content]; content is <<"inline", bytes>>,             *)
(* <<"slices", drop ids>>, <<"symlink", target>> or, in an image,            *)
(* <<"dir", node>>, a node being the entries name -> inode number.  Hashes   *)
(* of directory nodes are the nodes themselves.  An image is                 *)
(* [inlined, inodes, dir_nodes, slabs, history]: slabs is a sequence of      *)
(* <<slab id, locator uris>>.  Contents are drop ids: whether a drop still    *)
(* decodes is not asked here, and flatten keeps neither the dictionaries nor  *)
(* the delta linkage of its layers, so drops compressed against a dictionary  *)
(* are listed by a flattened image that no longer decodes them.               *)
(***************************************************************************)
EXTENDS Integers, Sequences, FiniteSets, SequencesExt, TLC

EmptyDir == <<"dir", <<>>>>

Root == <<>>

Dir == "dir"

----------------------------------------------------------------------------
(* What write_directory makes of a tree.                                     *)

\* Byte order of paths; a directory comes before what it holds.
Before(p, q) ==
    \/ Len(p) < Len(q) /\ SubSeq(q, 1, Len(p)) = p
    \/ \E i \in DOMAIN p \cap DOMAIN q : p[i] < q[i] /\ \A j \in 1..(i - 1) : p[j] = q[j]

\* Inodes are numbered from 1, parent first, in name order.
NumberOf(tree, p) == 1 + Cardinality({q \in DOMAIN tree : Before(q, p)})

Children(tree, p) == {n \in {q[Len(q)] : q \in DOMAIN tree \ {Root}} : Append(p, n) \in DOMAIN tree}

NodeOf(tree, p) == [n \in Children(tree, p) |-> NumberOf(tree, Append(p, n))]

ImageOf(tree, slabs) ==
    LET numbered == [k \in 1..Cardinality(DOMAIN tree) |-> CHOOSE p \in DOMAIN tree : NumberOf(tree, p) = k]
    IN [inlined |-> TRUE, slabs |-> slabs, history |-> <<"create", 1>>,
        inodes |-> [k \in DOMAIN numbered |->
                        LET node == tree[numbered[k]]
                        IN IF node.type = Dir THEN [node EXCEPT !.content = <<"dir", NodeOf(tree, numbered[k])>>] ELSE node],
        dir_nodes |-> {NodeOf(tree, p) : p \in {q \in DOMAIN tree : tree[q].type = Dir}}]

\* MetadataBlob::root_inode_number: the one directory no entry names; 0 for none.
root_inode_number(image) ==
    LET referenced == UNION {{node[n] : n \in DOMAIN node} : node \in image.dir_nodes}
        candidates == {k \in DOMAIN image.inodes : image.inodes[k].type = Dir} \ referenced
    IN IF Cardinality(candidates) = 1 THEN CHOOSE k \in candidates : TRUE ELSE 0

----------------------------------------------------------------------------
(* flatten.                                                                  *)

\* Mutant: an inode number keeps the oldest layer's inode.
MergeInodes_first(a, b) == a @@ b

\* A later layer's inode replaces an earlier one of the same number.
MergeInodes(a, b) == b @@ a

\* The locators of a slab listed by both are united, in the order they are met.
MergeSlabs(a, b) ==
    LET ids == {a[i][1] : i \in DOMAIN a}
        Uris(s, id) == UNION {Range(s[i][2]) : i \in {j \in DOMAIN s : s[j][1] = id}}
        of == [id \in {b[i][1] : i \in DOMAIN b} |-> (CHOOSE i \in DOMAIN b : b[i][1] = id)]
        united == [i \in DOMAIN a |->
                     IF a[i][1] \in DOMAIN of
                     THEN <<a[i][1], a[i][2] \o SelectSeq(b[of[a[i][1]]][2], LAMBDA u : u \notin Uris(a, a[i][1]))>>
                     ELSE a[i]]
    IN united \o SelectSeq(b, LAMBDA s : s[1] \notin ids)

\* encode_inode: owners, link counts and extended attributes are not carried over, nor are targets.  Devices and pipes,
\* whose content it writes four bytes short of what inode.rs reads, are in no image the writers make and left out.
ReencodedInode(inode) ==
    [inode EXCEPT !.owner = 0, !.content = IF @[1] = "symlink" THEN <<"symlink", 0>> ELSE @]

\* FlattenError::Empty and ExternalMetadata are the only refusals of well-formed layers.
flatten(layers) ==
    LET f[i \in 1..Len(layers)] ==
            IF i = 1 THEN [inodes |-> layers[1].inodes, dir_nodes |-> layers[1].dir_nodes, slabs |-> layers[1].slabs]
            ELSE [inodes |-> MergeInodes(f[i - 1].inodes, layers[i].inodes),
                  dir_nodes |-> f[i - 1].dir_nodes \cup layers[i].dir_nodes,
                  slabs |-> MergeSlabs(f[i - 1].slabs, layers[i].slabs)]
        m == f[Len(layers)]
    IN IF layers = <<>> \/ \E i \in DOMAIN layers : ~layers[i].inlined THEN [ok |-> FALSE]
       ELSE [ok |-> TRUE,
             image |-> [inlined |-> TRUE, dir_nodes |-> m.dir_nodes, history |-> <<"flatten", Len(layers)>>,
                        inodes |-> [k \in DOMAIN m.inodes |-> ReencodedInode(m.inodes[k])],
                        slabs |-> SortSeq(m.slabs, LAMBDA s, t : s[1] < t[1])]]

----------------------------------------------------------------------------
(* compute_delta.                                                            *)

\* The files' bytes as the handles tell them: a slice map by its drop ids.
inodes_equal(a, b) == a.type = b.type /\ a.content = b.content

\* Depth bounds the nesting of the modelled directories.
Depth == 3

\* Mutant: a file in the place of a directory, or the reverse, is taken for a directory to descend into.
BothDirectories_either(a, b) == a.type = Dir \/ b.type = Dir

BothDirectories(a, b) == a.type = Dir /\ b.type = Dir

Entries(inode) == IF inode.type = Dir THEN inode.content[2] ELSE <<>>

\* f[d] is diff_directory with d levels below it: the operations <<kind, path, inode number>>.
diff_directory(parent, child) ==
    LET f[d \in 0..Depth] ==
          [x \in (DOMAIN parent.inodes) \X (DOMAIN child.inodes) |->
            LET p == parent.inodes[x[1]]
                c == child.inodes[x[2]]
                in_p == Entries(p)
                in_c == Entries(c)
                both == DOMAIN in_p \cap DOMAIN in_c
                down == {n \in both : BothDirectories(parent.inodes[in_p[n]], child.inodes[in_c[n]])}
                deeper == IF d = 0 THEN {} ELSE
                          UNION {{<<o[1], <<n>> \o o[2], o[3]>> : o \in f[d - 1][<<in_p[n], in_c[n]>>]} : n \in down}
            IN IF ~BothDirectories(p, c) THEN {}
               ELSE {<<"add", <<n>>, in_c[n]>> : n \in DOMAIN in_c \ DOMAIN in_p}
                    \cup {<<"remove", <<n>>, 0>> : n \in DOMAIN in_p \ DOMAIN in_c}
                    \cup {<<"replace", <<n>>, in_c[n]>> :
                            n \in {e \in both \ down : ~inodes_equal(parent.inodes[in_p[e]], child.inodes[in_c[e]])}}
                    \cup deeper]
    IN f[Depth]

\* Both images must hold their metadata inline and have one root.  The operations are a set: the code sorts them by path,
\* and records as base_root a hash of the parent's manifest, which nothing here depends on.
compute_delta_from_bytes(parent, child) ==
    LET rp == root_inode_number(parent)
        rc == root_inode_number(child)
    IN IF ~parent.inlined \/ ~child.inlined \/ rp = 0 \/ rc = 0 THEN [ok |-> FALSE]
       ELSE [ok |-> TRUE, tree_ops |-> diff_directory(parent, child)[<<rp, rc>>]]

----------------------------------------------------------------------------
(* What a tree operation means, for the properties.                          *)

Under(p, q) == Len(p) <= Len(q) /\ SubSeq(q, 1, Len(p)) = p

\* What diff compares of a node.
Shape(node) == <<node.type, IF node.type = Dir THEN EmptyDir ELSE node.content>>

\* The parent's tree with the operations applied: an added or replaced path takes the child's subtree.
Applied(parent, child, ops) ==
    LET touched == {o[2] : o \in ops}
        kept == {p \in DOMAIN parent : ~\E t \in touched : Under(t, p)}
        taken == {p \in DOMAIN child : \E o \in ops : o[1] # "remove" /\ Under(o[2], p)}
    IN [p \in kept |-> Shape(parent[p])] @@ [p \in taken |-> Shape(child[p])]

\* The regular files and directories an image shows from its root.
Shown(image) ==
    LET f[d \in 0..Depth] ==
          IF d = 0 THEN {<<Root, root_inode_number(image)>>}
          ELSE f[d - 1] \cup UNION {{<<Append(e[1], n), Entries(image.inodes[e[2]])[n]>> :
                                        n \in DOMAIN Entries(image.inodes[e[2]])} : e \in f[d - 1]}
    IN {<<e[1], Shape(image.inodes[e[2]])>> : e \in {x \in f[Depth] : image.inodes[x[2]].type # "symlink"}}
=============================================================================
