---------------------------- MODULE AtomicImage ----------------------------
(***************************************************************************)
(* What rw.rs promises to the one user of an image: a tree that changes by *)
(* whole commits, and an edited tree that a commit makes durable before it *)
(* installs it.  There is no log, no staging directory and no file here;   *)
(* RwImage is shown to implement this.                                     *)
(*                                                                         *)
(* An edit is a record: the tree its user sees, the paths deleted since    *)
(* the image was opened, and those of them that were staged again.  Of the *)
(* last the implementation may drop the content.                           *)
(***************************************************************************)
CONSTANTS
  Paths,    \* normalized paths of regular files
  Data,     \* file contents
  NoData    \* no content: the path is absent

VARIABLES
  image,    \* the installed tree
  saved,    \* the edit that the next open starts from
  open,     \* an open has returned and its handle is in use
  edit      \* the edit of that handle

vars == <<image, saved, open, edit>>

Tree == [Paths -> Data \cup {NoData}]

\* The edit that changes nothing.
Unedited(t) == [tree |-> t, deleted |-> {}, again |-> {}]

\* The edit of no handle.
Nothing == Unedited([p \in Paths |-> NoData])

Init ==
  /\ image \in Tree
  /\ saved = Unedited(image)
  /\ open = FALSE
  /\ edit = Nothing

\* open takes up the saved edit.  From then on the handle alone has it: if
\* the process dies before its next commit, the edit is gone.
Open ==
  /\ ~ open
  /\ open' = TRUE
  /\ edit' = saved
  /\ saved' = Unedited(image)
  /\ UNCHANGED image

\* add_file and update_file.
Put(p, d) ==
  /\ open
  /\ edit' = [tree    |-> [edit.tree EXCEPT ![p] = d],
              deleted |-> edit.deleted,
              again   |-> edit.again \cup (edit.deleted \cap {p})]
  /\ UNCHANGED <<image, saved, open>>

\* delete_file of a file that is there.
Delete(p) ==
  /\ open
  /\ edit.tree[p] # NoData \/ p \in edit.again
  /\ edit' = [tree    |-> [edit.tree EXCEPT ![p] = NoData],
              deleted |-> edit.deleted \cup {p},
              again   |-> edit.again \ {p}]
  /\ UNCHANGED <<image, saved, open>>

\* The first half of commit: the edit will be there after a crash.
Save ==
  /\ open
  /\ saved' = edit
  /\ UNCHANGED <<image, open, edit>>

\* The second half: the saved edit becomes the image, at once and whole.
Install ==
  /\ open
  /\ saved = edit
  /\ image' \in Tree
  /\ \A p \in Paths : \/ image'[p] = edit.tree[p]
                      \/ image'[p] = NoData /\ p \in edit.again
  /\ saved' = Unedited(image')
  /\ UNCHANGED <<open, edit>>

\* The process dies or the handle is dropped.
Close ==
  /\ open' = FALSE
  /\ edit' = Nothing
  /\ UNCHANGED <<image, saved>>

Next ==
  \/ Open \/ Save \/ Install \/ Close
  \/ \E p \in Paths : Delete(p) \/ \E d \in Data : Put(p, d)

Spec == Init /\ [][Next]_vars
============================================================================
