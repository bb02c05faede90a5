----------------------------- MODULE FileHandles -----------------------------
(***************************************************************************)
(* What a set of FSFile objects promises its clients, without descriptors, *)
(* cached sizes or system calls: an object is attached to at most one      *)
(* file, no file is attached to two objects, and a file changes only       *)
(* through the object that is attached to it (or while it is attached,     *)
(* when it is created or truncated).                                       *)
(***************************************************************************)
CONSTANTS
  Objects,    \* the FSFile objects
  Nodes,      \* the files proper (inodes)
  NoNode      \* an object that is attached to nothing

VARIABLES
  handle,     \* handle[f]: the file that object f is attached to
  content     \* content[i]: whatever file i holds

hvars == <<handle, content>>

HInit ==
  /\ handle = [f \in Objects |-> NoNode]
  /\ content = [i \in Nodes |-> content[i]]

\* A step that changes no file but i.
OnlyChanges(i) == \A j \in Nodes \ {i} : content'[j] = content[j]

Attach(f, i) ==
  /\ \A g \in Objects \ {f} : handle[g] # i
  /\ handle' = [handle EXCEPT ![f] = i]
  /\ OnlyChanges(i)

Detach(f) ==
  /\ handle[f] # NoNode
  /\ handle' = [handle EXCEPT ![f] = NoNode]
  /\ UNCHANGED content

Modify(f) ==
  /\ handle[f] # NoNode
  /\ OnlyChanges(handle[f])
  /\ UNCHANGED handle

HNext ==
  \E f \in Objects : (\E i \in Nodes : Attach(f, i)) \/ Detach(f) \/ Modify(f)

HSpec == HInit /\ [][HNext]_hvars
=============================================================================
