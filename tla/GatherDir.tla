------------------------------- MODULE GatherDir -------------------------------
(***************************************************************************)
(* class GatherDir (lib/gatherdir) on a small file system: a function from *)
(* absolute paths to nodes.  A path is a sequence of names, "/" the empty  *)
(* one; a name is a sequence of parts, for two names that the program      *)
(* writes after each other without a separator are one name.               *)
(***************************************************************************)
EXTENDS Integers, SequencesExt

Names == Seq(STRING) \ {<<>>}
Paths == Seq(Names)

\* A link is a symbolic link to a directory, whose entries are the paths below it; "other"
\* is what exists without a size and cannot be opened, such as a socket.  A dangling link
\* leads to a file that is not there, in a directory that is, a broken one into a
\* directory that is not; what they lead to is at no path of its own.  Only files have
\* bytes, and data 0 is that of an empty one.
Kinds == {"dir", "link", "file", "other", "dangling", "broken"}
Nodes ==
  {node \in [kind : Kinds, data : Nat, size : Nat] :
     (node.data = 0 <=> node.size = 0) /\ (node.size > 0 => node.kind = "file")}

Empty(kind) == [kind |-> kind, data |-> 0, size |-> 0]
Dir      == Empty("dir")
Link     == Empty("link")
Other    == Empty("other")
Dangling == Empty("dangling")
Broken   == Empty("broken")
File(data, size) == [kind |-> "file", data |-> data, size |-> size]

Below(root, p) == Len(root) < Len(p) /\ IsPrefix(root, p)

Parent(p) == IF p = <<>> THEN p ELSE Front(p)

IsDirectory(fs, p) == p = <<>> \/ (p \in DOMAIN fs /\ fs[p].kind \in {"dir", "link"})

\* std::filesystem::exists() follows links.
Exists(fs, p) == p \in DOMAIN fs /\ fs[p].kind \notin {"dangling", "broken"}

\* Everything is in a directory.
IsFileSystem(fs) ==
  /\ DOMAIN fs \subseteq Paths /\ IsFiniteSet(DOMAIN fs) /\ fs \in [DOMAIN fs -> Nodes]
  /\ \A p \in DOMAIN fs : IsDirectory(fs, Parent(p))
  /\ <<>> \in DOMAIN fs => fs[<<>>].kind = "dir"

\* What a recursive_directory_iterator visits: it enters no links.
Visited(fs, root) ==
  {p \in DOMAIN fs : Below(root, p) /\
     ~\E q \in DOMAIN fs : Below(root, q) /\ Below(q, p) /\ fs[q].kind = "link"}

\* The orders in which it may: an entry, then all that is below it, siblings anyhow.
Orders(paths) ==
  {order \in SetToSeqs(paths) :
     \A i, j \in DOMAIN order : Below(order[i], order[j]) =>
       i < j /\ \A k \in i + 1 .. j : Below(order[i], order[k])}

\* The loop of set(), with the iterator visiting the paths in the given order.
Gather(fs, directories, assets, order) ==
  LET List(lists, p) == IF IsDirectory(fs, p)
                        THEN [lists EXCEPT !.directories = Append(@, p)]
                        ELSE [lists EXCEPT !.assets = Append(@, p)]
  IN  FoldLeft(List, [directories |-> directories, assets |-> assets], order)
===============================================================================
