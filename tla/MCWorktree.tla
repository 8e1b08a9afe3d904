----------------------------- MODULE MCWorktree -----------------------------
(***************************************************************************)
(* Two attempts in worktrees that hold links, another file and an empty    *)
(* directory, for every way of spelling a path in the list.                *)
(***************************************************************************)
EXTENDS Worktree, TLC

CONSTANTS w, out, src, impl_py, other, pkg, alias, away, deep, code, seed

TaskRoot == <<w>>

(* A bare temp directory, and a caller's tree: src/alias leads back to src,  *)
(* src/away out of the worktree, src/deep to a file there; pkg is empty.     *)
Bare == (<<>> :> Dir) @@ (<<w>> :> Dir)

Callers ==
  Bare @@ (<<out>> :> Dir) @@ (<<out, other>> :> File(<<seed>>))
    @@ (<<w, other>> :> File(<<seed>>)) @@ (<<w, src>> :> Dir)
    @@ (<<w, away>> :> Link(<<out>>))
    @@ (<<w, src, impl_py>> :> File(<<seed>>)) @@ (<<w, src, other>> :> File(<<seed, Nl>>))
    @@ (<<w, src, alias>> :> Link(<<w, src>>)) @@ (<<w, src, away>> :> Link(<<out>>))
    @@ (<<w, src, deep>> :> Link(<<out, other>>)) @@ (<<w, src, pkg>> :> Dir)

(* src/pkg leads to an empty directory: outside, or beside it in src. *)
Hollowed ==
  Bare @@ (<<out>> :> Dir) @@ (<<w, src>> :> Dir) @@ (<<w, src, pkg>> :> Link(<<out>>))
Paired ==
  Bare @@ (<<w, src>> :> Dir) @@ (<<w, src, deep>> :> Dir)
    @@ (<<w, src, pkg>> :> Link(<<w, src, deep>>))

(* src/alias leads back to the worktree. *)
Circled == Bare @@ (<<w, src>> :> Dir) @@ (<<w, src, alias>> :> Link(<<w>>))

(* A link has the oracle's name: to a file or a missing file outside, to the *)
(* implementation, to a file src does not have yet, to a directory.          *)
Linked(to) ==
  Bare @@ (<<out>> :> Dir) @@ (<<out, other>> :> File(<<seed>>)) @@ (<<w, src>> :> Dir)
    @@ (<<w, src, impl_py>> :> File(<<seed>>)) @@ (<<w, OracleName>> :> Link(to))

TaskTrees ==
  {Bare, Callers, Hollowed, Paired, Circled}
    \cup {Linked(to) : to \in {<<out, other>>, <<out, impl_py>>, <<w, src, impl_py>>,
                               <<w, src, other>>, <<w, src, pkg>>, <<out>>, <<pkg, other>>}}

TaskImplPaths ==
  {<<src, impl_py>>, <<src, alias, impl_py>>, <<src, away, impl_py>>, <<src, deep>>,
   <<src, pkg>>, <<src, other, impl_py>>, <<away, impl_py>>,
   <<impl_py>>, <<Slash, src, impl_py>>, <<src, Dot, impl_py>>, <<src, Up, OracleName>>,
   <<OracleName, impl_py>>, <<src, alias, OracleName>>, <<src, Barred>>, <<pkg, Barred, impl_py>>}

TaskReplyPaths ==
  {<<src, impl_py>>, <<src, Dot, impl_py>>, <<src, Up, src, impl_py>>, <<src, alias, impl_py>>,
   <<src, away, impl_py>>, <<src, other>>, <<src, pkg>>, <<src, deep>>, <<OracleName>>,
   <<Slash, w, src, impl_py>>, <<src, Barred>>}

TaskPayloads ==
  {<<>>, <<code>>, <<code, Nl>>, <<Nl, code, Nl>>, <<Fence, Nl, code, Nl, Fence, Nl>>,
   <<code, Nl, Return, Nl>>, <<Nl>>, <<Fence, Nl, code>>, <<code, Surrogate, Nl>>}

TaskFramings ==
  {f \in [lead : 0..1, crlf : BOOLEAN, blank : 0..1, fence : {"none", "bare", "info"},
          trail : {0, 2}, channel : {"none", "final", "revised", "unfinished"}] :
     /\ f.fence = "none" => f.trail = 0
     /\ f.crlf \/ f.channel = "unfinished" => f.lead + f.blank + f.trail = 0}

Plain == [lead |-> 0, crlf |-> FALSE, blank |-> 1, fence |-> "none", trail |-> 0, channel |-> "none"]

(* Every framing of every payload at the path most tasks name; every other   *)
(* spelling in the framing the rules card asks for.                          *)
TaskReplies ==
  {[path |-> <<src, impl_py>>, payload |-> p, framing |-> f] : p \in TaskPayloads, f \in TaskFramings}
    \cup {[path |-> q, payload |-> <<code, Nl>>, framing |-> Plain] : q \in TaskReplyPaths}
=============================================================================
