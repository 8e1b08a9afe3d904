------------------------------ MODULE Worktree ------------------------------
(***************************************************************************)
(* What one task does to a worktree: the shape rule and the containment of *)
(* paths (paths.py), the preparation in implement (entrypoint.py), the one *)
(* file a reply may write (edits.py), and the whole-subtree captures and   *)
(* their restore (snapshot.py).                                            *)
(*                                                                         *)
(* The tree may be the caller's, with links and other files in it.  The    *)
(* model is external: it means to write some text at some path and frames  *)
(* it in any of the ways the rules card, its habits and its server allow.  *)
(* When the loop asks again and when it stops is module Loop's; here both  *)
(* are open.                                                               *)
(***************************************************************************)
EXTENDS ReplyText

CONSTANTS
  Trees,            \* the file systems a task may start in
  Root,             \* the real path of the worktree
  OracleName,       \* ORACLE_TEST_FILENAME
  OracleText,       \* TaskSpec.test_text
  Up, Dot, Slash,   \* "..", "." and a leading "/"
  Barred,           \* a name the system will not look up: too long, no access
  ImplPaths,        \* the spellings of impl_path a task may carry
  Replies,          \* what the model may mean: a path, a payload, a framing
  Scores,           \* how many tests an attempt may pass
  MaxAttempts,      \* BOUND
  Nowhere           \* no such path, or a refusal

VARIABLES
  impl,             \* TaskSpec.impl_path
  fs, before,       \* the file system now, and when the run began
  subtree,          \* SnapshotStore._subtree
  entries,          \* SnapshotStore._entries
  reply,            \* what the model meant and how it framed it
  attempts,
  pc

vars == <<impl, fs, before, subtree, entries, reply, attempts, pc>>

Dir == [kind |-> "dir"]
File(text) == [kind |-> "file", text |-> text]
Link(path) == [kind |-> "link", to |-> path]

Oracle == Append(Root, OracleName)

(* The names of the paths that occur. *)
Names ==
  {OracleName} \cup Range(Root) \cup UNION {Range(p) : p \in ImplPaths}
    \cup UNION {UNION {Range(p) : p \in DOMAIN tree} : tree \in Trees}

(* The worktree's path is real.  A link names a real path that is no link.   *)
WellFormed(tree) ==
  /\ DOMAIN tree \subseteq Seq(Names)
  /\ \A i \in 0..Len(Root) :
       SubSeq(Root, 1, i) \in DOMAIN tree /\ tree[SubSeq(Root, 1, i)] = Dir
  /\ \A p \in DOMAIN tree :
       \/ tree[p] = Dir
       \/ tree[p].kind = "file" /\ tree[p] = File(tree[p].text)
       \/ /\ tree[p].kind = "link" /\ tree[p].to \in Seq(Names)
          /\ tree[p].to \in DOMAIN tree => tree[tree[p].to].kind # "link"

ASSUME TreeAssumption ==
  \A tree \in Trees :
    /\ WellFormed(tree)
    /\ \A p \in DOMAIN tree :
         ~Contains(p, Barred) /\ (tree[p].kind = "link" => ~Contains(tree[p].to, Barred))

ASSUME PathAssumption ==
  /\ Root \in Seq(Names) /\ ~Contains(Root, Up)
  /\ \A p \in ImplPaths : p \in Seq(Names)
  /\ Nowhere \notin Seq(Names)

Tokens == Markup \cup Names \cup UNION {Range(r.payload) : r \in Replies}

(* The path of a task fits on a header line and encodes, and no part of it   *)
(* is markup of a transcript.  At most one blank line follows the header.    *)
ASSUME ReplyAssumption ==
  /\ \A p \in ImplPaths : \A t \in {Nl, Cr, Final, Return, End, Surrogate} : ~Contains(p, t)
  /\ \A r \in Replies :
       /\ r.payload \in Seq(Tokens)
       /\ r.framing.lead \in Nat /\ r.framing.blank \in 0..1 /\ r.framing.trail \in Nat
       /\ r.framing.fence \in {"none", "bare", "info"}
       /\ r.framing.channel \in {"none", "final", "revised", "unfinished"}
  /\ NoReply \notin [path : Seq(Tokens), payload : Seq(Tokens)]

ASSUME ScoresAssumption == Scores \subseteq Nat

-----------------------------------------------------------------------------
(* The file system, external: real paths to nodes, <<>> the top.  A link     *)
(* names a real path.                                                        *)

Enter(tree, dir, name) ==
  IF dir \notin DOMAIN tree \/ tree[dir].kind # "dir" THEN Nowhere
  ELSE IF name = Up THEN (IF dir = <<>> THEN dir ELSE Front(dir))
  ELSE LET p == Append(dir, name)
       IN  IF p \notin DOMAIN tree THEN Nowhere
           ELSE IF tree[p].kind # "link" THEN p
           ELSE IF tree[p].to \in DOMAIN tree THEN tree[p].to ELSE Nowhere

(* Path.resolve(strict=True) *)
Real(tree, path) ==
  LET at[i \in 0..Len(path)] ==
        IF i = 0 THEN <<>>
        ELSE IF at[i - 1] = Nowhere THEN Nowhere ELSE Enter(tree, at[i - 1], path[i])
  IN  at[Len(path)]

is_symlink(tree, path) ==
  LET dir == Real(tree, Front(path))
      p == Append(dir, Last(path))
  IN  dir # Nowhere /\ p \in DOMAIN tree /\ tree[p].kind = "link"

(* Path.mkdir(parents=True, exist_ok=True): the tree after it, or Nowhere. *)
Mkdirs(tree, path) ==
  LET after[i \in 0..Len(path)] ==
        IF i = 0 THEN tree
        ELSE LET made == after[i - 1]
                 dir == IF made = Nowhere THEN Nowhere ELSE Real(made, SubSeq(path, 1, i - 1))
                 p == Append(dir, path[i])
                 at == Enter(made, dir, path[i])
             IN  IF dir = Nowhere \/ made[dir] # Dir \/ path[i] = Barred THEN Nowhere
                 ELSE IF p \notin DOMAIN made
                      THEN [q \in DOMAIN made \cup {p} |-> IF q = p THEN Dir ELSE made[q]]
                 ELSE IF at = Nowhere \/ made[at] # Dir THEN Nowhere ELSE made
  IN  after[Len(path)]

(* Where a write lands: it follows a link in the last segment. *)
Landing(tree, path) ==
  IF path \in DOMAIN tree /\ tree[path].kind = "link" THEN tree[path].to ELSE path

(* A directory is there, or none that could hold a new file of this name. *)
Unwritable(tree, path) ==
  LET p == Landing(tree, path)
  IN  IF p \in DOMAIN tree THEN tree[p] = Dir
      ELSE ~(Front(p) \in DOMAIN tree /\ tree[Front(p)] = Dir /\ Last(p) # Barred)

(* write_bytes *)
Write(tree, path, text) ==
  LET p == Landing(tree, path)
  IN  [q \in DOMAIN tree \cup {p} |-> IF q = p THEN File(text) ELSE tree[q]]

Under(tree, dir) == {p \in DOMAIN tree : IsStrictPrefix(dir, p)}

(* is_file follows links too. *)
is_file(tree, p) ==
  \/ tree[p].kind = "file"
  \/ tree[p].kind = "link" /\ tree[p].to \in DOMAIN tree /\ tree[tree[p].to].kind = "file"
read_bytes(tree, p) == IF tree[p].kind = "link" THEN tree[tree[p].to].text ELSE tree[p].text

-----------------------------------------------------------------------------
(* Paths. *)

(* pathlib drops every "." segment. *)
parts(path) == SelectSeq(path, LAMBDA s : s # Dot)
is_absolute(path) == path # <<>> /\ Head(path) = Slash

(* MUTANT: a ".." segment is let through. *)
require_nested_relative_file_climbs(path) ==
  ~is_absolute(path) /\ Len(parts(path)) >= 2 /\ path = parts(path)

(* require_nested_relative_file: relative, nested, normalised, no climb. *)
require_nested_relative_file(path) ==
  /\ ~is_absolute(path)
  /\ Len(parts(path)) >= 2
  /\ path = parts(path)
  /\ ~Contains(path, Up)

(* resolve_within: the real target inside the root, or a refusal. *)
resolve_within(tree, path) ==
  LET raw == Root \o parts(path)
      parent == Real(tree, Front(raw))
      target == IF Real(tree, raw) # Nowhere THEN Real(tree, raw)
                ELSE IF parent = Nowhere THEN Nowhere
                ELSE Append(parent, Last(raw))
  IN  IF \/ path = <<>> \/ is_absolute(path)
         \/ is_symlink(tree, raw)
         \/ target = Nowhere
         \/ ~IsPrefix(Root, target)
      THEN Nowhere ELSE target

(* apply_file: only the permitted path may be written. *)
writable_target(tree, path) ==
  LET permitted == resolve_within(tree, impl)
  IN  IF permitted # Nowhere /\ resolve_within(tree, path) = permitted
      THEN permitted ELSE Nowhere

-----------------------------------------------------------------------------
(* EXTERNAL: what the model sends for a file it means to write. *)

Repeat(token, n) == [i \in 1..n |-> token]

Framed(path, payload, f) ==
  Repeat(Nl, f.lead) \o <<FilePrefix>> \o path
    \o (IF f.crlf THEN <<Cr, Nl>> ELSE <<Nl>>)
    \o Repeat(Nl, f.blank)
    \o (CASE f.fence = "none" -> payload
          [] f.fence = "bare" -> <<Fence, Nl>> \o payload \o <<Fence>> \o Repeat(Nl, f.trail)
          [] f.fence = "info" -> <<Fence, Info, Nl>> \o payload \o <<Fence>> \o Repeat(Nl, f.trail))

(* The server may leak the transcript; the model may revise itself in it. *)
Sent(path, payload, f) ==
  CASE f.channel = "none" -> Framed(path, payload, f)
    [] f.channel = "final" -> <<Analysis, End, Final>> \o Framed(path, payload, f) \o <<Return>>
    [] f.channel = "revised" -> <<Final>> \o Framed(path, <<Info>>, f) \o <<End, Final>>
                                  \o Framed(path, payload, f) \o <<Return>>
    [] f.channel = "unfinished" -> <<Analysis>> \o Framed(path, payload, f)

-----------------------------------------------------------------------------
Init ==
  /\ impl \in ImplPaths
  /\ fs \in Trees /\ before = fs
  /\ subtree = Nowhere /\ entries = <<>> /\ reply = NoReply /\ attempts = 0
  /\ pc = "begin"

(* _writable_subtree: a ValueError before anything is touched. *)
RefuseShape ==
  /\ pc = "begin" /\ ~require_nested_relative_file(impl)
  /\ pc' = "rejected"
  /\ UNCHANGED <<impl, fs, before, subtree, entries, reply, attempts>>

prepared == Mkdirs(fs, Root \o Front(impl))

(* The parent of impl_path cannot be made: an OSError, and what could be     *)
(* made above it stays.                                                      *)
MkdirRaises ==
  /\ pc = "begin" /\ require_nested_relative_file(impl)
  /\ prepared = Nowhere
  /\ LET made(i) == Mkdirs(fs, Root \o SubSeq(impl, 1, i))
     IN  \E i \in 0..Len(impl) - 2 : made(i) # Nowhere /\ made(i + 1) = Nowhere /\ fs' = made(i)
  /\ pc' = "raised"
  /\ UNCHANGED <<impl, before, subtree, entries, reply, attempts>>

(* SnapshotStore refuses its subtree, after the directories were made. *)
RefuseEscape ==
  /\ pc = "begin" /\ require_nested_relative_file(impl)
  /\ prepared # Nowhere /\ resolve_within(prepared, <<Head(impl)>>) = Nowhere
  /\ fs' = prepared
  /\ pc' = "rejected"
  /\ UNCHANGED <<impl, before, subtree, entries, reply, attempts>>

(* A directory has the oracle's name, impl_path's own perhaps, or a link of  *)
(* that name leads to one: the store is made, and the loop's first write is  *)
(* an OSError.                                                               *)
OracleRaises ==
  /\ pc = "begin" /\ require_nested_relative_file(impl)
  /\ prepared # Nowhere /\ resolve_within(prepared, <<Head(impl)>>) # Nowhere
  /\ Unwritable(prepared, Oracle)
  /\ fs' = prepared
  /\ pc' = "raised"
  /\ UNCHANGED <<impl, before, subtree, entries, reply, attempts>>

(* The store is made and the loop writes the oracle test to the root, or to  *)
(* where a link of its name leads.                                           *)
Begin ==
  /\ pc = "begin" /\ require_nested_relative_file(impl)
  /\ prepared # Nowhere /\ resolve_within(prepared, <<Head(impl)>>) # Nowhere
  /\ ~Unwritable(prepared, Oracle)
  /\ subtree' = resolve_within(prepared, <<Head(impl)>>)
  /\ fs' = Write(prepared, Oracle, OracleText)
  /\ pc' = "attempt"
  /\ UNCHANGED <<impl, before, entries, reply, attempts>>

(* One generation comes back. *)
Generate ==
  /\ pc = "attempt" /\ attempts < MaxAttempts
  /\ \E r \in Replies :
       reply' = [meant |-> r,
                 file |-> extract_file(assistant_content(Sent(r.path, r.payload, r.framing)))]
  /\ attempts' = attempts + 1
  /\ pc' = "apply"
  /\ UNCHANGED <<impl, fs, before, subtree, entries>>

aim == IF reply.file = NoReply THEN Nowhere ELSE writable_target(fs, reply.file.path)

(* No frame, or a path that is not the permitted one: nothing is written. *)
Refuse ==
  /\ pc = "apply" /\ aim = Nowhere
  /\ pc' = "refused"
  /\ UNCHANGED <<impl, fs, before, subtree, entries, reply, attempts>>

(* resolve_within looks up both paths first.  An OSError of is_symlink or    *)
(* exists is no refusal, and not every Python raises it.                     *)
LookupRaises ==
  /\ pc = "apply" /\ reply.file # NoReply
  /\ \/ Contains(impl, Barred)
     \/ ~is_absolute(reply.file.path) /\ Contains(reply.file.path, Barred)
  /\ pc' = "raised"
  /\ UNCHANGED <<impl, fs, before, subtree, entries, reply, attempts>>

Apply ==
  /\ pc = "apply" /\ aim # Nowhere
  /\ IF Unwritable(fs, aim)
       THEN pc' = "raised" /\ UNCHANGED fs
       ELSE pc' = "written" /\ fs' = Write(fs, aim, reply.file.payload)
  /\ UNCHANGED <<impl, before, subtree, entries, reply, attempts>>

Captured(tree) ==
  [p \in {q \in Under(tree, subtree) : is_file(tree, q)} |-> read_bytes(tree, p)]

(* SnapshotStore.record: every file of the subtree, links to files included. *)
Record ==
  /\ pc = "written"
  /\ \E n \in Scores : entries' = Append(entries, [passed |-> n, files |-> Captured(fs)])
  /\ reply' = NoReply /\ pc' = "attempt"
  /\ UNCHANGED <<impl, fs, before, subtree, attempts>>

(* A refused attempt may be corrected. *)
AskAgain ==
  /\ pc = "refused"
  /\ reply' = NoReply /\ pc' = "attempt"
  /\ UNCHANGED <<impl, fs, before, subtree, entries, attempts>>

(* SnapshotStore.best: most passed, the earliest of those.  The whole rank   *)
(* is ranks_before of module Loop.                                           *)
best ==
  entries[CHOOSE i \in DOMAIN entries :
            \A j \in DOMAIN entries :
              \/ entries[i].passed > entries[j].passed
              \/ entries[i].passed = entries[j].passed /\ i <= j]

Without(tree, gone) == [p \in DOMAIN tree \ gone |-> tree[p]]

(* MUTANT: what a worse attempt left is removed, but not overwritten. *)
Restored_unwritten(tree, files) ==
  Without(tree, {p \in Under(tree, subtree) : is_file(tree, p) /\ p \notin DOMAIN files})

(* restore_best, the files: write the capture, through a link where one is   *)
(* captured as a file, and remove every other file.                          *)
Restored(tree, files) ==
  LET target(p) == Landing(tree, p)
      targets == {target(p) : p \in DOMAIN files}
      text(t) == files[CHOOSE p \in DOMAIN files : target(p) = t]
      written == [p \in DOMAIN tree \cup targets |->
                    IF p \in targets THEN File(text(p)) ELSE tree[p]]
  IN  Without(written, {p \in Under(written, subtree) :
                          is_file(written, p) /\ p \notin DOMAIN files})

(* _prune_empty_dirs, deepest first: every directory with nothing but        *)
(* directories below it, whether or not the restore emptied it.              *)
Empty(tree) ==
  {p \in Under(tree, subtree) : tree[p] = Dir /\ \A q \in Under(tree, p) : tree[q] = Dir}

LinksToDir(tree) ==
  {p \in Under(tree, subtree) :
     tree[p].kind = "link" /\ tree[p].to \in DOMAIN tree /\ tree[tree[p].to] = Dir}

(* A link to a directory that is empty when the pruning reaches the link     *)
(* looks like one, and rmdir refuses it.  A directory is gone before a       *)
(* shallower link to it is reached, and is still there for a deeper one.     *)
Hollow(tree) ==
  {p \in LinksToDir(tree) :
     LET to == tree[p].to
     IN  Under(tree, to) = {} /\ (to \notin Empty(tree) \/ Len(to) < Len(p))}

(* Where the link, the directory or its children are equally deep, it is the *)
(* order in which they are listed that decides.                              *)
Chancy(tree) ==
  {p \in LinksToDir(tree) :
     LET to == tree[p].to
     IN  /\ to \in Empty(tree)
         /\ Len(to) = Len(p) \/ (Len(to) = Len(p) - 1 /\ Under(tree, to) # {})}

(* The loop ends: _finish restores, a no-op where nothing was scored. *)
Finish ==
  /\ pc \in {"attempt", "refused"}
  /\ LET restored == Restored(fs, best.files)
     IN  \/ entries = <<>> /\ pc' = "returned" /\ UNCHANGED fs
         \/ /\ entries # <<>> /\ Hollow(restored) = {}
            /\ pc' = "returned" /\ fs' = Without(restored, Empty(restored))
         \/ /\ entries # <<>> /\ Hollow(restored) \cup Chancy(restored) # {}
            /\ pc' = "raised"
            /\ \E gone \in SUBSET Empty(restored) : fs' = Without(restored, gone)
  /\ UNCHANGED <<impl, before, subtree, entries, reply, attempts>>

Ended == pc \in {"rejected", "raised", "returned"} /\ UNCHANGED vars

Next ==
  \/ RefuseShape \/ MkdirRaises \/ RefuseEscape \/ OracleRaises \/ Begin
  \/ Generate \/ Refuse \/ LookupRaises \/ Apply \/ Record \/ AskAgain \/ Finish \/ Ended

Spec == Init /\ [][Next]_vars

-----------------------------------------------------------------------------
(* Properties. *)

FilesOf(tree) == {p \in DOMAIN tree : tree[p] # Dir}

(* Where impl_path leads, and where a file of the oracle's name is written;  *)
(* the files the run may touch once it has begun.                            *)
Named == LET dir == Real(fs, Root \o Front(impl)) IN Append(dir, Last(impl))
OracleFile == Landing(before, Oracle)
Own == IF subtree = Nowhere THEN {}
       ELSE {OracleFile} \cup {p \in {Named} : IsPrefix(Root, p)}

(* No link leads back to the worktree or to a directory above it, and none   *)
(* has the oracle's name.                                                    *)
Direct(tree) ==
  /\ \A p \in DOMAIN tree : tree[p].kind = "link" => ~IsPrefix(tree[p].to, Root)
  /\ Oracle \in DOMAIN tree => tree[Oracle].kind # "link"

(* The keep-only boundary: whatever the task names, the reply says and the   *)
(* restore removes, no file and no link other than the implementation and    *)
(* the oracle test is ever created, changed or removed, in the worktree or   *)
(* outside it (resolve_within, apply_file, restore_best).  Where a link of   *)
(* the caller's has the oracle's name, the file it leads to, wherever that   *)
(* is, takes the oracle test instead.  The oracle test is the task's own     *)
(* from the first attempt to the end, unless links of the caller's make it   *)
(* and the implementation one file.                                          *)
OnlyImplChanges ==
  /\ \A p \in (FilesOf(before) \cup FilesOf(fs)) \ Own :
       p \in DOMAIN before /\ p \in DOMAIN fs /\ fs[p] = before[p]
  /\ subtree # Nowhere /\ (Named # OracleFile \/ Direct(before))
       => fs[OracleFile] = File(OracleText)

(* What a framing cannot carry: a file that begins with a blank line and no  *)
(* blank line before it, a file that is itself one whole fence, a last line  *)
(* without its newline or a lone newline inside a fence, channel markup      *)
(* inside a leaked transcript, and what does not encode.                     *)
Carries(f, payload) ==
  /\ ~f.crlf /\ f.channel # "unfinished" /\ ~Contains(payload, Surrogate)
  /\ f.fence = "none" =>
       /\ unwrap_fence(payload) = payload
       /\ f.blank = 1 \/ payload = <<>> \/ Head(payload) # Nl
  /\ f.fence # "none" => payload = <<>> \/ (Last(payload) = Nl /\ payload # <<Nl>>)
  /\ f.channel # "none" => \A t \in {Final, Return, End} : ~Contains(payload, t)

(* A framing the model may reasonably use costs it nothing: a reply that     *)
(* names impl_path as the task spells it is written, byte for byte as meant, *)
(* however it is led in, fenced or wrapped in a transcript (extract_file,    *)
(* assistant_content, apply_file).                                           *)
WrittenAsMeant ==
  (/\ pc \in {"written", "refused"}
   /\ reply.meant.path = impl
   /\ Carries(reply.meant.framing, reply.meant.payload))
    => IF resolve_within(fs, impl) = Nowhere THEN pc = "refused"
       ELSE pc = "written" /\ fs[Named] = File(reply.meant.payload)

(* A run that returns leaves exactly the files of its best attempt in the    *)
(* writable subtree, byte for byte (restore_best).                           *)
RestoreIsExact ==
  (pc = "returned" /\ entries # <<>>) => Captured(fs) = best.files
=============================================================================
