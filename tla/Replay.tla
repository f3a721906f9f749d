------------------------------- MODULE Replay -------------------------------
(***************************************************************************)
(* The replay of recorded actions by configure_all of the generated        *)
(* program, as nob_codegen_replay.c writes it: the actions of the          *)
(* configure phase, in the order they were recorded, up to the first that  *)
(* fails. A marker of no operation fails.                                  *)
(***************************************************************************)
EXTENDS FileCommands

MaxReplayLocks == 64

\* bm_query_session_replay_operands: generator expressions in the text of an
\* action have their value when the program is written.
Evaluated(text) == [k \in DOMAIN text |-> IF text[k].form = "genex" THEN Chunk("plain", text[k].name) ELSE text[k]]

\* ensure_dir and ensure_parent_dir
Ensured(acc, p) ==
    IF ~CanMkdir(acc.disk, p) THEN [acc EXCEPT !.ok = FALSE] ELSE [acc EXCEPT !.disk = Mkdir(@, p)]
Require(acc, cond, disk) == IF acc.ok /\ cond THEN [acc EXCEPT !.disk = disk] ELSE [acc EXCEPT !.ok = FALSE]

\* replay_apply_mode and replay_apply_tree_modes
ModeApplied(d, p, mode) == WithMode(d, p, mode)
TreeModes(d, p, mode) ==
    IF mode = "" THEN d ELSE [q \in DOMAIN d |-> IF IsPrefix(p, q) THEN [d[q] EXCEPT !.mode = mode] ELSE d[q]]

\* replay_write_text and replay_append_text
ReplayWrite(acc, a) ==
    LET s == Ensured(acc, Front(a.outs[1]))
        p == a.outs[1]
        old == IF a.op = "FS_APPEND_TEXT" /\ IsFileAt(s.disk, p) THEN TextAt(s.disk, p) ELSE <<>>
    IN  IF ~s.ok \/ ~CanWrite(s.disk, p) THEN [s EXCEPT !.ok = FALSE]
        ELSE LET d == Put(s.disk, p, old \o Evaluated(a.text))
             IN  [s EXCEPT !.disk = IF a.op = "FS_WRITE_TEXT" THEN ModeApplied(d, p, a.args[1]) ELSE d]

\* replay_copy_file_with_mode, replay_copy_tree_with_modes
ReplayCopy(acc, a) ==
    LET s == Ensured(acc, Front(a.outs[1]))
        p == a.ins[1]
        q == a.outs[1]
    IN  IF ~s.ok \/ ~CanCopyEntry(s.disk, p, q) THEN [s EXCEPT !.ok = FALSE]
        ELSE LET d == CopyEntry(s.disk, p, q)
             IN  [s EXCEPT !.disk = IF a.op = "FS_COPY_TREE" THEN TreeModes(d, q, a.args[1]) ELSE ModeApplied(d, q, a.args[1])]

\* replay_remove_path of each path; a link is removed itself.
ReplayRemove(acc, a) ==
    FoldLeft(LAMBDA s, p : RemoveOne(s, p, a.op = "FS_REMOVE_RECURSE"), acc, a.outs)

\* replay_rename_path: with RESULT a rename that fails is passed over.
ReplayRename(acc, a) ==
    LET s == Ensured(acc, Front(a.outs[1]))
    IN  IF ~s.ok \/ (a.args[1] = "1" /\ IsThere(s.disk, a.outs[1])) THEN s
        ELSE IF CanRename(s.disk, a.ins[1], a.outs[1]) THEN [s EXCEPT !.disk = Rename(@, a.ins[1], a.outs[1])]
        ELSE [s EXCEPT !.ok = a.args[2] = "1"]

\* replay_create_link_path. The path of a symbolic link's target was made
\* relative to the program, not to the link, and leads nowhere.
ReplayLink(acc, a) ==
    LET s == Ensured(acc, Front(a.outs[1]))
        m == LinkMade(s.disk, a.ins[1], a.outs[1], a.args[1] = "1", a.args[2] = "1")
    IN  IF ~s.ok THEN s
        ELSE IF ~m.ok THEN [s EXCEPT !.ok = a.args[3] = "1"]
        ELSE [s EXCEPT !.disk = IF a.args[1] = "1" THEN With(@, a.outs[1], LinkTo(<<"..">> \o a.ins[1])) ELSE m.disk]

\* replay_chmod_path
ReplayChmod(acc, a) ==
    FoldLeft(LAMBDA s, p : ChmodOne(s, p, a.op = "FS_CHMOD_RECURSE", a.args[1]), acc, a.outs)

\* replay_download_local
ReplayDownload(acc, a) ==
    LET s == Ensured(acc, Front(a.outs[1]))
    IN  IF ~s.ok \/ ~IsFileAt(s.disk, a.ins[1]) \/ ~CanWrite(s.disk, a.outs[1]) THEN [s EXCEPT !.ok = FALSE]
        ELSE [s EXCEPT !.disk = PutCopy(@, a.ins[1], Follow(@, a.outs[1]), @),
                       !.ok = a.args[1] = "SHA256" => TextAt(s.disk, a.ins[1]) = a.text]

\* replay_archive_create_paxr and replay_archive_extract_tar
ReplayArchive(acc, a) ==
    LET s == Ensured(acc, Front(a.outs[1]))
        t == Ensured(acc, a.outs[1])
    IN  IF a.op = "HOST_ARCHIVE_CREATE_PAXR"
        THEN Require(s, CanWrite(s.disk, a.outs[1]) /\ \A k \in DOMAIN a.ins : IsThere(s.disk, a.ins[k]),
                     With(s.disk, a.outs[1], ArchiveOf(Packed(s.disk, a.ins))))
        ELSE IF ~t.ok \/ ~IsFileAt(t.disk, a.ins[1]) THEN [t EXCEPT !.ok = FALSE]
        ELSE [t EXCEPT !.disk = Unpacked(@, a.outs[1], @[Follow(@, a.ins[1])].members)]

\* replay_lock_acquire and replay_lock_release: a lock held already is fine, and
\* so is the release of one that is not.
ReplayLock(acc, a) ==
    LET s == Ensured(acc, Front(a.outs[1]))
        p == a.outs[1]
    IN  IF a.op = "HOST_LOCK_RELEASE" THEN [acc EXCEPT !.locks = @ \ {p}]
        ELSE IF ~s.ok \/ p \in s.locks THEN s
        ELSE IF Cardinality(s.locks) >= MaxReplayLocks \/ ~CanWrite(s.disk, p) THEN [s EXCEPT !.ok = FALSE]
        ELSE [s EXCEPT !.locks = @ \cup {p}, !.disk = IF Exists(@, p) THEN @ ELSE Put(@, p, <<>>)]

\* The switch of cg_emit_configure_functions: the operations on files, and those
\* on the host. An action that failed ends the replay.
ReplayFile(acc, a) ==
    CASE a.op = "FS_MKDIR" -> FoldLeft(LAMBDA s, p : IF s.ok THEN Ensured(s, p) ELSE s, acc, a.outs)
      [] a.op \in {"FS_WRITE_TEXT", "FS_APPEND_TEXT"} -> ReplayWrite(acc, a)
      [] a.op \in {"FS_COPY_FILE", "FS_COPY_TREE"} -> ReplayCopy(acc, a)
      [] a.op \in {"FS_REMOVE", "FS_REMOVE_RECURSE"} -> ReplayRemove(acc, a)
      [] a.op = "FS_RENAME" -> ReplayRename(acc, a)
      [] a.op = "FS_CREATE_LINK" -> ReplayLink(acc, a)
      [] a.op \in {"FS_CHMOD", "FS_CHMOD_RECURSE"} -> ReplayChmod(acc, a)
ReplayHost(acc, a) ==
    CASE a.op = "HOST_DOWNLOAD_LOCAL" -> ReplayDownload(acc, a)
      [] a.op \in {"HOST_ARCHIVE_CREATE_PAXR", "HOST_ARCHIVE_EXTRACT_TAR"} -> ReplayArchive(acc, a)
      [] a.op \in {"HOST_LOCK_ACQUIRE", "HOST_LOCK_RELEASE"} -> ReplayLock(acc, a)
      [] OTHER -> [acc EXCEPT !.ok = FALSE]
FileOps == {"FS_MKDIR", "FS_WRITE_TEXT", "FS_APPEND_TEXT", "FS_COPY_FILE", "FS_COPY_TREE", "FS_REMOVE",
            "FS_REMOVE_RECURSE", "FS_RENAME", "FS_CREATE_LINK", "FS_CHMOD", "FS_CHMOD_RECURSE"}
ReplayAction(acc, a) ==
    IF ~acc.ok THEN acc ELSE IF a.op \in FileOps THEN ReplayFile(acc, a) ELSE ReplayHost(acc, a)

\* The actions the program has, and what configure_all makes of them.
ConfigureActions == SelectSeq(stream, LAMBDA e : e.type = "REPLAY" /\ e.phase = "CONFIGURE")
ReplayAll(actions, disk) == FoldLeft(ReplayAction, [ok |-> TRUE, disk |-> disk, locks |-> {}], actions)

=============================================================================
