---------------------------- MODULE FileCommands ----------------------------
(***************************************************************************)
(* file() and the commands like it, as the session runs them: what they do *)
(* to the file tree at once, and the replay action they record so that the *)
(* generated program does it again. The tree is not part of a transaction, *)
(* the recorded action is.                                                 *)
(*                                                                         *)
(* The paths of a command are those its arguments resolve to. The events   *)
(* that only trace what was done are left out: nobody reads them.          *)
(***************************************************************************)
EXTENDS SessionCommands, TLC

-----------------------------------------------------------------------------
(* Reading: eval_file_rw.c and eval_file_fsops.c.                          *)

Slice(text, from, count) ==
    SubSeq(text, from + 1, IF count = None THEN Len(text) ELSE IF from + count < Len(text) THEN from + count ELSE Len(text))

\* file(READ): an offset past the end reads nothing.
FileRead(c) ==
    Leaf(c, "file_read",
         DoneIf(IsFileAt(world.disk, c.path), Set(now, c.var, Slice(TextAt(world.disk, c.path), c.offset, c.limit))))

\* file(STRINGS): the chunks are the lines, c.matches the ones the expression
\* matches. Of the lines let through, the first c.count are kept.
StringsKept(c, text) ==
    LET lines == SelectSeq(text, LAMBDA x : Len(x.name) > 0 /\ Len(x.name) >= c.min /\ Len(x.name) <= c.max /\ x.name \in c.matches)
    IN  SubSeq(lines, 1, IF Len(lines) > c.count THEN c.count ELSE Len(lines))
FileStrings(c) ==
    Leaf(c, "file_strings",
         DoneIf(c.min <= c.max /\ IsFileAt(world.disk, c.path), Set(now, c.var, StringsKept(c, TextAt(world.disk, c.path)))))

\* file(SIZE), file(TIMESTAMP) and file(<hash>) ask about a file that is there.
FileAsk(c) ==
    Leaf(c, "file_ask",
         DoneIf(IF c.sub = "HASH" THEN IsFileAt(world.disk, c.path) ELSE Exists(world.disk, c.path),
                Set(now, c.var, IF c.sub = "SIZE" THEN ToString(Len(TextAt(world.disk, c.path)))
                                ELSE <<c.sub, TextAt(world.disk, c.path)>>)))

\* file(READ_SYMLINK)
FileReadSymlink(c) ==
    Leaf(c, "file_read_symlink",
         DoneIf(c.path \in DOMAIN world.disk /\ world.disk[c.path].kind = "link", Set(now, c.var, world.disk[c.path].target)))

\* file(REAL_PATH) follows links when CMP0152 is new; file(RELATIVE_PATH) drops
\* what the paths share and climbs from the rest.
FileRealPath(c) == Leaf(c, "file_real_path", Done(Set(now, c.var, Follow(world.disk, c.path))))
Relative(path, dir) ==
    LET shared == Max({n \in 0..Len(dir) : n <= Len(path) /\ SubSeq(dir, 1, n) = SubSeq(path, 1, n)})
    IN  [k \in 1..(Len(dir) - shared) |-> ".."] \o SubSeq(path, shared + 1, Len(path))
FileRelativePath(c) == Leaf(c, "file_relative_path", Done(Set(now, c.var, Relative(c.path, c.dir))))

-----------------------------------------------------------------------------
(* Writing: eval_file_rw.c and eval_file_fsops.c.                          *)

\* file(MAKE_DIRECTORY): the directories before the one that fails stay.
MakeDirectories(d, paths) ==
    FoldLeft(LAMBDA acc, p : IF acc.ok /\ CanMkdir(acc.disk, p) THEN [acc EXCEPT !.disk = Mkdir(@, p)]
                             ELSE [acc EXCEPT !.ok = FALSE],
             [ok |-> TRUE, disk |-> d], paths)
FileMakeDirectory(c) ==
    LET made == MakeDirectories(world.disk, c.paths)
    IN  Leaf(c, "file_make_directory",
             Effect(made.ok, now, made.disk, <<Action("FS_MKDIR", FilesystemPhase, <<>>, c.paths, <<>>, <<>>)>>))

\* An append recorded as a write.
FileAppendOverwrites(c) ==
    LET d  == WithParent(world.disk, c.path)
        old == IF Exists(d, c.path) THEN TextAt(d, c.path) ELSE <<>>
    IN  Leaf(c, "file_append",
             Effect(TRUE, now, Put(d, c.path, old \o c.text), <<WriteText(FilesystemPhase, c.path, c.text, "")>>))

\* file(APPEND)
FileAppend(c) ==
    LET d  == IF CanMkdir(world.disk, Front(c.path)) THEN WithParent(world.disk, c.path) ELSE world.disk
        ok == CanMkdir(world.disk, Front(c.path)) /\ CanWrite(d, c.path)
        old == IF Exists(d, c.path) THEN TextAt(d, c.path) ELSE <<>>
    IN  Leaf(c, "file_append",
             Effect(ok, now, IF ok THEN Put(d, c.path, old \o c.text) ELSE d,
                    <<Action("FS_APPEND_TEXT", FilesystemPhase, <<>>, <<c.path>>, c.text, <<>>)>>))

\* file(RENAME): the directory of the new name is made first. A rename that
\* fails is an error or, with RESULT, a value and no action.
Flag(b) == IF b THEN "1" ELSE "0"
FileRename(c) ==
    LET d      == IF CanMkdir(world.disk, Front(c.new)) THEN WithParent(world.disk, c.new) ELSE world.disk
        act    == Action("FS_RENAME", FilesystemPhase, <<c.old>>, <<c.new>>, <<>>, <<Flag(c.no_replace), Flag(c.result # None)>>)
        failed == SetIf(now, c.result, "1")
    IN  Leaf(c, "file_rename",
             IF ~CanMkdir(world.disk, Front(c.new)) THEN Wrong
             ELSE IF c.no_replace /\ IsThere(d, c.new) THEN Effect(TRUE, failed, d, <<act>>)
             ELSE IF CanRename(d, c.old, c.new) THEN Effect(TRUE, SetIf(now, c.result, "0"), Rename(d, c.old, c.new), <<act>>)
             ELSE Effect(c.result # None, failed, d, <<>>))

\* file(REMOVE) and file(REMOVE_RECURSE): what is not there is removed already,
\* and a directory is only removed by the second.
RemoveOne(acc, p, recurse) ==
    IF ~acc.ok \/ ~IsThere(acc.disk, p) THEN acc
    ELSE IF recurse THEN [acc EXCEPT !.disk = RemoveTree(@, p)]
    ELSE IF acc.disk[p].kind = "dir" THEN [acc EXCEPT !.ok = FALSE]
    ELSE [acc EXCEPT !.disk = Unlink(@, p)]
FileRemove(c) ==
    LET left == FoldLeft(LAMBDA acc, p : RemoveOne(acc, p, c.recurse), [ok |-> TRUE, disk |-> world.disk], c.paths)
    IN  Leaf(c, "file_remove",
             Effect(left.ok, now, left.disk,
                    <<Action(IF c.recurse THEN "FS_REMOVE_RECURSE" ELSE "FS_REMOVE", FilesystemPhase, <<>>, c.paths, <<>>, <<>>)>>))

\* file(CREATE_LINK): a symbolic link to anything, a hard link to a file; a name
\* that is taken fails unless the file may be copied there.
LinkMade(d, src, dst, symbolic, copy) ==
    IF ~IsThere(d, dst) /\ IsDir(d, Front(dst)) /\ (symbolic \/ IsFileAt(d, src))
    THEN [ok |-> TRUE, disk |-> IF symbolic THEN With(d, dst, LinkTo(src)) ELSE With(d, dst, d[src])]
    ELSE IF copy /\ IsFileAt(d, src) /\ CanWrite(d, dst)
         THEN [ok |-> TRUE, disk |-> PutCopy(d, src, Follow(d, dst), d)]
    ELSE [ok |-> FALSE, disk |-> d]
FileCreateLink(c) ==
    LET parent == CanMkdir(world.disk, Front(c.dst))
        linked == LinkMade(WithParent(world.disk, c.dst), c.src, c.dst, c.symbolic, c.copy)
        act    == Action("FS_CREATE_LINK", FilesystemPhase, <<c.src>>, <<c.dst>>, <<>>,
                         <<Flag(c.symbolic), Flag(c.copy), Flag(c.result # None)>>)
    IN  Leaf(c, "file_create_link",
             IF ~parent THEN Done(now)
             ELSE IF linked.ok THEN [Effect(TRUE, SetIf(now, c.result, "0"), linked.disk, <<act>>) EXCEPT
                                        !.world.gap = IF c.symbolic THEN @ \cup {"symbolic link"} ELSE @]
             ELSE Effect(c.result # None, SetIf(now, c.result, "1"), linked.disk, <<>>))

\* file(CHMOD) and file(CHMOD_RECURSE); c.modes are the permission tokens.
ModeOf(tokens) == IF tokens = {"OWNER_EXECUTE"} THEN "0100" ELSE "0600"
ChmodOne(acc, p, recurse, mode) ==
    LET changed == IF recurse THEN {q \in DOMAIN acc.disk : IsPrefix(p, q)} ELSE {Follow(acc.disk, p)}
    IN  IF ~acc.ok \/ ~Exists(acc.disk, p) THEN [acc EXCEPT !.ok = FALSE]
        ELSE [acc EXCEPT !.disk = [q \in DOMAIN @ |-> IF q \in changed THEN [@[q] EXCEPT !.mode = mode] ELSE @[q]]]
FileChmod(c) ==
    LET mode == ModeOf(c.modes)
        left == FoldLeft(LAMBDA acc, p : ChmodOne(acc, p, c.recurse, mode), [ok |-> TRUE, disk |-> world.disk], c.paths)
    IN  Leaf(c, "file_chmod",
             IF c.modes = {} THEN Wrong
             ELSE Effect(left.ok, now, left.disk,
                         <<Action(IF c.recurse THEN "FS_CHMOD_RECURSE" ELSE "FS_CHMOD", FilesystemPhase, <<>>, c.paths, <<>>, <<mode>>)>>))

-----------------------------------------------------------------------------
(* Copies: eval_file_copy.c.                                               *)

\* copy_should_include: the last filter that matches the name decides.
Included(c, p) ==
    FoldLeft(LAMBDA in, f : IF Last(p) \in f.names THEN ~f.exclude ELSE in, ~c.matching, c.filters)

\* copy_copy_entry_raw: a directory with all it holds, anything else as a file.
CanCopyEntry(d, p, q) ==
    IF IsDir(d, p) THEN CanMkdir(d, q) /\ ~IsPrefix(p, q) /\ ~IsFileAt(d, q) ELSE IsFileAt(d, p) /\ CanWrite(d, q)
CopyEntry(d, p, q) ==
    IF IsDir(d, p) THEN PutTree(Mkdir(d, q), Follow(d, p), q, d) ELSE PutCopy(d, p, Follow(d, q), d)

\* copy_follow_symlink_chain: the link again, under its own name, and what it
\* leads to beside it.
CopyChain(d, p, dest) ==
    LET link == Append(dest, Last(p))
        file == Append(dest, Last(d[p].target))
        d1   == With(d, link, LinkTo(d[p].target))
    IN  IF IsDir(d, link) \/ ~CanCopyEntry(d1, d[p].target, file) THEN [ok |-> FALSE, disk |-> d1]
        ELSE [ok |-> TRUE, disk |-> CopyEntry(d1, d[p].target, file)]

\* The mode that copy_emit_replay names: the one given, or with
\* USE_SOURCE_PERMISSIONS that of the source.
CopyMode(c, d, p) == IF c.mode # "" THEN c.mode ELSE IF c.use_source /\ ~IsDir(d, p) THEN d[Follow(d, p)].mode ELSE ""

Replayable(c) == ~c.matching /\ c.filters = <<>> /\ ~c.chain
Marked(acts) == \E k \in DOMAIN acts : acts[k].op = "NONE"

\* One source of file(COPY): what it leaves, and the actions recorded so far.
CopyOne(c, acc, p) ==
    LET q      == Append(c.dest, Last(p))
        mode   == CopyMode(c, acc.disk, p)
        act    == Action(IF IsDir(acc.disk, p) THEN "FS_COPY_TREE" ELSE "FS_COPY_FILE", FilesystemPhase, <<p>>, <<q>>, <<>>,
                         IF IsDir(acc.disk, p) THEN <<mode, mode>> ELSE <<mode>>)
        marker == IF Marked(acc.acts) THEN <<>> ELSE <<Marker(FilesystemPhase)>>
        chained == CopyChain(acc.disk, p, c.dest)
    IN  IF ~acc.ok \/ ~Included(c, p) THEN acc
        ELSE IF c.chain /\ p \in DOMAIN acc.disk /\ acc.disk[p].kind = "link"
             THEN [ok |-> chained.ok, disk |-> chained.disk, acts |-> acc.acts \o marker]
        ELSE IF ~CanCopyEntry(acc.disk, p, q) THEN [acc EXCEPT !.ok = FALSE]
        ELSE [acc EXCEPT !.disk = WithMode(CopyEntry(@, p, q), q, mode), !.acts = @ \o (IF Replayable(c) THEN <<act>> ELSE marker)]

\* file(COPY) and file(INSTALL): the destination is made first.
FileCopy(c) ==
    LET done == FoldLeft(LAMBDA acc, p : CopyOne(c, acc, p),
                         [ok |-> TRUE, disk |-> Mkdir(world.disk, c.dest), acts |-> <<>>], c.sources)
    IN  Leaf(c, "file_copy",
             IF ~CanMkdir(world.disk, c.dest) THEN Wrong ELSE Effect(done.ok, now, done.disk, done.acts))

-----------------------------------------------------------------------------
(* Templates: eval_file_extra.c.                                           *)

Shown(x) == IF x = None THEN "" ELSE x

\* file_expand_configure_once; configure_file() also has #cmakedefine lines.
Expanded(text, at_only) ==
    [k \in DOMAIN text |->
        LET x == text[k]
        IN  IF x.form = "at" \/ (x.form = "brace" /\ ~at_only) THEN Chunk("plain", Shown(Get(now, x.name)))
            ELSE IF x.form = "cache" /\ ~at_only
                 THEN Chunk("plain", IF x.name \in DOMAIN now.cache THEN Shown(now.cache[x.name]) ELSE "")
            ELSE x]
Configured(text, at_only) ==
    [k \in DOMAIN text |->
        IF text[k].form # "define" THEN Expanded(text, at_only)[k]
        ELSE Chunk("plain", (IF Truthy(Get(now, text[k].name)) THEN "#define " ELSE "#undef ") \o text[k].name)]

\* The parent of a file is made on the way; one that has its text already is not
\* written.
Rewritten(d, p, text) ==
    IF IsFileAt(d, p) /\ TextAt(d, p) = text THEN d ELSE Put(WithParent(d, p), p, text)
CanRewrite(d, p, text) == (IsFileAt(d, p) /\ TextAt(d, p) = text) \/ CanWriteIn(d, p)

\* configure_file(): a directory gets a file with the name of the input.
ConfigureFile(c) ==
    LET d    == world.disk
        out  == IF IsDir(d, c.output) THEN Append(c.output, Last(c.input)) ELSE c.output
        text == IF c.copyonly THEN TextAt(d, c.input) ELSE Configured(TextAt(d, c.input), c.at_only)
        mode == IF c.mode # "" THEN c.mode ELSE IF c.no_source THEN "0644" ELSE d[Follow(d, c.input)].mode
        act  == IF c.copyonly THEN Action("FS_COPY_FILE", "CONFIGURE", <<c.input>>, <<out>>, <<>>, <<mode>>)
                ELSE WriteText("CONFIGURE", out, text, mode)
    IN  Leaf(c, "configure_file",
             IF c.malformed \/ (c.copyonly /\ c.newline) \/ ~IsFileAt(d, c.input) THEN Wrong
             ELSE IF ~CanRewrite(d, out, text) THEN Wrong
             ELSE Effect(TRUE, now, WithMode(Rewritten(d, out, text), out, mode), <<act>>))

\* file(CONFIGURE), file(COPY_FILE) and file(TOUCH) record no action.
FileConfigure(c) ==
    LET text == Expanded(c.text, c.at_only)
    IN  Leaf(c, "file_configure",
             IF CanRewrite(world.disk, c.path, text) THEN Unrecorded(TRUE, now, Rewritten(world.disk, c.path, text)) ELSE Wrong)

FileCopyFile(c) ==
    LET d    == world.disk
        same == c.only_if_different /\ IsFileAt(d, c.src) /\ IsFileAt(d, c.dst) /\ TextAt(d, c.src) = TextAt(d, c.dst)
        ok   == same \/ (IsFileAt(d, c.src) /\ CanWriteIn(d, c.dst))
    IN  Leaf(c, "file_copy_file",
             Unrecorded(ok \/ c.result # None, SetIf(now, c.result, IF ok THEN "0" ELSE "1"),
                        IF ok /\ ~same THEN PutCopy(WithParent(d, c.dst), c.src, Follow(d, c.dst), d) ELSE d))

TouchOne(acc, p, create) ==
    IF ~acc.ok \/ Exists(acc.disk, p) \/ ~create THEN acc
    ELSE IF CanWriteIn(acc.disk, p) THEN [acc EXCEPT !.disk = Put(WithParent(@, p), p, <<>>)]
    ELSE [acc EXCEPT !.ok = FALSE]
FileTouch(c) ==
    LET left == FoldLeft(LAMBDA acc, p : TouchOne(acc, p, c.create), [ok |-> TRUE, disk |-> world.disk], c.paths)
    IN  Leaf(c, "file_touch", Unrecorded(left.ok, now, left.disk))

-----------------------------------------------------------------------------
(* Listings: eval_file_glob.c.                                             *)

\* What a pattern [dir, names] matches: in its directory or, with
\* GLOB_RECURSE, anywhere below it.
Matched(d, pattern, recurse, list_dirs) ==
    {p \in Inside(d, pattern.dir) :
        /\ recurse \/ Len(p) = Len(pattern.dir) + 1
        /\ Last(p) \in pattern.names
        /\ list_dirs \/ ~IsDir(d, p)}
Shortened(p, base) == IF base # <<>> /\ IsPrefix(base, p) THEN SubSeq(p, Len(base) + 1, Len(p)) ELSE p

\* file(GLOB) and file(GLOB_RECURSE): a path is listed once for each pattern it
\* matches. Only a walk reports a directory it cannot open.
FileGlob(c) ==
    LET d      == world.disk
        found  == [k \in DOMAIN c.patterns |-> Matched(d, c.patterns[k], c.recurse, c.list_dirs)]
        listed == UNION {found[k] : k \in DOMAIN found}
        strict == Truthy(Get(now, "CMAKE_NOBIFY_FILE_GLOB_STRICT"))
        closed == c.recurse /\ \E k \in DOMAIN c.patterns : ~IsDir(d, c.patterns[k].dir)
        times  == [p \in {Shortened(q, c.relative) : q \in listed} |->
                      Cardinality({k \in DOMAIN found : \E q \in found[k] : Shortened(q, c.relative) = p})]
    IN  Leaf(c, "file_glob", DoneIf(~(closed /\ strict), Set(now, c.var, times)))

\* aux_source_directory()
AuxSourceDirectory(c) ==
    Leaf(c, "aux_source_directory",
         DoneIf(IsDir(world.disk, c.dir),
                Set(now, c.var, {p \in Inside(world.disk, c.dir) : Len(p) = Len(c.dir) + 1 /\ Last(p) \in c.sources})))

-----------------------------------------------------------------------------
(* Transfers: eval_file_transfer.c. A text is its own digest.              *)

\* file_transfer_fail: an error, unless STATUS asks to be told.
TransferFails(c, d) == Unrecorded(c.status # None, SetIf(now, c.status, "1"), d)
TransferDone(c, d, acts) == Effect(TRUE, SetIf(now, c.status, "0"), d, acts)
HashFits(c, d) == c.hash = None \/ TextAt(d, c.dst) = c.hash

\* What a local or remote download writes, and the action it records.
Downloaded(c, text) ==
    LET d == Put(WithParent(world.disk, c.dst), c.dst, text)
        act == IF c.remote \/ c.options \/ (c.hash # None /\ c.algo # "SHA256") THEN Marker("CONFIGURE")
               ELSE Action("HOST_DOWNLOAD_LOCAL", "CONFIGURE", <<c.src>>, <<c.dst>>,
                           IF c.hash = None THEN <<>> ELSE c.hash, <<IF c.hash = None THEN "" ELSE c.algo>>)
    IN  IF ~CanWriteIn(world.disk, c.dst) THEN TransferFails(c, world.disk)
        ELSE IF ~HashFits(c, d) THEN TransferFails(c, d)
        ELSE TransferDone(c, d, <<act>>)

\* file(DOWNLOAD): nothing is done when the file is there and has the digest,
\* and without a file to write it is a probe.
FileDownload(c) ==
    LET d    == world.disk
        text == IF c.remote THEN c.body ELSE TextAt(d, c.src)
    IN  Leaf(c, "file_download",
             IF c.dst = <<>> /\ c.hash # None THEN TransferFails(c, d)
             ELSE IF c.dst # <<>> /\ c.hash # None /\ IsFileAt(d, c.dst) /\ HashFits(c, d)
                  THEN [TransferDone(c, d, <<>>) EXCEPT !.world.gap = @ \cup {"unrecorded"}]
             ELSE IF (c.remote /\ c.answer # "ok") \/ (~c.remote /\ ~IsFileAt(d, c.src)) THEN TransferFails(c, d)
             ELSE IF c.dst = <<>> THEN TransferDone(c, d, <<Marker("CONFIGURE")>>)
             ELSE Downloaded(c, text))

\* file(UPLOAD): a local one is a copy, and none is recorded.
FileUpload(c) ==
    LET d == world.disk
    IN  Leaf(c, "file_upload",
             IF c.hash # None THEN TransferFails(c, d)
             ELSE IF c.remote THEN (IF c.answer = "ok" THEN TransferDone(c, d, <<>>) ELSE TransferFails(c, d))
             ELSE IF ~IsFileAt(d, c.src) \/ ~CanWriteIn(d, c.dst) THEN TransferFails(c, d)
             ELSE Unrecorded(TRUE, SetIf(now, c.status, "0"), PutCopy(WithParent(d, c.dst), c.src, Follow(d, c.dst), d)))

-----------------------------------------------------------------------------
(* Archives: eval_file_generate_lock_archive.c.                            *)

\* The members of an archive of some paths: they and all they hold.
Packed(d, paths) ==
    [p \in {q \in DOMAIN d : \E k \in DOMAIN paths : IsPrefix(paths[k], q)} |-> d[p]]
Unpacked(d, dst, members) ==
    LET made == Mkdir(d, dst)
        at(p) == dst \o p
        back(q) == CHOOSE p \in DOMAIN members : at(p) = q
        above == UNION {Above(at(p)) : p \in DOMAIN members} \ DOMAIN made
    IN  [q \in DOMAIN made \cup above \cup {at(p) : p \in DOMAIN members} |->
            IF \E p \in DOMAIN members : at(p) = q THEN members[back(q)]
            ELSE IF q \in above THEN Directory ELSE made[q]]

\* file(ARCHIVE_CREATE): the library packs what has no reproducible form, and
\* records nothing. A tar that fails is an error, and takes the action with it.
ArchiveAsked(c) == c.paths # <<>> /\ c.format \in {"TAR", "PAXR", "ZIP"}
Reproducible(c) == c.format = "PAXR" /\ ~c.compressed /\ c.mtime # None
FileArchiveCreate(c) ==
    LET made   == WithParent(world.disk, c.out)
        ok     == c.works /\ (\A k \in DOMAIN c.paths : IsThere(made, c.paths[k])) /\ CanWrite(made, c.out)
        packed == IF ok THEN With(made, c.out, ArchiveOf(Packed(made, c.paths))) ELSE made
    IN  Leaf(c, "file_archive_create",
             IF ~ArchiveAsked(c) THEN Wrong
             ELSE IF ~CanMkdir(world.disk, Front(c.out)) THEN Done(now)
             ELSE IF ~Reproducible(c) /\ c.library THEN Unrecorded(ok, now, packed)
             ELSE Effect(ok, now, packed,
                         IF Reproducible(c) THEN <<Action("HOST_ARCHIVE_CREATE_PAXR", "CONFIGURE", c.paths, <<c.out>>, <<>>, <<c.mtime>>)>>
                         ELSE <<Marker("CONFIGURE")>>))

\* file(ARCHIVE_EXTRACT); what FetchContent extracts has an action of its own.
FileArchiveExtract(c) ==
    LET made  == IF c.list_only THEN world.disk ELSE Mkdir(world.disk, c.dst)
        ok    == c.works /\ IsFileAt(made, c.input) /\ (c.library \/ IsDir(made, c.dst))
        after == IF ok /\ ~(c.list_only /\ c.library) THEN Unpacked(made, c.dst, made[Follow(made, c.input)].members) ELSE made
        plain == ~c.list_only /\ ~c.selective /\ ~c.zip
    IN  Leaf(c, "file_archive_extract",
             IF ~c.list_only /\ ~CanMkdir(world.disk, c.dst) THEN Done(now)
             ELSE IF c.library THEN Unrecorded(ok, now, after)
             ELSE Effect(ok, now, after,
                         IF plain THEN <<Action("HOST_ARCHIVE_EXTRACT_TAR", "CONFIGURE", <<c.input>>, <<c.dst>>, <<>>, <<>>)>>
                         ELSE IF now.making # <<>> THEN <<>> ELSE <<Marker("CONFIGURE")>>))

=============================================================================
