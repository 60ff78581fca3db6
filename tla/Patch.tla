------------------------------- MODULE Patch ------------------------------
(* The apply_patch tool of Forge (crates/pulsing-forge/src/patch): the line
   parser that turns a patch into hunks, and the application of the hunks to
   the files of the workspace.

   A line of a patch is a record: its kind is the marker it starts with, `arg'
   the path or text behind the marker, and `lead' says that white space stands
   before it.  The contents of a file are the sequence of texts between its
   newlines, so a file that ends in a newline ends in the text "".  *)
EXTENDS Naturals, Integers, Sequences, FiniteSets, SequencesExt

CONSTANTS
  Lines,       \* the lines a patch is made of
  Paths,       \* paths a patch may name
  Inside,      \* the paths that resolve to a place below the working directory
  Workspaces,  \* the contents the workspace may have at first
  Looser,      \* <<TrimEnd, Trim, Normalise>>, each a function on texts
  MaxLines     \* bound on the lines between the first and the last

VARIABLES
  phase,    \* "reading", "parsed", "applying", "done" or "failed"
  mode,     \* StreamingParserMode
  hunks,    \* the hunks parsed so far, then the ones still to apply
  env,      \* an environment id was given
  count,    \* lines read
  fs,       \* the contents of every path, Absent or Directory
  report    \* the paths written, in order

parser == <<phase, mode, hunks, env, count>>
vars == <<parser, fs, report>>

Absent == <<"absent">>
Directory == <<"directory">>
IsFile(p) == fs[p] \notin {Absent, Directory}
None == "none"
Blank == ""

-----------------------------------------------------------------------------
(* The parser.  *)

Chunk(context) == [context |-> context, old |-> <<>>, new |-> <<>>, eof |-> FALSE]
HasLines(chunk) == chunk.old # <<>> \/ chunk.new # <<>>

\* ensure_update_hunk_is_not_empty.
LastHunkIsWhole ==
  hunks # <<>> /\ Last(hunks).kind = "update" =>
    Last(hunks).chunks # <<>> /\ HasLines(Last(Last(hunks).chunks))

Fail == phase' = "failed" /\ UNCHANGED <<mode, hunks, env, count, fs, report>>

Goes(m) == mode' = m /\ UNCHANGED <<phase, fs, report>>

\* handle_hunk_headers_and_end_patch: what a header does in any hunk.
Header(line) ==
  IF ~LastHunkIsWhole THEN Fail
  ELSE /\ count' = count + 1
       /\ UNCHANGED env
       /\ CASE line.kind = "end" -> Goes("ended") /\ UNCHANGED hunks
            [] line.kind = "add" ->
                 /\ Goes("add")
                 /\ hunks' = Append(hunks, [kind |-> "add", path |-> line.arg,
                                            text |-> <<Blank>>])
            [] line.kind = "delete" ->
                 /\ Goes("delete")
                 /\ hunks' = Append(hunks, [kind |-> "delete", path |-> line.arg])
            [] line.kind = "update" ->
                 /\ Goes("update")
                 /\ hunks' = Append(hunks, [kind |-> "update", path |-> line.arg,
                                            to |-> None, chunks |-> <<>>])

IsHeader(line) == line.kind \in {"end", "add", "delete", "update"}

\* The last hunk becomes h.
Amend(h) ==
  /\ hunks' = [hunks EXCEPT ![Len(hunks)] = h]
  /\ count' = count + 1
  /\ UNCHANGED <<phase, mode, env, fs, report>>

Skip ==
  count' = count + 1 /\ UNCHANGED <<phase, mode, hunks, env, fs, report>>

\* A context, added or removed line goes to the last chunk, which it opens when
\* there is none.
AddLine(h, old, new) ==
  LET chunks == IF h.chunks = <<>> THEN <<Chunk(None)>> ELSE h.chunks
      n == Len(chunks)
  IN  Amend([h EXCEPT !.chunks =
               [chunks EXCEPT ![n].old = @ \o old, ![n].new = @ \o new]])

NotStarted(line) ==
  /\ mode = "start"
  /\ IF line.kind # "begin" THEN Fail
     ELSE Goes("started") /\ count' = count + 1 /\ UNCHANGED <<hunks, env>>

\* The environment id may stand once, before the first hunk.
StartedPatch(line) ==
  /\ mode = "started"
  /\ IF line.kind = "env"
     THEN IF env THEN Fail
          ELSE env' = TRUE /\ count' = count + 1
               /\ UNCHANGED <<phase, mode, hunks, fs, report>>
     ELSE IF IsHeader(line) THEN Header(line) ELSE Fail

AddFile(line) ==
  /\ mode = "add"
  /\ IF IsHeader(line) THEN Header(line)
     ELSE IF line.kind = "plus" /\ ~line.lead
     THEN LET h == Last(hunks)
          IN  Amend([h EXCEPT !.text = Front(@) \o <<line.arg, Blank>>])
     ELSE Fail

DeleteFile(line) ==
  /\ mode = "delete"
  /\ IF IsHeader(line) THEN Header(line) ELSE Fail

\* A @@ line opens a chunk; the chunk before it must have lines.
NewChunk(h, context) ==
  IF h.chunks # <<>> /\ ~HasLines(Last(h.chunks)) THEN Fail
  ELSE Amend([h EXCEPT !.chunks = Append(@, Chunk(context))])

\* A marker with white space before it is a context line here.
UpdateFile(line) ==
  /\ mode = "update"
  /\ LET h == Last(hunks)
         ended == h.chunks # <<>> /\ Last(h.chunks).eof
     IN  IF line.lead
         THEN IF ended THEN Fail ELSE AddLine(h, <<line.arg>>, <<line.arg>>)
         ELSE
         CASE IsHeader(line) -> Header(line)
           [] ended /\ line.kind = "blank" -> Skip
           [] ended /\ line.kind \notin {"blank", "@@"} -> Fail
           [] line.kind = "move" /\ h.chunks = <<>> /\ h.to = None ->
                Amend([h EXCEPT !.to = line.arg])
           [] line.kind = "@@" -> NewChunk(h, line.arg)
           [] ~ended /\ line.kind = "eof" ->
                IF h.chunks = <<>> THEN Skip
                ELSE IF ~HasLines(Last(h.chunks)) THEN Fail
                ELSE Amend([h EXCEPT !.chunks[Len(h.chunks)].eof = TRUE])
           [] ~ended /\ line.kind = "blank" -> AddLine(h, <<Blank>>, <<Blank>>)
           [] ~ended /\ line.kind = "keep" -> AddLine(h, <<line.arg>>, <<line.arg>>)
           [] ~ended /\ line.kind = "plus" -> AddLine(h, <<>>, <<line.arg>>)
           [] ~ended /\ line.kind = "minus" -> AddLine(h, <<line.arg>>, <<>>)
           [] OTHER -> Fail

EndedPatch(line) ==
  /\ mode = "ended"
  /\ IF line.kind = "blank" THEN Skip ELSE Fail

\* push_delta: one line of the patch.
PushLine(line) ==
  /\ phase = "reading" /\ count < MaxLines
  /\ \/ NotStarted(line) \/ StartedPatch(line) \/ AddFile(line)
     \/ DeleteFile(line) \/ UpdateFile(line) \/ EndedPatch(line)

\* finish: the last line is the end marker (parse_patch has looked for it, and
\* stripped the heredoc around the patch), and ends the patch in any mode.
Finish ==
  /\ phase = "reading" /\ mode # "start"
  /\ IF ~LastHunkIsWhole THEN Fail
     ELSE /\ phase' = "parsed" /\ mode' = "ended"
          /\ UNCHANGED <<hunks, env, count, fs, report>>

-----------------------------------------------------------------------------
(* Application.  *)

\* seek_sequence: the first place at or after `start' where the pattern stands
\* under the map f; at the end of the file only, when eof is set.
MatchesAt(lines, pattern, i, f) ==
  \A k \in DOMAIN pattern : f[lines[i + k]] = f[pattern[k]]

SeekWith(lines, pattern, from, f) ==
  {i \in from..(Len(lines) - Len(pattern)) :
     /\ MatchesAt(lines, pattern, i, f)
     /\ \A j \in from..(i - 1) : ~MatchesAt(lines, pattern, j, f)}

\* How texts are compared: as they are, then ever more loosely.
Exact == [t \in DOMAIN Looser[1] |-> t]
Comparisons == <<Exact>> \o Looser

\* A set with the place found, or empty: the first map that finds one decides.
seek_sequence(lines, pattern, start, eof) ==
  IF pattern = <<>> THEN {start}
  ELSE IF Len(pattern) > Len(lines) THEN {}
  ELSE LET from == IF eof THEN Len(lines) - Len(pattern) ELSE start
           found == [k \in DOMAIN Comparisons |->
                       SeekWith(lines, pattern, from, Comparisons[k])]
       IN  UNION {found[k] : k \in {i \in DOMAIN found :
                                      \A j \in 1..(i - 1) : found[j] = {}}}

EndsBlank(s) == s # <<>> /\ Last(s) = Blank

NotFound(acc) == [acc EXCEPT !.ok = FALSE]

\* The old lines were found: the first place is taken.
Replace(acc, chunk, old, new, found) ==
  IF found = {} THEN NotFound(acc)
  ELSE LET start == CHOOSE i \in found : TRUE
       IN  [ok |-> TRUE, at |-> start + Len(old),
            out |-> Append(acc.out, [at |-> start, len |-> Len(old), new |-> new, eof |-> chunk.eof])]

\* The old lines from `at' on, or without the blank line at their end; a chunk
\* without old lines is inserted at the end of the file.
FindOld(lines, acc, chunk, at) ==
  IF chunk.old = <<>> THEN
    [acc EXCEPT !.at = at, !.out = Append(@,
       [at |-> IF EndsBlank(lines) THEN Len(lines) - 1 ELSE Len(lines),
        len |-> 0, new |-> chunk.new, eof |-> chunk.eof])]
  ELSE IF seek_sequence(lines, chunk.old, at, chunk.eof) = {} /\ EndsBlank(chunk.old) THEN
    Replace(acc, chunk, Front(chunk.old),
            IF EndsBlank(chunk.new) THEN Front(chunk.new) ELSE chunk.new,
            seek_sequence(lines, Front(chunk.old), at, chunk.eof))
  ELSE Replace(acc, chunk, chunk.old, chunk.new,
               seek_sequence(lines, chunk.old, at, chunk.eof))

FindAfter(lines, acc, chunk, context) ==
  IF context = {} THEN NotFound(acc)
  ELSE FindOld(lines, acc, chunk, (CHOOSE i \in context : TRUE) + 1)

\* One chunk of compute_replacements: `at' is line_index, `out' the
\* replacements so far, `ok' that every chunk was found.
FindChunk(lines, acc, chunk) ==
  IF ~acc.ok THEN acc
  ELSE FindAfter(lines, acc, chunk,
                 IF chunk.context = None THEN {acc.at - 1}
                 ELSE seek_sequence(lines, <<chunk.context>>, acc.at, FALSE))

\* The replacements in the order of their places (the sort is stable).
Sorted(out) ==
  LET order == CHOOSE p \in SetToSeqs(DOMAIN out) :
                 \A i, j \in DOMAIN p : i < j =>
                   \/ out[p[i]].at < out[p[j]].at
                   \/ out[p[i]].at = out[p[j]].at /\ p[i] < p[j]
  IN  [i \in DOMAIN order |-> out[order[i]]]

compute_replacements(lines, chunks) ==
  LET all == FoldLeft(LAMBDA acc, c : FindChunk(lines, acc, c),
                      [ok |-> TRUE, at |-> 0, out |-> <<>>], chunks)
  IN  [ok |-> all.ok, out |-> Sorted(all.out)]

Splice(lines, r) ==
  SubSeq(lines, 1, r.at) \o r.new \o SubSeq(lines, r.at + r.len + 1, Len(lines))

\* Mutant of apply_replacements: the last replacement is left out.
ReplaceButLast(lines, reps) ==
  FoldLeft(Splice, lines, IF reps = <<>> THEN <<>> ELSE Reverse(Front(reps)))

\* apply_replacements: from the last to the first, so that the places of those
\* still to come stay right.
apply_replacements(lines, reps) == FoldLeft(Splice, lines, Reverse(reps))

Stripped(text) == IF EndsBlank(text) THEN Front(text) ELSE text

\* derive_new_contents.
NewContents(text, reps) ==
  LET lines == apply_replacements(Stripped(text), reps)
  IN  IF EndsBlank(lines) THEN lines ELSE Append(lines, Blank)

-----------------------------------------------------------------------------
\* resolve_patch_path: relative paths are joined to the working directory, and a path
\* that leaves it is refused.
Resolves(p) == p \in Inside

\* verify_hunks_readable, before anything is written.
Readable(h) ==
  /\ Resolves(h.path)
  /\ CASE h.kind = "add" -> fs[h.path] = Absent
       [] h.kind = "delete" -> IsFile(h.path)
       [] h.kind = "update" -> IsFile(h.path) /\ (h.to # None => Resolves(h.to))

Verify ==
  /\ phase = "parsed"
  /\ phase' = IF hunks # <<>> /\ \A i \in DOMAIN hunks : Readable(hunks[i])
              THEN "applying" ELSE "failed"
  /\ UNCHANGED <<mode, hunks, env, count, fs, report>>

Wrote(p, files) ==
  /\ fs' = files /\ report' = Append(report, p)
  /\ hunks' = Tail(hunks)
  /\ UNCHANGED <<phase, mode, env, count>>

ApplyAdd ==
  /\ phase = "applying" /\ hunks # <<>> /\ Head(hunks).kind = "add"
  /\ LET h == Head(hunks)
     IN  IF fs[h.path] = Directory THEN Fail
         ELSE Wrote(h.path, [fs EXCEPT ![h.path] = h.text])

ApplyDelete ==
  /\ phase = "applying" /\ hunks # <<>> /\ Head(hunks).kind = "delete"
  /\ LET h == Head(hunks)
     IN  IF ~IsFile(h.path) THEN Fail
         ELSE /\ fs' = [fs EXCEPT ![h.path] = Absent]
              /\ hunks' = Tail(hunks)
              /\ UNCHANGED <<phase, mode, env, count, report>>

\* The new contents are written to the destination, then the source is removed.
Moved(h, text) ==
  IF h.to = None THEN [fs EXCEPT ![h.path] = text]
  ELSE [[fs EXCEPT ![h.to] = text] EXCEPT ![h.path] = Absent]

Update(h, to, reps) ==
  IF IsFile(h.path) /\ reps.ok /\ fs[to] # Directory
  THEN Wrote(to, Moved(h, NewContents(fs[h.path], reps.out)))
  ELSE Fail

ApplyUpdate ==
  /\ phase = "applying" /\ hunks # <<>> /\ Head(hunks).kind = "update"
  /\ LET h == Head(hunks)
     IN  Update(h, IF h.to = None THEN h.path ELSE h.to,
                compute_replacements(Stripped(fs[h.path]), h.chunks))

Summary ==
  /\ phase = "applying" /\ hunks = <<>>
  /\ phase' = "done" /\ UNCHANGED <<mode, hunks, env, count, fs, report>>

Init ==
  /\ phase = "reading" /\ mode = "start" /\ hunks = <<>> /\ env = FALSE
  /\ count = 0 /\ report = <<>>
  /\ fs \in Workspaces

\* parse_patch: the lines in order, then the end.
ParsePatch == (\E line \in Lines : PushLine(line)) \/ Finish

Next ==
  \/ ParsePatch \/ Verify \/ ApplyAdd \/ ApplyDelete \/ ApplyUpdate \/ Summary

Spec == Init /\ [][Next]_vars

-----------------------------------------------------------------------------

Apart(reps) ==
  \A i, j \in DOMAIN reps : i < j => reps[i].at + reps[i].len <= reps[j].at

\* The lines of a file around and between the replaced blocks: at every place
\* what the replacements starting there bring, then the line unless a
\* replacement covers it.
Reference(lines, reps) ==
  FlattenSeq([k \in 1..(Len(lines) + 1) |->
     FlattenSeq([i \in DOMAIN reps |-> IF reps[i].at = k - 1 THEN reps[i].new ELSE <<>>])
     \o IF k > Len(lines) \/ \E i \in DOMAIN reps :
              reps[i].at < k /\ k <= reps[i].at + reps[i].len
        THEN <<>> ELSE <<lines[k]>>])

\* Replacements that do not overlap make of a file what the reference says.
Spliced(text, lines, reps) ==
  reps.ok =>
    /\ (\A i \in DOMAIN reps.out : ~reps.out[i].eof) => Apart(reps.out)
    /\ Apart(reps.out) => Stripped(NewContents(text, reps.out)) = Stripped(Reference(lines, reps.out))

\* An update changes exactly the blocks its chunks found: chunks that are not
\* bound to the end of the file find blocks that do not overlap, and every
\* other line of the file is in the new contents, in its order and place.
UpdateIsSplice ==
  (phase = "applying" /\ hunks # <<>> /\ Head(hunks).kind = "update"
   /\ IsFile(Head(hunks).path)) =>
     Spliced(fs[Head(hunks).path], Stripped(fs[Head(hunks).path]),
             compute_replacements(Stripped(fs[Head(hunks).path]), Head(hunks).chunks))
=============================================================================
