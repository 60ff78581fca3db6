------------------------------ MODULE MCParts -------------------------------
(* The parts of the workspace around the actor system, for TLC: those that *)
(* serve requests (Serving: the policies, Python actors, the benchmark),   *)
(* the Python codec (PyCodec), and Forge's MCP runtime and patches (Mcp,   *)
(* Patch).  They share no state either: `part` says which one runs.        *)
EXTENDS Serving, TLC

CONSTANTS
  Lengths, Threshold, ChunkSizes, Room,
  ToolThreads, Homes, Listing, Letters, MaxToolName, KeptRuntime, MaxRefresh, MaxCalls, MaxSilent,
  Lines, Paths, Inside, Workspaces, Looser, MaxLines

VARIABLES
  obj, where, chunk, sender, channel, bufs, idx, got,
  home, slot, readers, writer, waiting, pc, req, work, listing, built, busy, open,
  silent, refreshes, calls,
  phase, mode, hunks, env, count, fs, report

codecVars == <<obj, where, chunk, sender, channel, bufs, idx, got>>
mcpVars == <<home, slot, readers, writer, waiting, pc, req, work, listing, built, busy,
             open, silent, refreshes, calls>>
patchVars == <<phase, mode, hunks, env, count, fs, report>>

-----------------------------------------------------------------------------

\* All workers; two requests of one session, one by the body's field and one by
\* its user.
SomeRequests == {("session_id" :> 1) @@ ("text" :> 1), ("session_params" :> 1) @@ ("text" :> 2)}
SomeClockwise == <<"session", 1>> :> <<3, 1, 2>>

OneList == {{1, 2, 3}}

\* Nothing is known, one worker is known to be idle, two of them are.
SomeLoadMaps == {[w \in 1 .. 3 |-> IF w <= n THEN 0 ELSE MaxLoad + 1] : n \in 0 .. 2}

\* Up to three buffers, empty ones and some above the threshold.
SomeLengths == UNION {[1 .. n -> 0 .. 3] : n \in 0 .. 3}
Codec == INSTANCE PyCodec

\* Two servers whose names sanitize to the same text, one configured twice.
Dot == <<"a", ".">>
Bar == <<"a", "_">>

Raw(c, s, e, never) ==
  [command |-> c, url |-> ~c, source |-> s, enabled |-> e, only |-> {}, never |-> never]

SomeHomes ==
  {[plugins |-> <<[server |-> Dot, raw |-> Raw(TRUE, "none", TRUE, {})],
                  [server |-> Dot, raw |-> Raw(TRUE, "none", FALSE, {})],
                  [server |-> Bar, raw |-> Raw(TRUE, "elsewhere", TRUE, {})]>>,
    config  |-> {[server |-> Bar, raw |-> Raw(FALSE, "none", TRUE, {<<"y">>})]}],
   [plugins |-> <<[server |-> Dot, raw |-> Raw(TRUE, "local", TRUE, {})]>>,
    config  |-> {[server |-> Dot, raw |-> Raw(TRUE, "none", FALSE, {})],
                 [server |-> Bar, raw |-> Raw(TRUE, "none", TRUE, {})]}]}

SomeListing ==
  (Dot :> <<[name |-> <<"x">>, visible |-> TRUE], [name |-> <<"y">>, visible |-> FALSE]>>)
  @@ (Bar :> <<[name |-> <<"x">>, visible |-> TRUE], [name |-> <<"y">>, visible |-> TRUE]>>)

SomeLetters == {"a", "x", "y", "_", "m", "c", "p", "t", "o", "l"}
Tools == INSTANCE Mcp WITH Threads <- ToolThreads, queue <- waiting

\* Two files in the workspace, one path outside; texts that match exactly, or
\* only when they are trimmed or normalised.
L(kind, arg) == [kind |-> kind, arg |-> arg, lead |-> FALSE]

SomeLines ==
  {L("begin", "none"), L("update", "p"), L("add", "q"), L("delete", "q"),
   L("move", "q"), L("@@", "none"), L("@@", "a"), L("eof", "none"),
   L("blank", ""), L("keep", "a"), L("minus", " b"), L("minus", "a "),
   L("plus", "c"), L("env", "e"), L("update", "out"),
   [kind |-> "end", arg |-> "*** End Patch", lead |-> TRUE]}

TrimEnd == [t \in {"a", "b", "a ", " b", "b~", "c", "", "*** End Patch"} |-> IF t = "a " THEN "a" ELSE t]
Trim == [TrimEnd EXCEPT ![" b"] = "b"]
Normalise == [Trim EXCEPT !["b~"] = "b"]

SomeWorkspaces ==
  {[p |-> <<"a", "b", "a", "b", "">>, q |-> <<"absent">>, out |-> <<"absent">>],
   [p |-> <<"b~", "", "a", "">>, q |-> <<"a">>, out |-> <<"a">>],
   [p |-> <<"">>, q |-> <<"directory">>, out |-> <<"absent">>]}

SomeLooser == <<TrimEnd, Trim, Normalise>>
Patches == INSTANCE Patch

-----------------------------------------------------------------------------

PackInit ==
  /\ part \in {"policy", "python", "codec", "bench", "mcp", "patch"}
  /\ ServingInit
  /\ Codec!Init /\ (part # "codec" => obj = (CHOOSE o \in Codec!Objects : TRUE) /\ where = "call" /\ chunk = 1)
  /\ Tools!Init /\ (part # "mcp" => home = CHOOSE h \in SomeHomes : TRUE)
  /\ Patches!Init /\ (part # "patch" => fs = CHOOSE f \in SomeWorkspaces : TRUE)

PackNext ==
  \/ ServingNext /\ UNCHANGED <<codecVars, mcpVars, patchVars>>
  \/ /\ part = "codec" /\ Codec!Next
     /\ UNCHANGED <<servingVars, mcpVars, patchVars>>
  \/ /\ part = "mcp" /\ Tools!Next
     /\ UNCHANGED <<servingVars, codecVars, patchVars>>
  \/ /\ part = "patch" /\ Patches!Next
     /\ UNCHANGED <<servingVars, codecVars, mcpVars>>

PackSpec == PackInit /\ [][PackNext]_<<servingVars, codecVars, mcpVars, patchVars>>

-----------------------------------------------------------------------------

\* What a receiver decodes is the object that was sent (the zero-copy codec
\* of pulsing-py), however the buffers were cut into chunks.
RoundTrip == part = "codec" => Codec!RoundTrip

\* Every tool the model is offered is reached under its name (mcp tool
\* names are sanitized and cut), and goes to the server that listed it.
OfferedIsReached == part = "mcp" => Tools!OfferedIsReached

\* Applying an update hunk replaces the matched lines and nothing else
\* (patch/apply.rs), for chunks in order and at the end of the file.
UpdateIsSplice == part = "patch" => Patches!UpdateIsSplice
=============================================================================
