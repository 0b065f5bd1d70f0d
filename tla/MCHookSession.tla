---------------------------- MODULE MCHookSession ----------------------------
(* Instances of HookSession for TLC. *)
EXTENDS HookSession, TLC

CONSTANTS f, g, d, r, o, main

\* d is a denied import, o an allowed one, r a denied relative import of g.
MCRelativeTo == [i \in Imports |-> IF i = r THEN g ELSE NoFile]
MCDenied == Imports \ {o}

\* Denied imports of f: r of the file g, which comes and goes, and d.  They leave f for
\* an allowed import; in a session that begins after a commit of it, f goes back to
\* its base with that.
ImportFiles == {f, g}
ImportNames == {d, r, o}
ImportTree == [x \in Files |-> IF x = f THEN {} ELSE Absent]
ImportContents == [x \in Files |-> IF x = f THEN {{o}, {d, r}} ELSE {{}}]
OnlyNew == {g}

\* One file of the commit, for several processes at a time: its allowed import
\* is replaced by a denied one and comes back.
SharedFiles == {f}
SharedTree == [x \in Files |-> {o}]
SharedNames == {d, o}
SharedContents == [x \in Files |-> {{o}, {d}}]
Nothing == {}
Tracked == {f}

\* The events of one process at a time, of several that do everything, and of
\* a main agent whose subagent only edits.
ImportEvents == [p \in Procs |-> {"session-start", "post-tool-use"}]
AllEvents == [p \in Procs |-> Kinds]
StopEvents == [p \in Procs |-> {"post-tool-use", "stop"}]
MainEvents == [p \in Procs |-> {"post-tool-use"} \cup IF p = main THEN {"stop"} ELSE {}]
=============================================================================
