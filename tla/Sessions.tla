------------------------------ MODULE Sessions ------------------------------
(***************************************************************************)
(* internal/api/stream.go and terminal.go: a browser tab that follows a     *)
(* log or holds a shell. Each is one HTTP handler turned websocket, with    *)
(* three goroutines beside it:                                              *)
(*                                                                          *)
(*   reader   reads the websocket; a terminal's also writes to the shell    *)
(*   copier   takes the remote output: a terminal's own pump writes it to   *)
(*            the websocket; a stream's is the ssh session's io.Copy into   *)
(*            the pipe the handler scans (OpenStream)                       *)
(*   waiter   sess.Wait; a stream's then closes the pipe                    *)
(*                                                                          *)
(* All sessions of the machine share one pooled connection, which anything  *)
(* may drop: a failed reachability check, a call that timed out, an edit,   *)
(* a deletion, the keepalive, shutdown (module Broker).                     *)
(***************************************************************************)

CONSTANTS Sids,       \* the browser tabs
          Terminals   \* those that open a shell; the others follow a log

ASSUME SessionsAssumption == Terminals \subseteq Sids

Streams == Sids \ Terminals

VARIABLES
    browser,   \* browser[s]: the tab is "here" or "gone"
    ws,        \* ws[s]: the websocket: "none", "open", "closed" (by us)
    pc,        \* pc[s]: where the handler stands
    canceled,  \* the sessions whose ctx is cancelled
    chan,      \* chan[s]: the SSH session: "none", "open", "gone" (the command
               \* ended or the connection is lost), "closed" (by us)
    reader,    \* reader[s]: "off", "reading", "writing", "ended"
    copier,    \* copier[s]: the same
    waiter,    \* waiter[s]: "off", "waiting", "ended"
    recorded,  \* the sessions that have their row in runs
    reach      \* machines.reach_state, as far as these handlers write it

vars == <<browser, ws, pc, canceled, chan, reader, copier, waiter, recorded, reach>>
routines == <<reader, copier, waiter>>

TypeOK ==
    /\ browser \in [Sids -> {"here", "gone"}]
    /\ ws \in [Sids -> {"none", "open", "closed"}]
    /\ pc \in [Sids -> {"idle", "record", "open", "scan", "write", "select", "leave", "over"}]
    /\ canceled \in SUBSET Sids
    /\ chan \in [Sids -> {"none", "open", "gone", "closed"}]
    /\ reader \in [Sids -> {"off", "reading", "writing", "ended"}]
    /\ copier \in [Sids -> {"off", "reading", "writing", "ended"}]
    /\ waiter \in [Sids -> {"off", "waiting", "ended"}]
    /\ recorded \in SUBSET Sids
    /\ reach \in {"unknown", "ok", "bad"}

Init ==
    /\ browser = [s \in Sids |-> "here"]
    /\ ws = [s \in Sids |-> "none"]
    /\ pc = [s \in Sids |-> "idle"]
    /\ canceled = {}
    /\ chan = [s \in Sids |-> "none"]
    /\ reader = [s \in Sids |-> "off"]
    /\ copier = [s \in Sids |-> "off"]
    /\ waiter = [s \in Sids |-> "off"]
    /\ recorded = {}
    /\ reach = "unknown"

-----------------------------------------------------------------------------
(* The handler, up to the moment bytes flow. A request that is refused      *)
(* before the upgrade gets an HTTP error and leaves nothing behind.         *)

Goto(s, where) == pc' = [pc EXCEPT ![s] = where]

\* A stream is recorded before it is opened, a terminal the other way round.
Upgrade(s) ==
    /\ pc[s] = "idle"
    /\ ws' = [ws EXCEPT ![s] = "open"]
    /\ Goto(s, IF s \in Terminals THEN "open" ELSE "record")
    /\ UNCHANGED <<browser, canceled, chan, routines, recorded, reach>>

\* The goroutines the handler leaves running, its own and OpenStream's.
Starts(s, who) ==
    /\ reader' = [reader EXCEPT ![s] = IF "reader" \in who THEN "reading" ELSE @]
    /\ copier' = [copier EXCEPT ![s] = IF "copier" \in who THEN "reading" ELSE @]
    /\ waiter' = [waiter EXCEPT ![s] = IF "waiter" \in who THEN "waiting" ELSE @]

RecordWorks(s) ==
    /\ pc[s] = "record"
    /\ recorded' = recorded \cup {s}
    /\ IF s \in Terminals
       THEN /\ Starts(s, {"reader", "copier", "waiter"})
            /\ reach' = "ok"
            /\ Goto(s, "select")
       ELSE /\ Goto(s, "open")
            /\ UNCHANGED <<routines, reach>>
    /\ UNCHANGED <<browser, ws, canceled, chan>>

\* "an unrecorded session is worse than a refused one"
RecordFails(s) ==
    /\ pc[s] = "record"
    /\ Goto(s, "leave")
    /\ UNCHANGED <<browser, ws, canceled, chan, routines, recorded, reach>>

OpenWorks(s) ==
    /\ pc[s] = "open"
    /\ chan' = [chan EXCEPT ![s] = "open"]
    /\ IF s \in Terminals
       THEN /\ Goto(s, "record")
            /\ UNCHANGED <<routines, reach>>
       ELSE /\ Starts(s, {"reader", "copier", "waiter"})
            /\ reach' = "ok"
            /\ Goto(s, "scan")
    /\ UNCHANGED <<browser, ws, canceled, recorded>>

\* OpenShell and OpenStream close what they had opened before they fail;
\* classifyReach knows the error or it does not.
OpenFails(s) ==
    /\ pc[s] = "open"
    /\ reach' \in {"bad", "unknown"}
    /\ Goto(s, "leave")
    /\ UNCHANGED <<browser, ws, canceled, chan, routines, recorded>>

\* Bug: a terminal whose row cannot be written returns without closing the shell.
LeaveForgetsShell(s) ==
    /\ pc[s] = "leave"
    /\ ws' = [ws EXCEPT ![s] = "closed"]
    /\ canceled' = canceled \cup {s}
    /\ chan' = [chan EXCEPT ![s] = IF @ # "none" /\ s \in recorded THEN "closed" ELSE @]
    /\ Goto(s, "over")
    /\ UNCHANGED <<browser, routines, recorded, reach>>

\* Bug: the handler does not close the websocket.
LeaveKeepsSocket(s) ==
    /\ pc[s] = "leave"
    /\ canceled' = canceled \cup {s}
    /\ chan' = [chan EXCEPT ![s] = IF @ # "none" THEN "closed" ELSE @]
    /\ Goto(s, "over")
    /\ UNCHANGED <<browser, ws, routines, recorded, reach>>

\* The close frame and the deferred calls: the session, the context, the websocket.
Leave(s) ==
    /\ pc[s] = "leave"
    /\ ws' = [ws EXCEPT ![s] = "closed"]
    /\ canceled' = canceled \cup {s}
    /\ chan' = [chan EXCEPT ![s] = IF @ # "none" THEN "closed" ELSE @]
    /\ Goto(s, "over")
    /\ UNCHANGED <<browser, routines, recorded, reach>>

-----------------------------------------------------------------------------
(* A stream's handler: sc.Scan, then one frame per line.                    *)

\* What the scanner takes out of the pipe lets the copier go on.
Takes(s) ==
    /\ copier[s] = "writing"
    /\ copier' = [copier EXCEPT ![s] = "reading"]

\* A line: the context is looked at before it is sent.
ScanLine(s) ==
    /\ pc[s] = "scan"
    /\ Takes(s)
    /\ Goto(s, IF s \in canceled THEN "leave" ELSE "write")
    /\ UNCHANGED <<browser, ws, canceled, chan, reader, waiter, recorded, reach>>

\* A line longer than the scanner's megabyte ends the loop, with the copier
\* in the middle of its write.
ScanTooLong(s) ==
    /\ pc[s] = "scan"
    /\ copier[s] = "writing"
    /\ Goto(s, "leave")
    /\ UNCHANGED <<browser, ws, canceled, chan, routines, recorded, reach>>

\* End of file: the waiter has closed the pipe.
ScanEnds(s) ==
    /\ pc[s] = "scan"
    /\ waiter[s] = "ended"
    /\ Goto(s, "leave")
    /\ UNCHANGED <<browser, ws, canceled, chan, routines, recorded, reach>>

Listens(s) == browser[s] = "here" /\ ws[s] = "open"

WriteWorks(s) ==
    /\ pc[s] = "write"
    /\ Listens(s)
    /\ Goto(s, "scan")
    /\ UNCHANGED <<browser, ws, canceled, chan, routines, recorded, reach>>

\* The browser is gone, or does not read for ten seconds.
WriteFails(s) ==
    /\ pc[s] = "write"
    /\ Goto(s, "leave")
    /\ UNCHANGED <<browser, ws, canceled, chan, routines, recorded, reach>>

\* Bug: a terminal's handler waits for the shell alone.
HangUpMissed(s) ==
    /\ pc[s] = "select"
    /\ waiter[s] = "ended"
    /\ Goto(s, "leave")
    /\ UNCHANGED <<browser, ws, canceled, chan, routines, recorded, reach>>

\* A terminal's handler: either side hung up, or the shell has exited.
HangUp(s) ==
    /\ pc[s] = "select"
    /\ s \in canceled \/ waiter[s] = "ended"
    /\ Goto(s, "leave")
    /\ UNCHANGED <<browser, ws, canceled, chan, routines, recorded, reach>>

-----------------------------------------------------------------------------
(* The goroutines.                                                          *)

\* A goroutine that is bound to cancel on its way out.
Cancels(s) == canceled' = canceled \cup {s}

\* ReadMessage fails: the browser is gone, or the handler closed the socket.
ReaderEnds(s) ==
    /\ reader[s] = "reading"
    /\ ~Listens(s)
    /\ reader' = [reader EXCEPT ![s] = "ended"]
    /\ Cancels(s)
    /\ UNCHANGED <<browser, ws, pc, chan, copier, waiter, recorded, reach>>

\* Keystrokes for the shell. (A resize, and whatever a stream's browser sends,
\* change nothing.)
Input(s) ==
    /\ s \in Terminals
    /\ reader[s] = "reading"
    /\ Listens(s)
    /\ reader' = [reader EXCEPT ![s] = "writing"]
    /\ UNCHANGED <<browser, ws, pc, canceled, chan, copier, waiter, recorded, reach>>

InputSent(s) ==
    /\ reader[s] = "writing"
    /\ IF chan[s] = "open"
       THEN reader' = [reader EXCEPT ![s] = "reading"] /\ UNCHANGED canceled
       ELSE reader' = [reader EXCEPT ![s] = "ended"] /\ Cancels(s)
    /\ UNCHANGED <<browser, ws, pc, chan, copier, waiter, recorded, reach>>

\* The host has something to say: for a stream, a whole line (the scanner takes
\* a part of a line and waits for the rest) or more than the scanner bears.
Output(s) ==
    /\ copier[s] = "reading"
    /\ chan[s] = "open"
    /\ copier' = [copier EXCEPT ![s] = "writing"]
    /\ UNCHANGED <<browser, ws, pc, canceled, chan, reader, waiter, recorded, reach>>

\* The terminal's pump sends it on; it cancels when it cannot.
OutputSent(s) ==
    /\ s \in Terminals
    /\ copier[s] = "writing"
    /\ \/ Listens(s) /\ copier' = [copier EXCEPT ![s] = "reading"] /\ UNCHANGED canceled
       \/ copier' = [copier EXCEPT ![s] = "ended"] /\ Cancels(s)
    /\ UNCHANGED <<browser, ws, pc, chan, reader, waiter, recorded, reach>>

\* The channel is at its end; only a terminal's pump holds the context.
CopierEnds(s) ==
    /\ copier[s] = "reading"
    /\ chan[s] # "open"
    /\ copier' = [copier EXCEPT ![s] = "ended"]
    /\ IF s \in Terminals THEN Cancels(s) ELSE UNCHANGED canceled
    /\ UNCHANGED <<browser, ws, pc, chan, reader, waiter, recorded, reach>>

\* sess.Wait: the session is at its end and, for a stream, so is its copier.
WaiterEnds(s) ==
    /\ waiter[s] = "waiting"
    /\ chan[s] # "open"
    /\ s \in Streams => copier[s] = "ended"
    /\ waiter' = [waiter EXCEPT ![s] = "ended"]
    /\ UNCHANGED <<browser, ws, pc, canceled, chan, reader, copier, recorded, reach>>

-----------------------------------------------------------------------------
(* The world.                                                               *)

BrowserLeaves(s) ==
    /\ Listens(s)
    /\ browser' = [browser EXCEPT ![s] = "gone"]
    /\ UNCHANGED <<ws, pc, canceled, chan, routines, recorded, reach>>

CommandEnds(s) ==
    /\ chan[s] = "open"
    /\ chan' = [chan EXCEPT ![s] = "gone"]
    /\ UNCHANGED <<browser, ws, pc, canceled, routines, recorded, reach>>

\* The shared connection is dropped under all its sessions at once.
Drop ==
    /\ \E s \in Sids : chan[s] = "open"
    /\ chan' = [s \in Sids |-> IF chan[s] = "open" THEN "gone" ELSE chan[s]]
    /\ UNCHANGED <<browser, ws, pc, canceled, routines, recorded, reach>>

-----------------------------------------------------------------------------
HandlerStep(s) ==
    \/ RecordWorks(s) \/ RecordFails(s) \/ OpenWorks(s) \/ OpenFails(s) \/ Leave(s)
    \/ ScanLine(s) \/ ScanTooLong(s) \/ ScanEnds(s)
    \/ WriteWorks(s) \/ WriteFails(s) \/ HangUp(s)

ReaderStep(s) == ReaderEnds(s) \/ InputSent(s)
CopierStep(s) == CopierEnds(s) \/ OutputSent(s)

Next ==
    \/ \E s \in Sids :
          \/ Upgrade(s) \/ HandlerStep(s)
          \/ ReaderStep(s) \/ CopierStep(s) \/ WaiterEnds(s)
          \/ Input(s) \/ Output(s)
          \/ BrowserLeaves(s) \/ CommandEnds(s)
    \/ Drop

Spec == Init /\ [][Next]_vars

\* Every goroutine that can run does; writes to a websocket have deadlines,
\* the set-up of a session too, and a shell reads what is typed. Nothing is
\* assumed of the browser, of the remote command, nor that the host ever says
\* anything.
Fairness ==
    \A s \in Sids : /\ WF_vars(HandlerStep(s))
                    /\ WF_vars(ReaderStep(s))
                    /\ WF_vars(CopierStep(s))
                    /\ WF_vars(WaiterEnds(s))

FairSpec == Spec /\ Fairness

-----------------------------------------------------------------------------
(* What must hold.                                                          *)

\* A handler that has returned leaves no SSH session open on the connection
\* the others share, on any of its ways out: a shell that could not be
\* recorded, a browser that hung up, a line too long, a failed write.
OverIsClosed ==
    \A s \in Sids : pc[s] = "over" => chan[s] \in {"none", "closed"} /\ ws[s] = "closed"

\* The host has fallen silent: the scan loop waits for a line that never comes.
Silent(s) == pc[s] = "scan" /\ chan[s] = "open" /\ copier[s] = "reading"

\* "Hold until either side hangs up or the shell exits" (terminal.go:132) and
\* "a control frame (or a close) cancels the context, which closes the stream"
\* (stream.go:94). When the connection is dropped under a session (reach.go:118)
\* or its command ends, the session ends and the browser is told; it never sits
\* there as if it were live. A tab that is closed takes its session with it: a
\* shell even when it is silent, while a stream whose host says nothing more
\* for good may stay, since the handler looks at the context after a line.
EndsWithEitherSide ==
    \A s \in Sids :
        /\ chan[s] = "gone" ~> pc[s] = "over"
        /\ \/ browser[s] = "gone" ~> pc[s] = "over" /\ chan[s] # "open"
           \/ s \in Streams /\ <>[]Silent(s)

\* A session that is over leaves no goroutine behind, but for one case: the
\* scan loop of a stream stopped while the copier was writing into the pipe,
\* which nobody reads or closes any more; the copier, and the waiter behind
\* it, stay for ever.
OnlyBlockedCopiersStay ==
    \A s \in Sids : pc[s] = "over" ~>
        /\ reader[s] \in {"off", "ended"}
        /\ \/ copier[s] \in {"off", "ended"} /\ waiter[s] \in {"off", "ended"}
           \/ s \in Streams /\ copier[s] = "writing"
=============================================================================
