------------------------------ MODULE Framing ------------------------------
(***************************************************************************)
(* One call is one connection: the CLI, the MCP server (api.Call) and the  *)
(* OpenCode plugin (rpc.js) dial, write a frame, read a frame and close.   *)
(* A frame is a line of JSON.  Its size and how much of it is on the wire  *)
(* are kept, its bytes are not; sizes are in units of 32 KiB.              *)
(***************************************************************************)
EXTENDS Naturals

CONSTANTS Calls,
          Plugin,  \* the calls made by rpc.js
          Limit    \* MaxFrameSize and FRAME_LIMIT

ASSUME FramingAssumption == Plugin \subseteq Calls /\ Limit \in Nat

VARIABLES
    cpc,      \* cpc[c]: idle, waiting, answered, failed, gone (the client died)
    why,      \* why[c]: how the call failed
    spc,      \* spc[c]: where Serve is with the connection
    up,       \* up[c]: the request on the wire
    down,     \* down[c]: the answer on the wire
    upEnd, downEnd   \* the connections whose writer is gone

wireVars == <<cpc, why, spc, up, down, upEnd, downEnd>>

\* A frame without its newline ("body") or without its tail ("cut").
Frame(msg, n, part) == [msg |-> msg, size |-> n, part |-> part]
NoFrame == Frame("none", 0, "none")
Cuts(f) == IF f.part = "whole" THEN {[f EXCEPT !.part = p] : p \in {"whole", "body", "cut"}}
           ELSE {f}

\* WriteFrame counts the newline, ReadFrame does not.
FitsWithoutNewline(n) == n <= Limit
Fits(n) == n + 1 <= Limit

\* ReadFrame returns on a newline, beyond the limit, or at the end of the stream.
Oversized(f) == f.part # "none" /\ f.size > Limit
Readable(f, ended) == f.part = "whole" \/ Oversized(f) \/ ended

Outcome(f) == CASE Oversized(f)     -> "too_large"
                [] f.part = "none" -> "closed"
                [] f.part = "cut" /\ ~Oversized(f) -> "garbled"
                [] OTHER           -> "frame"

\* rpc.js counts the newline too, and does not take a line that lacks it.
PluginOutcome(f) == CASE f.part # "whole" -> "closed"
                      [] f.part = "whole" /\ f.size + 1 > Limit -> "too_large"
                      [] OTHER -> "frame"

End(c, pc, reason) == /\ cpc' = [cpc EXCEPT ![c] = pc]
                      /\ why' = [why EXCEPT ![c] = reason]
Serve(c, pc) == spc' = [spc EXCEPT ![c] = pc]
Hangup(c) == Serve(c, "closed") /\ downEnd' = downEnd \cup {c}
NextRequest(c) == Serve(c, "read") /\ UNCHANGED downEnd
WriteFails(c) == Hangup(c)

\* dial failed, or WriteFrame refused the request before it wrote anything.
CallFails(c, reason) == /\ cpc[c] = "idle" /\ End(c, "failed", reason)
                        /\ UNCHANGED <<spc, up, down, upEnd, downEnd>>

\* The request is written; rpc.js does not look at its size.
CallSends(c, msg, n) == /\ cpc[c] = "idle" /\ (c \in Plugin \/ Fits(n))
                        /\ End(c, "waiting", "") /\ Serve(c, "read")
                        /\ up' = [up EXCEPT ![c] = Frame(msg, n, "whole")]
                        /\ UNCHANGED <<down, upEnd, downEnd>>

\* The client's process dies, perhaps in the middle of its request.
ClientDies(c) == /\ cpc[c] = "waiting" /\ End(c, "gone", "")
                 /\ upEnd' = upEnd \cup {c}
                 /\ \E f \in Cuts(up[c]) : up' = [up EXCEPT ![c] = f]
                 /\ UNCHANGED <<spc, down, downEnd>>

\* Serve: ReadFrame, then the handler, then WriteFrame, then the next request.
ReadRequest(c) ==
    /\ spc[c] = "read" /\ Readable(up[c], c \in upEnd)
    /\ \/ Outcome(up[c]) = "frame" /\ Serve(c, "handle") /\ UNCHANGED downEnd
       \/ Outcome(up[c]) # "frame" /\ Hangup(c)
    /\ UNCHANGED <<cpc, why, up, down, upEnd>>

\* The handler's answer, not yet written; an unknown method gets an error.
Handle(c, msg, n) == /\ spc[c] = "handle" /\ Serve(c, "reply")
                     /\ up' = [up EXCEPT ![c] = NoFrame]
                     /\ down' = [down EXCEPT ![c] = Frame(msg, n, "none")]
                     /\ UNCHANGED <<cpc, why, upEnd, downEnd>>

\* An answer that does not fit ends the connection: there is no error frame.
Reply(c) ==
    /\ spc[c] = "reply"
    /\ \/ /\ Fits(down[c].size) /\ NextRequest(c)
          /\ down' = [down EXCEPT ![c].part = "whole"]
       \/ ~Fits(down[c].size) /\ WriteFails(c) /\ down' = [down EXCEPT ![c] = NoFrame]
    /\ UNCHANGED <<cpc, why, up, upEnd>>

\* The call ends with what it could read, then closes.  rpc.js decodes chunk by
\* chunk: a character that spans two chunks is lost.
ReadAnswer(c) ==
    LET result == IF c \in Plugin THEN PluginOutcome(down[c]) ELSE Outcome(down[c]) IN
    /\ cpc[c] = "waiting"
    /\ Readable(down[c], c \in downEnd)
    /\ \/ result = "frame" /\ End(c, "answered", "")
       \/ result = "frame" /\ c \in Plugin /\ End(c, "answered", "mangled")
       \/ result # "frame" /\ End(c, "failed", result)
    /\ upEnd' = upEnd \cup {c}
    /\ UNCHANGED <<spc, up, down, downEnd>>

\* The daemon dies: its connections end, perhaps in the middle of an answer.
ServerDies(S) ==
    LET cut == {c \in S : spc[c] \notin {"none", "closed"}} IN
    /\ spc' = [c \in Calls |-> IF c \in cut THEN "closed" ELSE spc[c]]
    /\ downEnd' = downEnd \cup cut
    /\ down' \in {f \in [Calls -> UNION {Cuts(down[c]) : c \in Calls}] :
                     \A c \in Calls : f[c] \in (IF c \in cut /\ cpc[c] = "waiting"
                                                THEN Cuts(down[c]) ELSE {down[c]})}
    /\ UNCHANGED <<cpc, why, up, upEnd>>

WireInit == /\ cpc = [c \in Calls |-> "idle"] /\ why = [c \in Calls |-> ""]
            /\ spc = [c \in Calls |-> "none"]
            /\ up = [c \in Calls |-> NoFrame] /\ down = [c \in Calls |-> NoFrame]
            /\ upEnd = {} /\ downEnd = {}
=============================================================================
