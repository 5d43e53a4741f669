---------------------------- MODULE AgentOutput ----------------------------
(***************************************************************************)
(* What Adapter.Result makes of an agent's output (internal/adapters).     *)
(* The output is a sequence of lines, stdout and stderr mixed.  A line is  *)
(* an event of the adapter's protocol or nothing the adapter knows; a text *)
(* is a sequence, so that texts can be joined and measured.                *)
(***************************************************************************)
EXTENDS Naturals, FiniteSets, Sequences, SequencesExt

\* message: codex's agent_message, opencode's text, agy's result; error and null:
\* agy's result with status ERROR, or without a body; denied: agy says a tool
\* lacked a permission; junk: any other line; long: a line over 1 MiB.
Line(kind, text) == [kind |-> kind, text |-> text]
Lines(words) == [kind : {"message"}, text : Seq(words)]
                \cup [kind : {"error", "null", "denied", "junk", "long"}, text : {<<>>}]

\* A scanner that meets a line beyond its buffer stops as at the end.
EveryLine(out) == SelectSeq(out, LAMBDA l : l.kind # "long")
Scanned(out) == LET i == SelectInSeq(out, LAMBDA l : l.kind = "long") IN
                IF i = 0 THEN out ELSE SubSeq(out, 1, i - 1)

Text(t) == [kind |-> "text", text |-> t]
Raw == [kind |-> "raw", text |-> <<>>]
Error == [kind |-> "error", text |-> <<>>]

Joined(acc, text) == Text(acc.text \o text)
Newest(acc, text) == Text(text)

CodexResult(out) ==
    FoldLeft(LAMBDA acc, l : IF l.kind = "message" THEN Newest(acc, l.text) ELSE acc,
             Raw, Scanned(out))

OpenCodeResult(out) ==
    FoldLeft(LAMBDA acc, l : IF l.kind = "message" THEN Joined(acc, l.text) ELSE acc,
             Raw, Scanned(out))

\* The last result event, a null one included, and whether a permission was denied.
AgyScan(out) ==
    FoldLeft(LAMBDA acc, l :
                 CASE l.kind \in {"message", "error", "null"} -> [acc EXCEPT !.final = l]
                   [] l.kind = "denied" -> [acc EXCEPT !.denied = TRUE]
                   [] OTHER -> acc,
             [final |-> Line("null", <<>>), denied |-> FALSE], Scanned(out))

AgyResult(out) ==
    LET scan == AgyScan(out) IN
    IF scan.final.kind = "error" \/ (scan.final.text = <<>> /\ scan.denied) THEN Error
    ELSE IF scan.final.kind = "message" THEN Text(scan.final.text)
    ELSE Raw

Result(adapter, out) == CASE adapter = "codex"    -> CodexResult(out)
                          [] adapter = "opencode" -> OpenCodeResult(out)
                          [] adapter = "agy"      -> AgyResult(out)
                          [] OTHER                -> Raw

\* How much of MaxResultSize an answer takes; a long line alone is beyond it.
LongLine == 100
Size(answer, out) == IF answer.kind = "text" THEN Len(answer.text)
                     ELSE Len(out) + Cardinality({i \in DOMAIN out : out[i].kind = "long"}) * LongLine
=============================================================================
