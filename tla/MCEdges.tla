----------------------------- MODULE MCEdges -----------------------------
(* The parts around the pipeline: the three collectors that write to the      *)
(* spool, the installer, and the pipes to a Python child.  One of them is at  *)
(* work in each behaviour: they share nothing but the directory they write    *)
(* to, so their state spaces add.                                             *)
EXTENDS HookSpans, OpenCodeCollector, OtlpReceiver, Installation, SidecarProtocol

CONSTANT Scenarios  \* which of the parts a run looks at

VARIABLE scenario
mcVars == <<scenario, hookVars, ocVars, otlpVars, instVars, sidecarVars>>

(* OpenCode's stream: a pair of starts settled in the other order, a          *)
(* settlement that fails to normalize before the one that succeeds, a foreign *)
(* frame, an event without a sequence, a gap (no 4) and a settlement whose    *)
(* start was never logged.                                                    *)
Rec(seq, kind, key) == [seq |-> seq, kind |-> kind, key |-> key]
MCLog == << Rec(1, "start", "a"), Rec(2, "start", "b"), Rec(0, "quiet", "x"),
            Rec(3, "settle", "b"), Rec(0, "foreign", "y"), Rec(5, "faulty", "a"),
            Rec(6, "settle", "a"), Rec(7, "settle", "z") >>

(* The exporters: a Codex session; a forwarder of several agents' records --  *)
(* two more Codex conversations, so that the cache of two is too small, one   *)
(* with a record that cannot be mapped, a completion without usage, a call of *)
(* Claude Code, and one that lacks what its mapper insists on --; and a stray *)
(* oversized body.  One file per session.                                     *)
LogOf(agent, kind, conv, ok) == [agent |-> agent, kind |-> kind, conv |-> conv, ok |-> ok]
Logs(conv, records) == [body |-> "logs", conv |-> conv, records |-> records]
Body(kind) == [body |-> kind, conv |-> "", records |-> <<>>]
MCExporters == {"codex", "forwarder", "stray"}
MCBatches ==
  [codex |-> << Logs("s1", <<LogOf("codex", "start", "inherit", TRUE),
                             LogOf("codex", "completed", "inherit", TRUE)>>) >>,
   forwarder |-> << Logs("s2", <<LogOf("codex", "start", "inherit", FALSE),
                                 LogOf("codex", "start", "s3", TRUE),
                                 LogOf("codex", "unused", "s3", TRUE),
                                 LogOf("claude", "call", "s4", TRUE),
                                 LogOf("genai", "call", "s2", FALSE)>>) >>,
   stray |-> << Body("oversize") >>]
MCTries == [codex |-> 2, forwarder |-> 1, stray |-> 1]
MCFileOrder == << <<"otlp-cc", "s4">>, <<"otlp-codex", "s1">>, <<"otlp-codex", "s3">> >>

-----------------------------------------------------------------------------
Init ==
    /\ scenario \in Scenarios /\ HookInit /\ OcInit /\ OtlpInit /\ InstInit /\ SidecarInit
    /\ scenario # "install" => manager = "systemd" /\ disk.hook = Nothing /\ disk.settings = Nothing

HookTurn(A) == /\ scenario = "hook" /\ A
               /\ UNCHANGED <<scenario, ocVars, otlpVars, instVars, sidecarVars>>
OcTurn(A) == /\ scenario = "opencode" /\ A
             /\ UNCHANGED <<scenario, hookVars, otlpVars, instVars, sidecarVars>>
OtlpTurn(A) == /\ scenario = "otlp" /\ A
               /\ UNCHANGED <<scenario, hookVars, ocVars, instVars, sidecarVars>>
InstTurn(A) == /\ scenario = "install" /\ A
               /\ UNCHANGED <<scenario, hookVars, ocVars, otlpVars, sidecarVars>>
SidecarTurn(A) == /\ scenario = "sidecar" /\ A
                  /\ UNCHANGED <<scenario, hookVars, ocVars, otlpVars, instVars>>

Next == \/ HookTurn(HookNext) \/ OcTurn(OcNext) \/ OtlpTurn(OtlpNext) \/ InstTurn(InstNext)
        \/ SidecarTurn(SidecarNext)

(* Some process that was started goes on; Claude Code fires Stop at the end   *)
(* of a turn; some collector is there, and is started again when it died.     *)
HookWork == \/ \E c \in Calls : CallStep(c)
            \/ \E p \in Hooks : HookStep(p)
            \/ RemoveDirectory
Spec ==
    /\ Init /\ [][Next]_mcVars
    /\ WF_mcVars(HookTurn(HookWork)) /\ WF_mcVars(HookTurn(StopHook))
    /\ WF_mcVars(OcTurn(\E c \in Collectors : CollectorStep(c)))
    /\ WF_mcVars(OcTurn(\E c \in Collectors : CollectorStart(c)))

(* Liveness is asked of the part at work. *)
HookDrains == scenario = "hook" => OpenSpansDrain
OpenCodeCatchesUp == scenario = "opencode" => EverySettlementSpooled
=============================================================================
