----------------------------- MODULE MCIssCore -----------------------------
(* A core with two registers and one or two accesses in flight.            *)
EXTENDS IssCore

Insn(op, in, out, split, stall) ==
    [op |-> op, in |-> in, out |-> out, split |-> split, stall |-> stall]

MCInsns == {Insn("load", {}, {"a"}, FALSE, 0),
            Insn("load", {}, {"b"}, FALSE, 0),
            Insn("load", {}, {"a"}, TRUE, 0),
            Insn("store", {"a"}, {}, FALSE, 0),
            Insn("store", {"a"}, {}, TRUE, 0),
            Insn("alu", {"a"}, {"b"}, FALSE, 0),
            Insn("alu", {}, {}, FALSE, 1),      \* a jump
            Insn("fence", {}, {}, FALSE, 0),
            Insn("wfi", {}, {}, FALSE, 0)}

Platform(nb, split, answers) == [nb |-> nb, split |-> split, answers |-> answers]

(* Any slave, for accesses that are not split; slaves that never deny and  *)
(* answer no request in its own cycle, for all accesses.                   *)
AnyPlatforms == {Platform(nb, FALSE, {Denied, Granted, 0, 1, 2}) : nb \in {1, 2}}
                  \cup {Platform(nb, TRUE, {Granted, 1, 2}) : nb \in {1, 2}}

(* One access in flight, and a memory that answers in the call.            *)
MemoryPlatforms == {Platform(1, TRUE, {1, 2}), Platform(1, FALSE, {0, 1, Denied})}

LatePlatforms    == {Platform(2, FALSE, {1, 2})}
InlinePlatforms  == {Platform(1, TRUE, {0})}
DenyingPlatforms == {Platform(1, TRUE, {Denied, Granted})}
AsleepPlatforms  == {Platform(2, FALSE, {Granted})}
MixedPlatforms   == {Platform(1, TRUE, {Granted, 0})}
=============================================================================
