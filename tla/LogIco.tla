------------------------------- MODULE LogIco -------------------------------
(***************************************************************************)
(* The io_v2 logarithmic interconnect, models/interco/log_ico_v2.cpp:      *)
(* masters in front of single-ported banks, with one round-robin arbiter   *)
(* per bank and no request queue.  A request is denied when it arrives and *)
(* leaves one bit behind; the FSM, run once per cycle, elects a winner for *)
(* each bank and calls its retry().  While the FSM runs (in_election) any  *)
(* request is forwarded to its bank at once: the denied ones of the winner *)
(* and whatever else arrives before its retry() returns.                   *)
(*                                                                         *)
(* A request is its address.  The interleaving width is picked once, among *)
(* Widths.  A master keeps its denied requests in a FIFO and re-issues all *)
(* of them in retry(), as tests/interco/log_ico_v2/stub_master.cpp does;   *)
(* MaxDenied = 1 is a master that waits for retry() before it issues       *)
(* anything else.  The masters of Eager go on with new requests inside a   *)
(* retry(), of their own (as models/interco/splitter_v2.cpp does) or of    *)
(* another master they are called from.                                    *)
(*                                                                         *)
(* The clock engine runs an event enqueued with no delay at the end of the *)
(* cycle ("now"), after what the masters do in it.  One enqueued for the   *)
(* next cycle ("next") is an ordinary event of that cycle ("due"): it runs *)
(* before, between or after the events of the masters.  Of two enqueues of *)
(* one event the earlier wins.                                             *)
(***************************************************************************)
EXTENDS Integers, Sequences, FiniteSets

CONSTANTS
    nb_masters, nb_slaves,
    Widths,        \* the interleaving widths
    Addrs,         \* the addresses masters ask for
    MaxDenied,     \* bound: the denied requests a master may hold
    Eager          \* the masters that issue new requests inside a retry()

Masters == 0 .. (nb_masters - 1)
Banks   == 0 .. (nb_slaves - 1)

Pow2 == [n \in 0 .. 16 |-> 2 ^ n]

ASSUME LogIcoAssumption ==
    /\ nb_masters \in Nat \ {0}
    /\ nb_slaves \in {Pow2[n] : n \in 0 .. 8}
    /\ Widths \subseteq 0 .. 8 /\ Widths # {} /\ Addrs \subseteq Nat
    /\ MaxDenied \in Nat \ {0} /\ Eager \subseteq Masters

VARIABLES
    interleaving_width,
    pending_mask,   \* pending_mask[b]: the masters whose bit is set
    rr_next,        \* rr_next[b]: where the next scan starts
    in_election,    \* the FSM is running
    fsm_event,      \* "none", "now", "next" or "due"
    bank,           \* FSM: the bank the loop has reached
    retrying,       \* FSM: inside the retry() of the winner of that bank
    any_remaining,  \* FSM: some bank has bits left
    denied,         \* denied[m]: the FIFO of master m
    winners,        \* winners[b]: the elections for bank b in this cycle
    served,         \* served[b]: the masters bank b served in this cycle
    ended           \* the end of the cycle is reached

LogIcoVars == <<interleaving_width, pending_mask, rr_next, in_election, fsm_event, bank, retrying,
          any_remaining, denied, winners, served, ended>>

LogIcoInit ==
    /\ interleaving_width \in Widths
    /\ pending_mask = [b \in Banks |-> {}]
    /\ rr_next = [b \in Banks |-> 0]
    /\ in_election = FALSE
    /\ fsm_event = "none"
    /\ bank = 0 /\ retrying = FALSE /\ any_remaining = FALSE
    /\ denied = [m \in Masters |-> <<>>]
    /\ winners = [b \in Banks |-> 0] /\ served = [b \in Banks |-> {}]
    /\ ended = FALSE

----------------------------------------------------------------------------
(* The decoding, for nb banks and words of 2^iw bytes: the shifts and      *)
(* masks of the code are divisions and remainders by powers of two.        *)
Right(x, n) == x \div Pow2[n]
Left(x, n)  == x * Pow2[n]
Low(x, n)   == x % Pow2[n]

ceil_log2_u(n) == CHOOSE k \in 0 .. 8 : Pow2[k] >= n /\ (k = 0 \/ Pow2[k - 1] < n)

slave_bits(nb) == ceil_log2_u(nb)

decode_bank(offset, iw, nb) ==
    IF slave_bits(nb) = 0 THEN 0 ELSE Low(Right(offset, iw), slave_bits(nb))

(* A slip: the bank bits are kept.                                         *)
SlipDecodeOffset(offset, iw, nb) == Left(Right(offset, iw), iw) + Low(offset, iw)

(* The | of the code joins disjoint bits.                                  *)
decode_offset(offset, iw, nb) ==
    Left(Right(offset, slave_bits(nb) + iw), iw) + Low(offset, iw)

(* The address of a byte of a bank.                                        *)
Encode(b, offset, iw, nb) ==
    Left(Right(offset, iw), slave_bits(nb) + iw) + Left(b, iw) + Low(offset, iw)

----------------------------------------------------------------------------
BankOf(addr) == decode_bank(addr, interleaving_width, nb_slaves)

(* The masks as sets of bit numbers, and the shifts on them.               *)
Shr(mask, k) == {i - k : i \in {j \in mask : j >= k}}
Shl(mask, k) == {i + k : i \in mask}

(* pick_winner: rotate the mask right by rr, take its lowest bit.          *)
pick_winner(mask, rr, nb) ==
    LET valid   == 0 .. (nb - 1)
        m       == mask \cap valid
        rotated == IF rr = 0 THEN m ELSE (Shr(m, rr) \cup Shl(m, nb - rr)) \cap valid
        rel     == CHOOSE i \in rotated : \A j \in rotated : i <= j
    IN  (rr + rel) % nb

(* fsm_event.enqueue(0)                                                    *)
EnqueuedNow == IF fsm_event = "due" THEN "due" ELSE "now"

(* A slip: the bit is written, not or-ed: the other masters lose theirs.   *)
SlipMarked(mask, m) == {m}

(* The bit of the master is set.                                           *)
Marked(mask, m) == mask \cup {m}

(* input_req outside the election: the bit is set, the FSM scheduled with  *)
(* no delay, the request denied.                                           *)
input_req(m, addr) ==
    /\ pending_mask' = [pending_mask EXCEPT ![BankOf(addr)] = Marked(@, m)]
    /\ fsm_event' = EnqueuedNow
    /\ denied' = [denied EXCEPT ![m] = Append(@, addr)]

(* Masters issue while the cycle is running.                               *)
MasterRequest(m, addr) ==
    /\ ~in_election /\ ~ended
    /\ Len(denied[m]) < MaxDenied
    /\ input_req(m, addr)
    /\ UNCHANGED <<interleaving_width, rr_next, in_election, bank, retrying, any_remaining,
                   winners, served, ended>>

(* fsm_handler starts.                                                     *)
ElectionStart ==
    /\ ~in_election /\ fsm_event \in {"now", "due"}
    /\ fsm_event' = "none"
    /\ in_election' = TRUE
    /\ bank' = 0 /\ any_remaining' = FALSE
    /\ ended' = (ended \/ fsm_event = "now")
    /\ UNCHANGED <<interleaving_width, pending_mask, rr_next, retrying, denied, winners, served>>

SkipBank ==
    /\ in_election /\ ~retrying /\ bank < nb_slaves /\ pending_mask[bank] = {}
    /\ bank' = bank + 1
    /\ UNCHANGED <<interleaving_width, pending_mask, rr_next, in_election, fsm_event, retrying,
                   any_remaining, denied, winners, served, ended>>

(* A slip: the scan starts at the last winner again.                       *)
SlipScanStart(w) == w

(* The scan starts after the last winner.                                  *)
NextScan(w) == (w + 1) % nb_masters

(* The banks of the denied requests of a master.                           *)
DeniedBanks(m) == {BankOf(denied[m][i]) : i \in DOMAIN denied[m]}

(* One winner per bank.  Its retry() re-issues its denied requests, which  *)
(* input_req forwards inline, each to its own bank.                        *)
Elect ==
    /\ in_election /\ ~retrying /\ bank < nb_slaves /\ pending_mask[bank] # {}
    /\ LET w == pick_winner(pending_mask[bank], rr_next[bank], nb_masters)
       IN /\ pending_mask' = [pending_mask EXCEPT ![bank] = @ \ {w}]
          /\ rr_next' = [rr_next EXCEPT ![bank] = NextScan(w)]
          /\ served' = [b \in Banks |-> served[b] \cup {m \in {w} : b \in DeniedBanks(m)}]
          /\ denied' = [denied EXCEPT ![w] = <<>>]
    /\ winners' = [winners EXCEPT ![bank] = @ + 1]
    /\ retrying' = TRUE
    /\ UNCHANGED <<interleaving_width, in_election, fsm_event, bank, any_remaining, ended>>

(* input_req in the election: a new request, of any master and any bank.   *)
(* It is forwarded inline like the others, and leaves no bit.              *)
MasterForwarded(m, addr) ==
    /\ retrying
    /\ Len(denied[m]) < MaxDenied
    /\ served' = [served EXCEPT ![BankOf(addr)] = @ \cup {m}]
    /\ UNCHANGED <<interleaving_width, pending_mask, rr_next, in_election, fsm_event, bank, retrying,
                   any_remaining, denied, winners, ended>>

(* retry() returns to fsm_handler, which looks at the bits that are left.  *)
RetryReturns ==
    /\ retrying
    /\ retrying' = FALSE
    /\ any_remaining' = (any_remaining \/ pending_mask[bank] # {})
    /\ bank' = bank + 1
    /\ UNCHANGED <<interleaving_width, pending_mask, rr_next, in_election, fsm_event, denied,
                   winners, served, ended>>

(* A slip: the FSM does not re-arm.                                        *)
SlipRearmed == "none"

(* fsm_handler ends: it re-arms for the next cycle when bits are left.     *)
Rearmed == IF any_remaining THEN "next" ELSE "none"

ElectionEnd ==
    /\ in_election /\ bank = nb_slaves
    /\ in_election' = FALSE
    /\ fsm_event' = Rearmed
    /\ bank' = 0 /\ any_remaining' = FALSE
    /\ UNCHANGED <<interleaving_width, pending_mask, rr_next, retrying, denied, winners, served, ended>>

(* The clock engine: next cycle.                                           *)
Tick ==
    /\ ~in_election /\ fsm_event \notin {"now", "due"}
    /\ fsm_event' = IF fsm_event = "next" THEN "due" ELSE fsm_event
    /\ winners' = [b \in Banks |-> 0] /\ served' = [b \in Banks |-> {}]
    /\ ended' = FALSE
    /\ UNCHANGED <<interleaving_width, pending_mask, rr_next, in_election, bank, retrying,
                   any_remaining, denied>>

(* reset(true) of the platform; the FSM event is not cancelled.            *)
reset ==
    /\ ~in_election
    /\ pending_mask' = [b \in Banks |-> {}]
    /\ rr_next' = [b \in Banks |-> 0]
    /\ denied' = [m \in Masters |-> <<>>]
    /\ UNCHANGED <<interleaving_width, in_election, fsm_event, bank, retrying, any_remaining,
                   winners, served, ended>>

(* The steps of fsm_handler.                                               *)
FsmStep == ElectionStart \/ SkipBank \/ Elect \/ RetryReturns \/ ElectionEnd

LogIcoNext ==
    \/ \E m \in Masters, addr \in Addrs : MasterRequest(m, addr)
    \/ \E m \in Eager, addr \in Addrs : MasterForwarded(m, addr)
    \/ FsmStep
    \/ Tick
    \/ reset

LogIcoSpec == LogIcoInit /\ [][LogIcoNext]_LogIcoVars

(* The engine runs due events and advances the clock, and a retry()        *)
(* returns.                                                                *)
LogIcoFairness == WF_LogIcoVars(FsmStep) /\ WF_LogIcoVars(Tick)

LogIcoFairSpec == LogIcoSpec /\ LogIcoFairness

----------------------------------------------------------------------------
(* Every variable stays in its range.                                      *)
LogIcoTypeOK ==
    /\ interleaving_width \in Widths
    /\ pending_mask \in [Banks -> SUBSET Masters]
    /\ rr_next \in [Banks -> Masters]
    /\ in_election \in BOOLEAN /\ retrying \in BOOLEAN
    /\ any_remaining \in BOOLEAN /\ ended \in BOOLEAN
    /\ fsm_event \in {"none", "now", "next", "due"}
    /\ bank \in 0 .. nb_slaves
    /\ denied \in [Masters -> Seq(Addrs)]
    /\ winners \in [Banks -> Nat] /\ served \in [Banks -> SUBSET Masters]

(* The bits remember the denied requests: input_req and the FSM together   *)
(* forget none, and a master that holds one request at a time is never     *)
(* called for nothing.                                                     *)
BitsMatch ==
    \A b \in Banks, m \in Masters :
        LET waits == \E i \in DOMAIN denied[m] : BankOf(denied[m][i]) = b
        IN  /\ waits => m \in pending_mask[b]
            /\ MaxDenied = 1 /\ m \in pending_mask[b] => waits

(* The FSM is scheduled as long as a bit is set: there is no idle state    *)
(* with a master waiting for a retry() that no event will make.            *)
FsmArmed ==
    ~in_election /\ (\E b \in Banks : pending_mask[b] # {}) => fsm_event # "none"

(* Whatever the masters issue, the FSM runs at most twice in a cycle: for  *)
(* the re-armed election and for the one at its end, which input_req       *)
(* schedules without a delay.  A bank then serves at most one master per   *)
(* election, of those that hold one request at a time and issue no other   *)
(* inside a retry().  A master of Eager can use any bank any number of     *)
(* times in the retry() of an election (log_ico_v2.cpp:242-261).  The      *)
(* comment of log_ico_v2.cpp:36-38, "each bank serves at most one master   *)
(* per cycle", is broken by both.                                          *)
TwoPerBank ==
    \A b \in Banks :
        /\ winners[b] <= 2
        /\ MaxDenied = 1 => Cardinality(served[b] \ Eager) <= winners[b]

(* What input_req and fsm_handler keep up between them: the types, a bit   *)
(* for each denied request, an event for the bits, and at most two         *)
(* elections in a cycle.                                                   *)
LogIcoInv == LogIcoTypeOK /\ BitsMatch /\ FsmArmed /\ TwoPerBank

(* One master per election would be two per bank and cycle.  Only masters  *)
(* outside Eager keep to it: the requests that the others issue inside a   *)
(* retry() are forwarded without an election (log_ico_v2.cpp:242-261).     *)
TwoAccesses == \A b \in Banks : Cardinality(served[b]) <= 2

(* Round robin: whenever a bank elects another master, one that stays      *)
(* pending on it comes strictly closer to the head of the scan, so it is   *)
(* passed over at most nb_masters - 1 times.                               *)
Distance(from, m) == (m - from + nb_masters) % nb_masters

Elected(b) == pending_mask'[b] # pending_mask[b] /\ pending_mask'[b] \subseteq pending_mask[b]

RoundRobin ==
    [][\A b \in Banks : Elected(b) /\ in_election =>
          \A m \in pending_mask'[b] : Distance(rr_next'[b], m) < Distance(rr_next[b], m)]_LogIcoVars

(* Decoding is a bijection between the addresses and the bytes of the      *)
(* banks, so that no two addresses share a byte, and consecutive words go  *)
(* to consecutive banks: decode_bank and decode_offset, with the width of  *)
(* this platform, up to eight banks and four words in each.                *)
DecodeBijective ==
    \A nb \in {1, 2, 4, 8} :
        LET iw    == interleaving_width
            word  == Pow2[iw]
            size  == 4 * word                        \* of a bank
        IN  \A addr \in 0 .. (nb * size - 1) :
                LET b   == decode_bank(addr, iw, nb)
                    off == decode_offset(addr, iw, nb)
                IN  /\ b \in 0 .. (nb - 1) /\ off \in 0 .. (size - 1)
                    /\ Encode(b, off, iw, nb) = addr
                    /\ decode_bank(addr + word, iw, nb) = (b + 1) % nb

(* A denied request is served, or dropped by a reset: each round of        *)
(* elections calls the retry() of every waiting master.                    *)
DeniedServed == \A m \in Masters : denied[m] # <<>> ~> denied[m] = <<>>
=============================================================================
