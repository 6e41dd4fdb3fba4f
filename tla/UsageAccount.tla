---------------------------- MODULE UsageAccount ----------------------------
(* What the resource accounting of Sieve binaries promises.  Every compiled
   binary owns an account: the CPU time of its costly executions, the time of
   the last entry and whether the script is disabled.  Entries are made one at
   a time; an account whose last entry is too old starts again from nothing.

   SieveBinary shows that reading the header of a binary and writing it back,
   under a lock and by processes that may die in between, implements this.  *)
EXTENDS Naturals, Sequences

CONSTANTS UintMax,      \* cpu_time_msecs is an unsigned int
          HighCpu,      \* SIEVE_HIGH_CPU_TIME_MSECS
          MaxCpu,       \* sieve_max_cpu_time, 0 for no limit
          Timeout       \* sieve_resource_usage_timeout

VARIABLES clock, accounts

acctVars == <<clock, accounts>>

UsageAdd(a, b) == IF UintMax - a < b THEN UintMax ELSE a + b

IsHigh(u) == u > HighCpu

IsExcessive(u) == MaxCpu # 0 /\ u > MaxCpu

(* The cumulative usage of a header; an old one counts for nothing. *)
CurrentUsage(h, now) == IF h.upd # 0 /\ now - h.upd > Timeout THEN 0 ELSE h.usage

(* The header with "total" as its cumulative usage: a total that is not high
   is not worth an entry, unless the script is disabled. *)
Entered(flag, total, now) ==
  LET kept == flag \/ IsHigh(total)
  IN [usage |-> IF kept THEN total ELSE 0,
      upd   |-> IF kept THEN now ELSE 0,
      flag  |-> flag \/ IsExcessive(IF kept THEN total ELSE 0)]

Tick == clock' = clock + 1 /\ UNCHANGED accounts

Open == /\ \E carried \in 0 .. UintMax :
              accounts' = Append(accounts, Entered(FALSE, carried, clock))
        /\ UNCHANGED clock

Charge(i, u) ==
  /\ accounts' = [accounts EXCEPT ![i] =
       Entered(@.flag, UsageAdd(CurrentUsage(@, clock), u), clock)]
  /\ UNCHANGED clock

AcctInit == clock = 1 /\ accounts \in {<<>>, <<[usage |-> 0, upd |-> 0, flag |-> FALSE]>>}

AcctNext == \/ Tick
            \/ Open
            \/ \E i \in DOMAIN accounts, u \in 1 .. UintMax : IsHigh(u) /\ Charge(i, u)

AcctSpec == AcctInit /\ [][AcctNext]_acctVars
=============================================================================
