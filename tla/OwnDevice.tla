----------------------------- MODULE OwnDevice -----------------------------
(***************************************************************************)
(* The part of a device-owning daemon's loop (standalone and distributed   *)
(* worker) that keeps its own backend registered: each turn claims a slot  *)
(* of the PublicationThrottle, re-reads the device if one is due, refreshes *)
(* the registry entry, expires stale entries, and only then does work that *)
(* may take any amount of time.                                            *)
(*                                                                         *)
(* Time passes at every point of the turn, and neither reading the device  *)
(* nor the work is bounded: a refreshed entry is stamped when its read has *)
(* ended.  Only the way from there, or from a claim that is refused, to    *)
(* expire()'s clock reading takes at most MaxLag.                          *)
(***************************************************************************)
EXTENDS BackendRegistry

CONSTANTS
  Self,             \* the own backend's name
  OwnQueue,         \* the queue it is registered with (NoQueue: standalone)
  TimeToLive,       \* submitter.backendRegistry.entryTimeToLive
  PublishInterval,  \* submitter.backendStatusPublishInterval
  MaxLag,           \* longest time from a refused claim(), or from the end of
                    \* the read, to expire()
  MaxNow            \* bound on the clock

\* assembleConfig() rejects a configuration whose time-to-live is not longer
\* than the publish interval, and non-positive values of either.
ASSUME TimingAssumption ==
  /\ TimeToLive \in Nat /\ PublishInterval \in Nat \ {0}
  /\ TimeToLive > PublishInterval
  /\ MaxNow \in Nat

\* Nothing in the code enforces this one: on the way to expire() a worker
\* sends its status, and a standalone daemon does nothing that takes time.
ASSUME LagAssumption == MaxLag \in Nat /\ MaxLag <= TimeToLive - PublishInterval

VARIABLES
  now,          \* steady_clock::now()
  opc,          \* where the loop is
  entries,      \* the registry
  claimed,      \* lastClaimed.has_value()
  lastClaimed,  \* the throttle's last claimed slot
  lastRead,     \* history: when the last read of the device ended
  readFailed,   \* history: that read failed
  lagStart      \* history: when the turn was last on its way to expire()

ownVars == <<now, opc, entries, claimed, lastClaimed, lastRead, readFailed,
             lagStart>>

own == [name |-> Self, queueName |-> OwnQueue]

OwnInit ==
  /\ now = 0
  /\ opc = "claim"
  /\ entries = insertOrRefresh(EmptyRegistry, own, 0)
  /\ claimed = FALSE /\ lastClaimed = 0
  /\ lastRead = 0 /\ readFailed = FALSE /\ lagStart = 0

\* Faulty variants of claim.
claimWith(isTooSoon, slot(_)) ==
  /\ opc = "claim"
  /\ lagStart' = now
  /\ claimed' = TRUE
  /\ opc' = IF claimed /\ isTooSoon THEN "expire" ELSE "read"
  /\ lastClaimed' = slot(claimed /\ isTooSoon)
  /\ UNCHANGED <<now, entries, lastRead, readFailed>>

\* A refused claim uses up the slot too.
claimSliding ==
  claimWith(now - lastClaimed < PublishInterval, LAMBDA refused : now)

\* The slot is due one unit late.
claimLate ==
  claimWith(now - lastClaimed <= PublishInterval,
            LAMBDA refused : IF refused THEN lastClaimed ELSE now)

\* PublicationThrottle::claim(), the first thing of a turn.
claim ==
  /\ opc = "claim"
  /\ lagStart' = now
  /\ IF claimed /\ now - lastClaimed < PublishInterval
     THEN opc' = "expire" /\ UNCHANGED <<claimed, lastClaimed>>
     ELSE opc' = "read" /\ claimed' = TRUE /\ lastClaimed' = now
  /\ UNCHANGED <<now, entries, lastRead, readFailed>>

\* fromSubmitter() fails: logged and skipped, with the slot used up.
ReadFails ==
  /\ opc = "read"
  /\ opc' = "expire"
  /\ lastRead' = now /\ readFailed' = TRUE /\ lagStart' = now
  /\ UNCHANGED <<now, entries, claimed, lastClaimed>>

\* fromSubmitter() succeeds and the entry is refreshed.
ReadSucceeds ==
  /\ opc = "read"
  /\ opc' = "expire"
  /\ entries' = insertOrRefresh(entries, own, now)
  /\ lastRead' = now /\ readFailed' = FALSE /\ lagStart' = now
  /\ UNCHANGED <<now, claimed, lastClaimed>>

Expire ==
  /\ opc = "expire"
  /\ opc' = "work"
  /\ entries' = expire(entries, now, TimeToLive)
  /\ UNCHANGED <<now, claimed, lastClaimed, lastRead, readFailed, lagStart>>

\* The rest of the turn: receive, compile, submit, collect, sleep.
Work ==
  /\ opc = "work"
  /\ opc' = "claim"
  /\ UNCHANGED <<now, entries, claimed, lastClaimed, lastRead, readFailed,
                 lagStart>>

OwnTick ==
  /\ now < MaxNow
  /\ opc = "expire" => now - lagStart < MaxLag
  /\ now' = now + 1
  /\ UNCHANGED <<opc, entries, claimed, lastClaimed, lastRead, readFailed,
                 lagStart>>

OwnNext == claim \/ ReadFails \/ ReadSucceeds \/ Expire \/ Work \/ OwnTick

OwnSpec == OwnInit /\ [][OwnNext]_ownVars

(***************************************************************************)
(* Properties.                                                             *)
(***************************************************************************)

OwnTypeOK ==
  /\ now \in Nat /\ lastClaimed \in Nat /\ lastRead \in Nat /\ lagStart \in Nat
  /\ opc \in {"claim", "read", "expire", "work"}
  /\ claimed \in BOOLEAN /\ readFailed \in BOOLEAN
  /\ DOMAIN entries \subseteq {Self}
  /\ \A n \in DOMAIN entries :
       entries[n] \in [backend : {own}, lastRefreshed : Nat]

\* The invariant the loop's order is chosen for: however long a read and the
\* work of a turn take, the daemon is missing from its own registry only while
\* its latest read of the device is one that failed.
NoSelfExpiry == contains(entries, Self) \/ readFailed

\* The throttle loses no time: whenever expire() runs, a read of the device
\* ended less than one publish interval and the lag ago, so a failed one is
\* repeated by then; and one that succeeded is the age of the entry.
FreshWhenExpiring ==
  opc = "expire" =>
    /\ now - lastRead < PublishInterval + MaxLag
    /\ ~readFailed => /\ contains(entries, Self)
                      /\ entries[Self].lastRefreshed = lastRead
=============================================================================
