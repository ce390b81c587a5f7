---------------------------- MODULE RateLimiter -----------------------------
(***************************************************************************)
(* The fixed-window rate limiter (services/gateway/internal/ratelimit):    *)
(* FixedWindowLimiter.Check over RedisStore, run by several gateways that  *)
(* share one Redis server.                                                 *)
(*                                                                         *)
(* A check reads its gateway's clock, computes the window, dials Redis,    *)
(* sends the increment script with a 500 ms deadline and judges the count  *)
(* that comes back.  Time is counted in seconds of the slowest gateway's   *)
(* clock: now.Unix() is a whole number of seconds, and two steps in the    *)
(* same second may be up to one second apart.  A check may be delayed at   *)
(* every step, and its script may run after the check has given up.        *)
(***************************************************************************)
EXTENDS Integers, FiniteSets

CONSTANTS Checks,        \* calls of Check, of all requests on all gateways
          Keys,          \* what precedes the window in a Redis key: tenant,
                         \* app, rule and hash of the rule's key part
          NoKey,         \* a check that has no key yet
          Limit,         \* RateLimitRule.Limit
          WindowSeconds, \* RateLimitRule.WindowSeconds
          FailClosed,    \* redis.fail_mode is "closed"
          Skew,          \* how far the fastest clock is ahead of the slowest
          MaxDial,       \* seconds until the kernel gives up a connection
          MinClock,      \* the clock when the first check may start
          MaxClock       \* bound: the clock stops here

(* Limit and window are positive in every policy the gateway accepts. *)
ASSUME LimiterAssumption ==
  /\ IsFiniteSet(Checks)
  /\ NoKey \notin Keys
  /\ Limit \in Nat \ {0}
  /\ WindowSeconds \in Nat \ {0}
  /\ FailClosed \in BOOLEAN
  /\ Skew \in Nat
  /\ MaxDial \in Nat
  /\ MinClock \in Nat
  /\ MaxClock \in Nat
  /\ MinClock <= MaxClock

VARIABLES
  clock,      \* the slowest gateway's clock
  phase,      \* where each check is
  since,      \* when the check began to dial, then when it had sent
  key,        \* the check's Redis key: the part before the window ...
  window,     \* ... and the window
  command,    \* what became of the check's EVAL command
  executedAt, \* when Redis ran it
  count,      \* the count the script returned to it
  verdict,    \* the check's answer
  counter,    \* Redis: the value at each key, 0 if never set
  expireAt    \* Redis: when that key expires

checkVars == <<phase, since, key, window, verdict>>
commandVars == <<command, executedAt, count>>
redisVars == <<counter, expireAt>>
vars == <<clock, checkVars, commandVars, redisVars>>

(* now.Unix() / windowSeconds at reading t. *)
WindowAt(t) == t \div WindowSeconds

Windows == 0 .. WindowAt(MaxClock + Skew)
Slots == Keys \X Windows

Init ==
  /\ clock = MinClock
  /\ phase = [c \in Checks |-> "idle"]
  /\ since = [c \in Checks |-> 0]
  /\ key = [c \in Checks |-> NoKey]
  /\ window = [c \in Checks |-> 0]
  /\ command = [c \in Checks |-> "unsent"]
  /\ executedAt = [c \in Checks |-> 0]
  /\ count = [c \in Checks |-> 0]
  /\ verdict = [c \in Checks |-> "none"]
  /\ counter = [s \in Slots |-> 0]
  /\ expireAt = [s \in Slots |-> 0]

Tick ==
  /\ clock < MaxClock
  /\ clock' = clock + 1
  /\ UNCHANGED <<checkVars, commandVars, redisVars>>

-----------------------------------------------------------------------------
(* Check. *)

(* A disabled rule, or one whose expression does not match, counts nothing *)
Skip(c) ==
  /\ phase[c] = "idle"
  /\ phase' = [phase EXCEPT ![c] = "answered"]
  /\ verdict' = [verdict EXCEPT ![c] = "skipped"]
  /\ UNCHANGED <<clock, since, key, window, commandVars, redisVars>>

(* Mutant: the check counts in whole seconds, not in windows. *)
StartInSeconds(c, k, ahead) ==
  /\ phase[c] = "idle"
  /\ phase' = [phase EXCEPT ![c] = "dialing"]
  /\ since' = [since EXCEPT ![c] = clock]
  /\ key' = [key EXCEPT ![c] = k]
  /\ window' = [window EXCEPT ![c] = clock + ahead]
  /\ UNCHANGED <<clock, verdict, commandVars, redisVars>>

(* The key is fixed here, before the connection is made. *)
Start(c, k, ahead) ==
  /\ phase[c] = "idle"
  /\ phase' = [phase EXCEPT ![c] = "dialing"]
  /\ since' = [since EXCEPT ![c] = clock]
  /\ key' = [key EXCEPT ![c] = k]
  /\ window' = [window EXCEPT ![c] = WindowAt(clock + ahead)]
  /\ UNCHANGED <<clock, verdict, commandVars, redisVars>>

(* DialContext has no timeout of its own. *)
Send(c) ==
  /\ phase[c] = "dialing"
  /\ clock <= since[c] + MaxDial
  /\ phase' = [phase EXCEPT ![c] = "waiting"]
  /\ since' = [since EXCEPT ![c] = clock]
  /\ command' = [command EXCEPT ![c] = "sent"]
  /\ UNCHANGED <<clock, key, window, executedAt, count, verdict, redisVars>>

(* Mutant: the connection has no deadline. *)
ReplyNoDeadline(c) ==
  /\ phase[c] = "waiting"
  /\ command[c] = "executed"
  /\ phase' = [phase EXCEPT ![c] = "answered"]
  /\ verdict' = [verdict EXCEPT ![c] =
                   IF count[c] <= Limit THEN "under" ELSE "over"]
  /\ UNCHANGED <<clock, since, key, window, commandVars, redisVars>>

(* The reply arrives before the deadline. *)
Reply(c) ==
  /\ phase[c] = "waiting"
  /\ command[c] = "executed"
  /\ clock <= since[c] + 1
  /\ phase' = [phase EXCEPT ![c] = "answered"]
  /\ verdict' = [verdict EXCEPT ![c] =
                   IF count[c] <= Limit THEN "under" ELSE "over"]
  /\ UNCHANGED <<clock, since, key, window, commandVars, redisVars>>

(* The store returns an error: the dial fails, the request is cancelled,   *)
(* the connection breaks or the deadline passes.  A command that was sent  *)
(* stays on its way; the reply to one that ran is lost.                    *)
Fail(c) ==
  /\ phase[c] \in {"dialing", "waiting"}
  /\ phase' = [phase EXCEPT ![c] = "answered"]
  /\ verdict' = [verdict EXCEPT ![c] = IF FailClosed THEN "closed" ELSE "open"]
  /\ UNCHANGED <<clock, since, key, window, commandVars, redisVars>>

-----------------------------------------------------------------------------
(* Redis runs the script, atomically. *)

Slot(c) == <<key[c], window[c]>>

(* Mutant: all windows of a key share one counter. *)
IncrementedAcrossWindows(s, current) ==
  LET last == CHOOSE w \in Windows :
                \A v \in Windows : expireAt[<<s[1], v>>] <= expireAt[<<s[1], w>>]
  IN  \/ clock <= expireAt[<<s[1], last>>]
           /\ current = counter[<<s[1], last>>] + 1
      \/ clock >= expireAt[<<s[1], last>>] /\ current = 1

(* INCR: a key past its expiry counts from 1 again.  Within the very       *)
(* second it expires in, it may or may not be gone.                        *)
Incremented(s, current) ==
  \/ clock <= expireAt[s] /\ current = counter[s] + 1
  \/ clock >= expireAt[s] /\ current = 1

(* Mutant: the key expires early, after half a window. *)
ExecuteHalfExpiry(c, current) ==
  /\ command[c] = "sent"
  /\ Incremented(Slot(c), current)
  /\ command' = [command EXCEPT ![c] = "executed"]
  /\ executedAt' = [executedAt EXCEPT ![c] = clock]
  /\ count' = [count EXCEPT ![c] = current]
  /\ counter' = [counter EXCEPT ![Slot(c)] = current]
  /\ expireAt' = IF current = 1
                 THEN [expireAt EXCEPT ![Slot(c)] =
                         clock + WindowSeconds \div 2]
                 ELSE expireAt
  /\ UNCHANGED <<clock, checkVars>>

(* EXPIRE is set by the increment that creates the key, never renewed. *)
Execute(c, current) ==
  /\ command[c] = "sent"
  /\ Incremented(Slot(c), current)
  /\ command' = [command EXCEPT ![c] = "executed"]
  /\ executedAt' = [executedAt EXCEPT ![c] = clock]
  /\ count' = [count EXCEPT ![c] = current]
  /\ counter' = [counter EXCEPT ![Slot(c)] = current]
  /\ expireAt' = IF current = 1
                 THEN [expireAt EXCEPT ![Slot(c)] = clock + WindowSeconds]
                 ELSE expireAt
  /\ UNCHANGED <<clock, checkVars>>

(* Bound: every check is answered and time has run out. *)
Finished ==
  /\ clock = MaxClock
  /\ \A c \in Checks : phase[c] = "answered"
  /\ UNCHANGED vars

Next ==
  \/ Tick
  \/ \E c \in Checks :
       \/ Skip(c)
       \/ \E k \in Keys, ahead \in 0 .. Skew : Start(c, k, ahead)
       \/ Send(c)
       \/ Reply(c)
       \/ Fail(c)
       \/ \E current \in 1 .. Cardinality(Checks) : Execute(c, current)
  \/ Finished

Spec == Init /\ [][Next]_vars

-----------------------------------------------------------------------------
(* Properties. *)

(* Types of the checks' and of Redis' state. *)
TypeOK ==
  /\ clock \in MinClock .. MaxClock
  /\ phase \in [Checks -> {"idle", "dialing", "waiting", "answered"}]
  /\ since \in [Checks -> Nat]
  /\ key \in [Checks -> Keys \cup {NoKey}]
  /\ window \in [Checks -> Windows]
  /\ command \in [Checks -> {"unsent", "sent", "executed"}]
  /\ executedAt \in [Checks -> Nat]
  /\ count \in [Checks -> Nat]
  /\ verdict \in [Checks ->
                    {"none", "skipped", "under", "over", "open", "closed"}]
  /\ counter \in [Slots -> Nat]
  /\ expireAt \in [Slots -> Nat]

Executed(s) == {c \in Checks : command[c] = "executed" /\ Slot(c) = s}

(* The instant at which the first gateway leaves window w. *)
WindowEnd(w) == (w + 1) * WindowSeconds - Skew

InTime(c) == executedAt[c] < WindowEnd(window[c])

Admitted(s) == {c \in Executed(s) : verdict[c] = "under"}

(* The limit holds: of the checks of one key and window that Redis counts  *)
(* before any gateway has left the window, at most Limit are admitted,     *)
(* whatever is delayed, lost or abandoned.  With synchronous clocks that   *)
(* is the whole window.                                                    *)
LimitHolds ==
  \A s \in Slots : Cardinality({c \in Admitted(s) : InTime(c)}) <= Limit

(* Nobody is refused for another's traffic: a check over the limit follows *)
(* at least Limit other checks of its own key and window.                  *)
RefusalIsEarned ==
  \A c \in Checks :
    verdict[c] = "over" => Cardinality(Executed(Slot(c)) \ {c}) >= Limit

(* Delays and clock skew that stay within a window at most double the      *)
(* limit: a key is counted in no more than two lifetimes.                  *)
TwiceTheLimit ==
  Skew + MaxDial < WindowSeconds =>
    \A s \in Slots : Cardinality(Admitted(s)) <= 2 * Limit

-----------------------------------------------------------------------------
(* The inductive invariant. *)

(* A command is sent by a check that has a key; answers by count come from *)
(* executed commands.                                                      *)
PhaseInv ==
  \A c \in Checks :
    /\ phase[c] = "idle" => command[c] = "unsent" /\ verdict[c] = "none"
    /\ phase[c] = "dialing" => command[c] = "unsent" /\ key[c] \in Keys
    /\ phase[c] = "waiting" => command[c] # "unsent"
    /\ command[c] # "unsent" => key[c] \in Keys
    /\ verdict[c] = "under" => command[c] = "executed" /\ count[c] <= Limit
    /\ verdict[c] = "over" => command[c] = "executed" /\ count[c] > Limit

(* No check is in a window that no gateway has reached, so a key is not    *)
(* created early and does not expire before its window ends anywhere.      *)
ExpiryInv ==
  /\ \A c \in Checks :
       phase[c] = "dialing" \/ command[c] # "unsent" =>
         window[c] * WindowSeconds <= clock + Skew
  /\ \A s \in Slots : counter[s] > 0 => expireAt[s] >= WindowEnd(s[2])

(* Redis numbers the checks it counts in time; none has a number above the *)
(* counter while the window lasts.                                         *)
NumberInv ==
  /\ \A c \in Checks : command[c] = "executed" => count[c] >= 1
  /\ \A c \in Checks :
       command[c] = "executed" /\ clock < WindowEnd(window[c]) =>
         count[c] <= counter[Slot(c)]
  /\ \A c, d \in Checks :
       (/\ command[c] = "executed" /\ InTime(c)
        /\ command[d] = "executed" /\ InTime(d)
        /\ Slot(c) = Slot(d)
        /\ count[c] = count[d]) => c = d

(* Counts never exceed the number of commands that were executed. *)
CountInv ==
  /\ \A s \in Slots : counter[s] <= Cardinality(Executed(s))
  /\ \A c \in Checks :
       command[c] = "executed" => count[c] <= Cardinality(Executed(Slot(c)))

(* Inductive; implies LimitHolds and RefusalIsEarned. *)
LimiterInv == TypeOK /\ PhaseInv /\ ExpiryInv /\ NumberInv /\ CountInv

(* The instant at which the slowest gateway leaves window w. *)
OwnEnd(w) == (w + 1) * WindowSeconds

(* A check starts before its window ends on its own gateway, and an answer *)
(* by count follows within MaxDial and the deadline of the connection.     *)
DelayInv ==
  \A c \in Checks :
    /\ phase[c] = "dialing" => since[c] < OwnEnd(window[c])
    /\ phase[c] = "waiting" => since[c] < OwnEnd(window[c]) + MaxDial
    /\ command[c] = "executed" => executedAt[c] <= clock
    /\ verdict[c] = "under" => executedAt[c] <= OwnEnd(window[c]) + MaxDial

SameNumber(c, d) ==
  /\ c # d
  /\ command[c] = "executed" /\ command[d] = "executed"
  /\ Slot(c) = Slot(d)
  /\ count[c] = count[d]

(* A key lives for WindowSeconds, and the next life begins when it is      *)
(* over.  A number above the counter is of an earlier life; a number that  *)
(* was given twice is of two lives, one given three times is of three, and *)
(* the third begins a whole window after the first gateway has left.       *)
LifetimeInv ==
  /\ \A s \in Slots : expireAt[s] <= clock + WindowSeconds
  /\ \A c \in Checks :
       command[c] = "executed" =>
         /\ counter[Slot(c)] > 0
         /\ count[c] > counter[Slot(c)] =>
              expireAt[Slot(c)] >= WindowEnd(window[c]) + WindowSeconds
  /\ \A c, d \in Checks :
       SameNumber(c, d) =>
         /\ expireAt[Slot(c)] >= WindowEnd(window[c]) + WindowSeconds
         /\ count[c] > counter[Slot(c)] =>
              expireAt[Slot(c)] >= WindowEnd(window[c]) + 2 * WindowSeconds
  /\ \A c, d, e \in Checks :
       SameNumber(c, d) /\ SameNumber(c, e) /\ d # e =>
         \E x \in {c, d, e} :
           executedAt[x] >= WindowEnd(window[x]) + WindowSeconds

(* Inductive; implies TwiceTheLimit. *)
LivesInv == LimiterInv /\ DelayInv /\ LifetimeInv

=============================================================================
