------------------------- MODULE RateLimiterProofs --------------------------
(***************************************************************************)
(* Proofs about RateLimiter for any number of checks, any keys, limit,     *)
(* window, clock skew and delay: types, that the limit is kept within a    *)
(* window, and that a refusal is earned by traffic of the same key.        *)
(***************************************************************************)
EXTENDS RateLimiter, FiniteSetTheorems, TLAPS

-----------------------------------------------------------------------------
(* Windows. *)

LEMMA WindowBounds ==
  ASSUME NEW t \in Nat
  PROVE  /\ WindowAt(t) \in Nat
         /\ WindowAt(t) * WindowSeconds <= t
  BY LimiterAssumption DEF WindowAt

LEMMA WindowMonotonic ==
  ASSUME NEW t \in Nat, NEW u \in Nat, t <= u
  PROVE  WindowAt(t) <= WindowAt(u)
  BY LimiterAssumption DEF WindowAt

LEMMA WindowsAreNaturals == Windows \subseteq Nat
<1>1. WindowAt(MaxClock + Skew) \in Nat
  BY LimiterAssumption, WindowBounds
<1> QED
  BY <1>1 DEF Windows

LEMMA WindowEndIs ==
  ASSUME NEW w \in Nat
  PROVE  /\ w * WindowSeconds \in Nat
         /\ WindowEnd(w) \in Int
         /\ WindowEnd(w) = w * WindowSeconds + WindowSeconds - Skew
  BY LimiterAssumption DEF WindowEnd

LEMMA StartedWindow ==
  ASSUME NEW t \in Nat, t <= MaxClock, NEW ahead \in 0 .. Skew
  PROVE  /\ WindowAt(t + ahead) \in Windows
         /\ WindowAt(t + ahead) * WindowSeconds <= t + Skew
<1>1. t + ahead \in Nat /\ MaxClock + Skew \in Nat
      /\ t + ahead <= MaxClock + Skew /\ t + ahead <= t + Skew
  BY LimiterAssumption
<1>2. /\ WindowAt(t + ahead) \in Nat
      /\ WindowAt(t + ahead) * WindowSeconds <= t + ahead
      /\ WindowAt(t + ahead) <= WindowAt(MaxClock + Skew)
      /\ WindowAt(MaxClock + Skew) \in Nat
  BY <1>1, WindowBounds, WindowMonotonic
<1>3. WindowAt(t + ahead) * WindowSeconds \in Nat
  BY <1>2, LimiterAssumption
<1> QED
  BY <1>1, <1>2, <1>3, LimiterAssumption DEF Windows

-----------------------------------------------------------------------------
(* Types. *)

LEMMA InitType == Init => TypeOK
<1> SUFFICES ASSUME Init PROVE TypeOK
  OBVIOUS
<1>1. 0 \in Windows
  BY LimiterAssumption, WindowBounds DEF Windows
<1> QED
  BY <1>1, LimiterAssumption DEF Init, TypeOK

LEMMA SlotType ==
  ASSUME TypeOK, PhaseInv, NEW c \in Checks, command[c] # "unsent"
  PROVE  /\ Slot(c) \in Slots
         /\ window[c] \in Nat
         /\ Slot(c)[2] = window[c]
  BY WindowsAreNaturals DEF TypeOK, PhaseInv, Slot, Slots

LEMMA NextType ==
  ASSUME TypeOK, PhaseInv, [Next]_vars
  PROVE  TypeOK'
<1> USE LimiterAssumption
<1>1. CASE Tick
  BY <1>1 DEF TypeOK, Tick, checkVars, commandVars, redisVars, Slots, Windows
<1>2. ASSUME NEW c \in Checks, Skip(c) PROVE TypeOK'
  BY <1>2 DEF TypeOK, Skip, commandVars, redisVars
<1>3. ASSUME NEW c \in Checks, NEW k \in Keys, NEW ahead \in 0 .. Skew,
             Start(c, k, ahead)
      PROVE  TypeOK'
  <2>0. clock \in Nat /\ clock <= MaxClock
    BY DEF TypeOK
  <2>1. WindowAt(clock + ahead) \in Windows
    BY <2>0, StartedWindow
  <2>2. phase' \in [Checks -> {"idle", "dialing", "waiting", "answered"}]
    BY <1>3 DEF TypeOK, Start
  <2>3. since' \in [Checks -> Nat]
    BY <1>3 DEF TypeOK, Start
  <2>4. key' \in [Checks -> Keys \cup {NoKey}]
    BY <1>3 DEF TypeOK, Start
  <2>5. window' \in [Checks -> Windows]
    BY <1>3, <2>1 DEF TypeOK, Start
  <2> QED
    BY <1>3, <2>2, <2>3, <2>4, <2>5
    DEF TypeOK, Start, commandVars, redisVars
<1>4. ASSUME NEW c \in Checks, Send(c) PROVE TypeOK'
  BY <1>4 DEF TypeOK, Send, redisVars
<1>5. ASSUME NEW c \in Checks, Reply(c) PROVE TypeOK'
  BY <1>5 DEF TypeOK, Reply, commandVars, redisVars
<1>6. ASSUME NEW c \in Checks, Fail(c) PROVE TypeOK'
  BY <1>6 DEF TypeOK, Fail, commandVars, redisVars
<1>7. ASSUME NEW c \in Checks, NEW n \in 1 .. Cardinality(Checks),
             Execute(c, n)
      PROVE  TypeOK'
  <2>1. n \in Nat
    BY FS_CardinalityType
  <2>2. /\ clock' \in MinClock .. MaxClock
        /\ phase' \in [Checks -> {"idle", "dialing", "waiting", "answered"}]
        /\ since' \in [Checks -> Nat]
        /\ key' \in [Checks -> Keys \cup {NoKey}]
        /\ window' \in [Checks -> Windows]
        /\ verdict' \in [Checks -> {"none", "skipped", "under", "over",
                                    "open", "closed"}]
    BY <1>7 DEF TypeOK, Execute, checkVars
  <2>3. /\ command' \in [Checks -> {"unsent", "sent", "executed"}]
        /\ executedAt' \in [Checks -> Nat]
        /\ count' \in [Checks -> Nat]
    BY <1>7, <2>1 DEF TypeOK, Execute
  <2>4. counter' \in [Slots -> Nat]
    BY <1>7, <2>1 DEF TypeOK, Execute
  <2>5. clock + WindowSeconds \in Nat
    BY DEF TypeOK
  <2>6. expireAt' \in [Slots -> Nat]
    BY <1>7, <2>5 DEF TypeOK, Execute
  <2> QED
    BY <2>2, <2>3, <2>4, <2>6 DEF TypeOK
<1>8. CASE UNCHANGED vars
  BY <1>8 DEF TypeOK, vars, checkVars, commandVars, redisVars
<1> QED
  BY <1>1, <1>2, <1>3, <1>4, <1>5, <1>6, <1>7, <1>8 DEF Next, Finished

-----------------------------------------------------------------------------
(* Phases. *)

LEMMA NextPhase ==
  ASSUME TypeOK, PhaseInv, [Next]_vars
  PROVE  PhaseInv'
<1> USE DEF TypeOK, PhaseInv
<1>1. CASE Tick
  BY <1>1 DEF Tick, checkVars, commandVars
<1>2. ASSUME NEW c \in Checks, Skip(c) PROVE PhaseInv'
  BY <1>2 DEF Skip, commandVars
<1>3. ASSUME NEW c \in Checks, NEW k \in Keys, NEW ahead \in 0 .. Skew,
             Start(c, k, ahead)
      PROVE  PhaseInv'
  BY <1>3 DEF Start, commandVars
<1>4. ASSUME NEW c \in Checks, Send(c) PROVE PhaseInv'
  BY <1>4 DEF Send
<1>5. ASSUME NEW c \in Checks, Reply(c) PROVE PhaseInv'
  BY <1>5, LimiterAssumption DEF Reply, commandVars
<1>6. ASSUME NEW c \in Checks, Fail(c) PROVE PhaseInv'
  BY <1>6 DEF Fail, commandVars
<1>7. ASSUME NEW c \in Checks, NEW n \in 1 .. Cardinality(Checks),
             Execute(c, n)
      PROVE  PhaseInv'
  BY <1>7 DEF Execute, checkVars
<1>8. CASE UNCHANGED vars
  BY <1>8 DEF vars, checkVars, commandVars
<1> QED
  BY <1>1, <1>2, <1>3, <1>4, <1>5, <1>6, <1>7, <1>8 DEF Next, Finished

-----------------------------------------------------------------------------
(* Expiry: a key is created when its window has begun on some gateway, and *)
(* so does not expire before some gateway leaves it.                       *)

LEMMA NextExpiry ==
  ASSUME TypeOK, PhaseInv, ExpiryInv, [Next]_vars, TypeOK'
  PROVE  ExpiryInv'
<1> USE LimiterAssumption, WindowsAreNaturals
<1> DEFINE Begun(c) == phase[c] = "dialing" \/ command[c] # "unsent" =>
                         window[c] * WindowSeconds <= clock + Skew
           Lasts(s) == counter[s] > 0 => expireAt[s] >= WindowEnd(s[2])
<1>a. \A c \in Checks : Begun(c)
  BY DEF ExpiryInv
<1>b. \A s \in Slots : Lasts(s)
  BY DEF ExpiryInv
<1> SUFFICES (\A c \in Checks : Begun(c)') /\ (\A s \in Slots : Lasts(s)')
  BY DEF ExpiryInv
<1> HIDE DEF Lasts
<1>0. \A c \in Checks : window[c] \in Nat /\ window[c] * WindowSeconds \in Nat
  BY WindowEndIs DEF TypeOK
<1>1. CASE Tick
  <2>1. \A c \in Checks : Begun(c)'
    BY <1>1, <1>a, <1>0 DEF TypeOK, Tick, checkVars, commandVars
  <2>2. \A s \in Slots : Lasts(s)'
    BY <1>1, <1>b DEF Lasts, Tick, redisVars
  <2> QED
    BY <2>1, <2>2
<1>2. ASSUME NEW c \in Checks, Skip(c) \/ Send(c) \/ Reply(c) \/ Fail(c)
      PROVE  (\A d \in Checks : Begun(d)') /\ (\A s \in Slots : Lasts(s)')
  <2>1. /\ UNCHANGED <<clock, window, redisVars>>
        /\ \A d \in Checks : phase[d]' = "dialing" \/ command[d]' # "unsent"
                        => phase[d] = "dialing" \/ command[d] # "unsent"
    BY <1>2 DEF TypeOK, PhaseInv, Skip, Send, Reply, Fail, commandVars
  <2>2. \A d \in Checks : Begun(d)'
    BY <2>1, <1>a
  <2>3. \A s \in Slots : Lasts(s)'
    BY <2>1, <1>b DEF Lasts, redisVars
  <2> QED
    BY <2>2, <2>3
<1>3. ASSUME NEW c \in Checks, NEW k \in Keys, NEW ahead \in 0 .. Skew,
             Start(c, k, ahead)
      PROVE  (\A d \in Checks : Begun(d)') /\ (\A s \in Slots : Lasts(s)')
  <2>0. clock \in Nat /\ clock <= MaxClock
    BY DEF TypeOK
  <2>1. WindowAt(clock + ahead) * WindowSeconds <= clock + Skew
    BY <2>0, StartedWindow
  <2>2. ASSUME NEW d \in Checks PROVE Begun(d)'
    <3>1. CASE d = c
      BY <1>3, <2>1, <3>1 DEF TypeOK, Start
    <3>2. CASE d # c
      <4>1. /\ phase'[d] = phase[d] /\ window'[d] = window[d]
            /\ UNCHANGED <<clock, command>>
        BY <1>3, <3>2 DEF TypeOK, Start, commandVars
      <4> QED
        BY <4>1, <1>a
    <3> QED
      BY <3>1, <3>2
  <2>3. \A s \in Slots : Lasts(s)'
    BY <1>3, <1>b DEF Lasts, Start, redisVars
  <2> QED
    BY <2>2, <2>3
<1>4. ASSUME NEW c \in Checks, NEW n \in 1 .. Cardinality(Checks),
             Execute(c, n)
      PROVE  (\A d \in Checks : Begun(d)') /\ (\A s \in Slots : Lasts(s)')
  <2>1. \A d \in Checks : Begun(d)'
    BY <1>4, <1>a DEF TypeOK, Execute, checkVars
  <2>2. /\ Slot(c) \in Slots
        /\ Slot(c)[2] = window[c]
        /\ window[c] * WindowSeconds <= clock + Skew
    BY <1>4, <1>a, SlotType DEF Execute
  <2>3. WindowEnd(window[c]) <= clock + WindowSeconds
    BY <2>2, <1>0, WindowEndIs DEF TypeOK
  <2>4. ASSUME NEW s \in Slots PROVE Lasts(s)'
    <3>1. CASE s # Slot(c)
      <4>1. counter'[s] = counter[s] /\ expireAt'[s] = expireAt[s]
        BY <1>4, <2>2, <3>1 DEF TypeOK, Execute
      <4> QED
        BY <4>1, <1>b DEF Lasts
    <3>2. CASE s = Slot(c) /\ n = 1
      <4>1. expireAt'[s] = clock + WindowSeconds /\ s[2] = window[c]
        BY <1>4, <2>2, <3>2 DEF TypeOK, Execute
      <4>2. WindowEnd(s[2])' = WindowEnd(s[2])
        BY DEF WindowEnd
      <4> QED
        BY <4>1, <4>2, <2>3, WindowEndIs, <1>0 DEF Lasts, TypeOK
    <3>3. CASE s = Slot(c) /\ n # 1
      <4>1. n = counter[s] + 1 /\ expireAt' = expireAt
        BY <1>4, <3>3 DEF Execute, Incremented
      <4>2. counter[s] > 0
        BY <4>1, <3>3, FS_CardinalityType DEF TypeOK
      <4> QED
        BY <4>1, <4>2, <1>b DEF Lasts, WindowEnd
    <3> QED
      BY <3>1, <3>2, <3>3
  <2> QED
    BY <2>1, <2>4
<1>5. CASE UNCHANGED vars
  <2>1. UNCHANGED <<clock, phase, window, command, counter, expireAt>>
    BY <1>5 DEF vars, checkVars, commandVars, redisVars
  <2> QED
    BY <2>1, <1>a, <1>b DEF Lasts, WindowEnd
<1> QED
  BY <1>1, <1>2, <1>3, <1>4, <1>5 DEF Next, Finished

-----------------------------------------------------------------------------
(* Numbers. *)

(* What the script computes: while the window lasts, the next number. *)
LEMMA ScriptCounts ==
  ASSUME TypeOK, PhaseInv, ExpiryInv, NEW c \in Checks,
         NEW n \in 1 .. Cardinality(Checks), Execute(c, n)
  PROVE  /\ n \in Nat \ {0}
         /\ n <= counter[Slot(c)] + 1
         /\ clock < WindowEnd(window[c]) => n = counter[Slot(c)] + 1
<1>1. n \in Nat \ {0}
  BY LimiterAssumption, FS_CardinalityType
<1>2. Slot(c) \in Slots /\ Slot(c)[2] = window[c] /\ window[c] \in Nat
  BY SlotType DEF Execute
<1>3. counter[Slot(c)] \in Nat /\ expireAt[Slot(c)] \in Nat /\ clock \in Nat
  BY <1>2, LimiterAssumption DEF TypeOK
<1>4. \/ clock <= expireAt[Slot(c)] /\ n = counter[Slot(c)] + 1
      \/ clock >= expireAt[Slot(c)] /\ n = 1
  BY DEF Execute, Incremented
<1>5. counter[Slot(c)] > 0 => expireAt[Slot(c)] >= WindowEnd(window[c])
  BY <1>2 DEF ExpiryInv
<1>6. WindowEnd(window[c]) \in Int
  BY <1>2, WindowEndIs
<1> QED
  BY <1>1, <1>3, <1>4, <1>5, <1>6

(* Steps that leave the numbers alone. *)
LEMMA NumbersUnchanged ==
  ASSUME TypeOK, PhaseInv, NumberInv, TypeOK',
         UNCHANGED <<count, executedAt, counter>>,
         clock <= clock',
         \A c \in Checks :
           command'[c] = "executed" =>
             /\ command[c] = "executed"
             /\ key'[c] = key[c]
             /\ window'[c] = window[c]
  PROVE  NumberInv'
<1>1. \A c \in Checks :
        command'[c] = "executed" =>
          /\ command[c] = "executed"
          /\ Slot(c)' = Slot(c)
          /\ window'[c] = window[c]
          /\ WindowEnd(window[c])' = WindowEnd(window[c])
          /\ WindowEnd(window[c]) \in Int
          /\ InTime(c)' = InTime(c)
  BY WindowEndIs, WindowsAreNaturals
  DEF TypeOK, Slot, InTime, WindowEnd
<1>2. clock \in Int /\ clock' \in Int
  BY LimiterAssumption DEF TypeOK
<1>3. \A c \in Checks : command'[c] = "executed" => count'[c] >= 1
  BY <1>1 DEF NumberInv
<1>4. ASSUME NEW c \in Checks, command'[c] = "executed",
             clock' < WindowEnd(window'[c])
      PROVE  count'[c] <= counter'[Slot(c)']
  <2>1. clock < WindowEnd(window[c])
    BY <1>1, <1>2, <1>4
  <2> QED
    BY <1>1, <1>4, <2>1 DEF NumberInv
<1>5. ASSUME NEW c \in Checks, NEW d \in Checks,
             command'[c] = "executed", InTime(c)',
             command'[d] = "executed", InTime(d)',
             Slot(c)' = Slot(d)', count'[c] = count'[d]
      PROVE  c = d
  BY <1>1, <1>5 DEF NumberInv
<1> QED
  BY <1>3, <1>4, <1>5 DEF NumberInv, WindowEnd

LEMMA ExecuteNumbers ==
  ASSUME TypeOK, PhaseInv, ExpiryInv, NumberInv, TypeOK', NEW c \in Checks,
         NEW n \in 1 .. Cardinality(Checks), Execute(c, n)
  PROVE  NumberInv'
<1>1. /\ n \in Nat \ {0}
      /\ clock < WindowEnd(window[c]) => n = counter[Slot(c)] + 1
      /\ Slot(c) \in Slots
      /\ counter[Slot(c)] \in Nat
  BY ScriptCounts, SlotType DEF Execute, TypeOK
<1>2. /\ UNCHANGED <<clock, key, window>>
      /\ \A d \in Checks : Slot(d)' = Slot(d)
      /\ command' = [command EXCEPT ![c] = "executed"]
      /\ executedAt' = [executedAt EXCEPT ![c] = clock]
      /\ count' = [count EXCEPT ![c] = n]
      /\ counter' = [counter EXCEPT ![Slot(c)] = n]
      /\ command[c] = "sent"
  BY DEF Execute, checkVars, Slot
<1>3. /\ command'[c] = "executed" /\ executedAt'[c] = clock /\ count'[c] = n
      /\ counter'[Slot(c)] = n
  BY <1>1, <1>2 DEF TypeOK
<1>4. \A d \in Checks \ {c} :
        /\ command'[d] = command[d] /\ executedAt'[d] = executedAt[d]
        /\ count'[d] = count[d]
        /\ InTime(d)' = InTime(d)
  BY <1>2 DEF TypeOK, InTime, WindowEnd
<1>5. InTime(c)' <=> clock < WindowEnd(window[c])
  BY <1>2, <1>3 DEF InTime, WindowEnd
<1>6. \A d \in Checks \ {c} :
        command[d] = "executed" => Slot(d) \in Slots /\ window[d] \in Nat
  BY SlotType
<1>7. \A d \in Checks : Slot(d) = Slot(c) => window[d] = window[c]
  BY DEF Slot
(* Earlier numbers of the same slot are below n while the window lasts. *)
<1>8. ASSUME NEW d \in Checks \ {c}, command[d] = "executed",
             Slot(d) = Slot(c), clock < WindowEnd(window[c])
      PROVE  count[d] < n
  <2>1. count[d] <= counter[Slot(c)] /\ count[d] \in Nat
    BY <1>7, <1>8 DEF NumberInv, TypeOK
  <2> QED
    BY <1>1, <1>8, <2>1
<1>9. \A d \in Checks : command'[d] = "executed" => count'[d] >= 1
  BY <1>1, <1>3, <1>4 DEF NumberInv
<1>10. ASSUME NEW d \in Checks, command'[d] = "executed",
              clock < WindowEnd(window[d])
       PROVE  count'[d] <= counter'[Slot(d)]
  <2>1. CASE d = c
    BY <1>1, <1>3, <2>1
  <2>2. CASE d # c /\ Slot(d) = Slot(c)
    <3>1. count[d] < n /\ count[d] \in Nat
      BY <1>4, <1>7, <1>8, <1>10, <2>2 DEF TypeOK
    <3> QED
      BY <1>1, <1>3, <1>4, <2>2, <3>1
  <2>3. CASE d # c /\ Slot(d) # Slot(c)
    <3>1. counter'[Slot(d)] = counter[Slot(d)]
      BY <1>2, <1>4, <1>6, <1>10, <2>3 DEF TypeOK
    <3> QED
      BY <1>4, <1>10, <2>3, <3>1 DEF NumberInv
  <2> QED
    BY <2>1, <2>2, <2>3
<1>11. ASSUME NEW d \in Checks \ {c}, command'[d] = "executed", InTime(c)',
              Slot(c) = Slot(d)
       PROVE  count'[c] # count'[d]
  <2>1. count[d] < n /\ count[d] \in Nat
    BY <1>4, <1>5, <1>8, <1>11 DEF TypeOK
  <2> QED
    BY <1>1, <1>3, <1>4, <2>1
<1>12. ASSUME NEW d \in Checks, NEW e \in Checks,
              command'[d] = "executed", InTime(d)',
              command'[e] = "executed", InTime(e)',
              Slot(d) = Slot(e), count'[d] = count'[e]
       PROVE  d = e
  <2>1. CASE d # c /\ e # c
    BY <1>4, <1>12, <2>1 DEF NumberInv
  <2>2. CASE d = c \/ e = c
    BY <1>11, <1>12, <2>2
  <2> QED
    BY <2>1, <2>2
<1> QED
  BY <1>2, <1>9, <1>10, <1>12 DEF NumberInv, WindowEnd

LEMMA NextNumber ==
  ASSUME TypeOK, PhaseInv, ExpiryInv, NumberInv, [Next]_vars, TypeOK'
  PROVE  NumberInv'
<1>0. clock \in Int
  BY LimiterAssumption DEF TypeOK
<1>1. CASE Tick
  BY <1>0, <1>1, NumbersUnchanged
  DEF Tick, checkVars, commandVars, redisVars
<1>2. ASSUME NEW c \in Checks, Skip(c) \/ Reply(c) \/ Fail(c)
      PROVE  NumberInv'
  BY <1>0, <1>2, NumbersUnchanged
  DEF Skip, Reply, Fail, commandVars, redisVars
<1>3. ASSUME NEW c \in Checks, Send(c) PROVE NumberInv'
  <2>1. \A d \in Checks : command'[d] = "executed" => command[d] = "executed"
    BY <1>3 DEF Send, TypeOK
  <2> QED
    BY <1>0, <1>3, <2>1, NumbersUnchanged DEF Send, redisVars
<1>4. ASSUME NEW c \in Checks, NEW k \in Keys, NEW ahead \in 0 .. Skew,
             Start(c, k, ahead)
      PROVE  NumberInv'
  <2>1. command[c] = "unsent"
    BY <1>4 DEF Start, PhaseInv
  <2>2. \A d \in Checks :
          command'[d] = "executed" =>
            /\ command[d] = "executed"
            /\ key'[d] = key[d]
            /\ window'[d] = window[d]
    BY <1>4, <2>1 DEF Start, TypeOK, commandVars
  <2> QED
    BY <1>0, <1>4, <2>2, NumbersUnchanged DEF Start, commandVars, redisVars
<1>5. ASSUME NEW c \in Checks, NEW n \in 1 .. Cardinality(Checks),
             Execute(c, n)
      PROVE  NumberInv'
  BY <1>5, ExecuteNumbers
<1>6. CASE UNCHANGED vars
  BY <1>0, <1>6, NumbersUnchanged
  DEF vars, checkVars, commandVars, redisVars
<1> QED
  BY <1>1, <1>2, <1>3, <1>4, <1>5, <1>6 DEF Next, Finished

-----------------------------------------------------------------------------
(* Counts. *)

LEMMA ExecutedFinite ==
  ASSUME NEW s
  PROVE  /\ IsFiniteSet(Executed(s))
         /\ Cardinality(Executed(s)) \in Nat
<1>1. Executed(s) \in SUBSET Checks
  BY DEF Executed
<1>2. IsFiniteSet(Executed(s))
  BY <1>1, LimiterAssumption, FS_Subset
<1> QED
  BY <1>2, FS_CardinalityType

(* Steps that execute nothing. *)
LEMMA CountsUnchanged ==
  ASSUME TypeOK, CountInv, UNCHANGED <<count, counter>>,
         \A c \in Checks :
           /\ command'[c] = "executed" <=> command[c] = "executed"
           /\ command[c] = "executed" => Slot(c)' = Slot(c)
  PROVE  CountInv'
<1>1. \A s : Executed(s)' = Executed(s)
  BY DEF Executed
<1> QED
  BY <1>1 DEF CountInv

LEMMA ExecuteCounts ==
  ASSUME TypeOK, PhaseInv, ExpiryInv, CountInv, NEW c \in Checks,
         NEW n \in 1 .. Cardinality(Checks), Execute(c, n)
  PROVE  CountInv'
<1>1. /\ n \in Nat
      /\ n <= counter[Slot(c)] + 1
      /\ Slot(c) \in Slots
      /\ counter[Slot(c)] \in Nat
      /\ command[c] = "sent"
  BY ScriptCounts, SlotType DEF Execute, TypeOK
<1>2. /\ \A d \in Checks : Slot(d)' = Slot(d)
      /\ \A d \in Checks \ {c} : command'[d] = command[d] /\ count'[d] = count[d]
      /\ command'[c] = "executed" /\ count'[c] = n
      /\ counter' = [counter EXCEPT ![Slot(c)] = n]
  BY DEF Execute, checkVars, Slot, TypeOK
<1> DEFINE Now(s) == {d \in Checks : command'[d] = "executed" /\ Slot(d) = s}
<1>3. /\ \A s \in Slots : Executed(s)' = Now(s)
      /\ \A d \in Checks : Executed(Slot(d))' = Now(Slot(d))
  BY <1>2 DEF Executed
<1>4. /\ c \notin Executed(Slot(c))
      /\ Now(Slot(c)) = Executed(Slot(c)) \cup {c}
      /\ \A s : s # Slot(c) => Now(s) = Executed(s)
  BY <1>1, <1>2 DEF Executed
<1> HIDE DEF Now
<1>5. \A s : Cardinality(Executed(s)) \in Nat
  BY ExecutedFinite
<1>6. Cardinality(Now(Slot(c))) = Cardinality(Executed(Slot(c))) + 1
  BY <1>4, ExecutedFinite, FS_AddElement
<1>7. counter[Slot(c)] <= Cardinality(Executed(Slot(c)))
  BY <1>1 DEF CountInv
<1>8. n <= Cardinality(Now(Slot(c)))
  BY <1>1, <1>5, <1>6, <1>7
<1>9. ASSUME NEW s \in Slots PROVE counter'[s] <= Cardinality(Now(s))
  <2>1. CASE s = Slot(c)
    BY <1>2, <1>8, <2>1 DEF TypeOK
  <2>2. CASE s # Slot(c)
    BY <1>2, <1>4, <2>2 DEF TypeOK, CountInv
  <2> QED
    BY <2>1, <2>2
<1>10. ASSUME NEW d \in Checks, command'[d] = "executed"
       PROVE  count'[d] <= Cardinality(Now(Slot(d)))
  <2>1. CASE d = c
    BY <1>2, <1>8, <2>1
  <2>2. CASE d # c
    <3>1. /\ count'[d] = count[d] /\ count[d] \in Nat
          /\ count[d] <= Cardinality(Executed(Slot(d)))
      BY <1>2, <1>10, <2>2 DEF CountInv, TypeOK
    <3>2. CASE Slot(d) = Slot(c)
      BY <1>5, <1>6, <3>1, <3>2
    <3>3. CASE Slot(d) # Slot(c)
      BY <1>4, <3>1, <3>3
    <3> QED
      BY <3>2, <3>3
  <2> QED
    BY <2>1, <2>2
<1>11. \A s \in Slots : counter'[s] <= Cardinality(Executed(s)')
  BY <1>3, <1>9
<1>12. \A d \in Checks :
         command'[d] = "executed" => count'[d] <= Cardinality(Executed(Slot(d))')
  BY <1>3, <1>10
<1> QED
  BY <1>11, <1>12 DEF CountInv, Slots, Windows

LEMMA NextCount ==
  ASSUME TypeOK, PhaseInv, ExpiryInv, CountInv, [Next]_vars
  PROVE  CountInv'
<1>1. CASE Tick
  BY <1>1, CountsUnchanged
  DEF Tick, checkVars, commandVars, redisVars, Slot
<1>2. ASSUME NEW c \in Checks, Skip(c) \/ Reply(c) \/ Fail(c)
      PROVE  CountInv'
  BY <1>2, CountsUnchanged
  DEF Skip, Reply, Fail, commandVars, redisVars, Slot
<1>3. ASSUME NEW c \in Checks, Send(c) PROVE CountInv'
  <2>1. \A d \in Checks : command'[d] = "executed" <=> command[d] = "executed"
    BY <1>3 DEF Send, TypeOK, PhaseInv
  <2> QED
    BY <1>3, <2>1, CountsUnchanged DEF Send, redisVars, Slot
<1>4. ASSUME NEW c \in Checks, NEW k \in Keys, NEW ahead \in 0 .. Skew,
             Start(c, k, ahead)
      PROVE  CountInv'
  <2>1. command[c] = "unsent" /\ command' = command
    BY <1>4 DEF Start, PhaseInv, commandVars
  <2>2. \A d \in Checks : command[d] = "executed" => Slot(d)' = Slot(d)
    BY <1>4, <2>1 DEF Start, TypeOK, Slot
  <2> QED
    BY <1>4, <2>1, <2>2, CountsUnchanged DEF Start, commandVars, redisVars
<1>5. ASSUME NEW c \in Checks, NEW n \in 1 .. Cardinality(Checks),
             Execute(c, n)
      PROVE  CountInv'
  BY <1>5, ExecuteCounts
<1>6. CASE UNCHANGED vars
  BY <1>6, CountsUnchanged
  DEF vars, checkVars, commandVars, redisVars, Slot
<1> QED
  BY <1>1, <1>2, <1>3, <1>4, <1>5, <1>6 DEF Next, Finished

-----------------------------------------------------------------------------
(* Delays. *)

LEMMA OwnEndIs ==
  ASSUME NEW w \in Nat
  PROVE  /\ OwnEnd(w) \in Nat
         /\ WindowEnd(w) \in Int
         /\ WindowEnd(w) = OwnEnd(w) - Skew
<1>1. w * WindowSeconds \in Nat
  BY LimiterAssumption
<1>2. OwnEnd(w) = w * WindowSeconds + WindowSeconds
  BY LimiterAssumption DEF OwnEnd
<1> QED
  BY <1>1, <1>2, WindowEndIs, LimiterAssumption

LEMMA StartsBeforeOwnEnd ==
  ASSUME NEW t \in Nat, NEW ahead \in 0 .. Skew
  PROVE  t < OwnEnd(WindowAt(t + ahead))
<1>1. t + ahead \in Nat /\ t <= t + ahead
  BY LimiterAssumption
<1>2. \A u \in Nat : u < (u \div WindowSeconds + 1) * WindowSeconds
  BY LimiterAssumption
<1>3. OwnEnd(WindowAt(t + ahead)) \in Nat
  BY <1>1, WindowBounds, OwnEndIs
<1> QED
  BY <1>1, <1>2, <1>3 DEF OwnEnd, WindowAt

LEMMA NextDelay ==
  ASSUME TypeOK, PhaseInv, DelayInv, [Next]_vars, TypeOK'
  PROVE  DelayInv'
<1> DEFINE Delay(c) ==
      /\ phase[c] = "dialing" => since[c] < OwnEnd(window[c])
      /\ phase[c] = "waiting" => since[c] < OwnEnd(window[c]) + MaxDial
      /\ command[c] = "executed" => executedAt[c] <= clock
      /\ verdict[c] = "under" => executedAt[c] <= OwnEnd(window[c]) + MaxDial
<1>0. /\ \A c \in Checks : Delay(c)
      /\ \A c \in Checks :
           /\ since[c] \in Nat /\ executedAt[c] \in Nat
           /\ OwnEnd(window[c]) \in Nat
      /\ clock \in Nat /\ MaxDial \in Nat
  <2>1. \A c \in Checks : window[c] \in Nat
    BY WindowsAreNaturals DEF TypeOK
  <2>2. \A c \in Checks : OwnEnd(window[c]) \in Nat
    BY <2>1, OwnEndIs
  <2> QED
    BY <2>2, LimiterAssumption DEF DelayInv, TypeOK
<1> SUFFICES \A c \in Checks : Delay(c)'
  BY DEF DelayInv, OwnEnd
<1>1. ASSUME NEW c \in Checks, clock <= clock', clock' \in Nat,
             phase'[c] \in {phase[c], "answered"}, since'[c] = since[c],
             window'[c] = window[c],
             command'[c] = command[c], executedAt'[c] = executedAt[c],
             verdict'[c] = "under" => verdict[c] = "under"
      PROVE  Delay(c)'
  <2>1. OwnEnd(window'[c]) = OwnEnd(window[c])
    BY <1>1
  <2>2. command[c] = "executed" => executedAt[c] <= clock'
    BY <1>0, <1>1
  <2> QED
    BY <1>0, <1>1, <2>1, <2>2 DEF OwnEnd
<1>2. CASE Tick
  BY <1>0, <1>1, <1>2 DEF Tick, checkVars, commandVars
<1>3. ASSUME NEW c \in Checks, Skip(c) \/ Fail(c)
      PROVE  \A d \in Checks : Delay(d)'
  <2>1. /\ UNCHANGED <<clock, since, window, command, executedAt>>
        /\ \A d \in Checks : /\ phase'[d] \in {phase[d], "answered"}
                             /\ verdict'[d] = "under" => verdict[d] = "under"
    BY <1>3 DEF Skip, Fail, commandVars, TypeOK
  <2> QED
    BY <1>0, <1>1, <2>1
<1>4. ASSUME NEW c \in Checks, NEW k \in Keys, NEW ahead \in 0 .. Skew,
             Start(c, k, ahead), NEW d \in Checks
      PROVE  Delay(d)'
  <2>1. CASE d # c
    <3>1. /\ UNCHANGED <<clock, verdict, command, executedAt>>
          /\ phase'[d] = phase[d] /\ since'[d] = since[d]
          /\ window'[d] = window[d]
      BY <1>4, <2>1 DEF Start, commandVars, TypeOK
    <3> QED
      BY <1>0, <1>1, <3>1
  <2>2. CASE d = c
    <3>1. /\ phase'[c] = "dialing" /\ since'[c] = clock
          /\ window'[c] = WindowAt(clock + ahead)
          /\ command'[c] = "unsent" /\ verdict'[c] = "none"
      BY <1>4 DEF Start, PhaseInv, TypeOK, commandVars
    <3>2. clock < OwnEnd(WindowAt(clock + ahead))
      BY <1>0, StartsBeforeOwnEnd
    <3> QED
      BY <2>2, <3>1, <3>2 DEF OwnEnd
  <2> QED
    BY <2>1, <2>2
<1>5. ASSUME NEW c \in Checks, Send(c), NEW d \in Checks PROVE Delay(d)'
  <2>1. CASE d # c
    <3>1. /\ UNCHANGED <<clock, verdict, window, executedAt>>
          /\ phase'[d] = phase[d] /\ since'[d] = since[d]
          /\ command'[d] = command[d]
      BY <1>5, <2>1 DEF Send, TypeOK
    <3> QED
      BY <1>0, <1>1, <3>1
  <2>2. CASE d = c
    <3>1. /\ phase'[c] = "waiting" /\ since'[c] = clock
          /\ window' = window /\ verdict' = verdict
          /\ command'[c] = "sent" /\ verdict[c] # "under"
          /\ phase[c] = "dialing" /\ clock <= since[c] + MaxDial
      BY <1>5 DEF Send, PhaseInv, TypeOK
    <3>2. clock < OwnEnd(window[c]) + MaxDial
      BY <1>0, <3>1
    <3> QED
      BY <2>2, <3>1, <3>2 DEF OwnEnd
  <2> QED
    BY <2>1, <2>2
<1>6. ASSUME NEW c \in Checks, Reply(c), NEW d \in Checks PROVE Delay(d)'
  <2>1. UNCHANGED <<clock, since, window, command, executedAt>>
    BY <1>6 DEF Reply, commandVars
  <2>2. CASE d # c
    <3>1. phase'[d] = phase[d] /\ verdict'[d] = verdict[d]
      BY <1>6, <2>2 DEF Reply, TypeOK
    <3> QED
      BY <1>0, <1>1, <2>1, <3>1
  <2>3. CASE d = c
    <3>1. /\ phase'[c] = "answered" /\ phase[c] = "waiting"
          /\ command[c] = "executed" /\ clock <= since[c] + 1
      BY <1>6 DEF Reply, TypeOK
    <3>2. executedAt[c] <= OwnEnd(window[c]) + MaxDial
      BY <1>0, <3>1
    <3>3. executedAt[c] <= clock
      BY <1>0, <3>1
    <3> QED
      BY <2>1, <2>3, <3>1, <3>2, <3>3 DEF OwnEnd
  <2> QED
    BY <2>2, <2>3
<1>7. ASSUME NEW c \in Checks, NEW n \in 1 .. Cardinality(Checks),
             Execute(c, n), NEW d \in Checks
      PROVE  Delay(d)'
  <2>1. UNCHANGED <<clock, phase, since, window, verdict>>
    BY <1>7 DEF Execute, checkVars
  <2>2. CASE d # c
    <3>1. command'[d] = command[d] /\ executedAt'[d] = executedAt[d]
      BY <1>7, <2>2 DEF Execute, TypeOK
    <3> QED
      BY <1>0, <1>1, <2>1, <3>1
  <2>3. CASE d = c
    <3>1. /\ executedAt'[c] = clock /\ command[c] = "sent"
          /\ verdict[c] # "under"
      BY <1>7 DEF Execute, PhaseInv, TypeOK
    <3> QED
      BY <1>0, <2>1, <2>3, <3>1 DEF OwnEnd
  <2> QED
    BY <2>2, <2>3
<1>8. CASE UNCHANGED vars
  BY <1>0, <1>1, <1>8 DEF vars, checkVars, commandVars
<1> QED
  BY <1>2, <1>3, <1>4, <1>5, <1>6, <1>7, <1>8 DEF Next, Finished

-----------------------------------------------------------------------------
(* Lives of a key. *)

(* Steps that execute nothing. *)
LEMMA LivesUnchanged ==
  ASSUME TypeOK, PhaseInv, LifetimeInv, TypeOK',
         UNCHANGED <<count, executedAt, counter, expireAt>>,
         clock <= clock',
         \A c \in Checks :
           command'[c] = "executed" =>
             /\ command[c] = "executed"
             /\ key'[c] = key[c]
             /\ window'[c] = window[c]
  PROVE  LifetimeInv'
<1>1. \A c \in Checks :
        command'[c] = "executed" =>
          /\ command[c] = "executed"
          /\ Slot(c)' = Slot(c)
          /\ window'[c] = window[c]
  BY DEF Slot
<1>2. \A c, d \in Checks : SameNumber(c, d)' => SameNumber(c, d)
  BY <1>1 DEF SameNumber
<1>3. \A s \in Slots : expireAt'[s] <= clock' + WindowSeconds
  <2>1. ASSUME NEW s \in Slots PROVE expireAt'[s] <= clock' + WindowSeconds
    <3>1. expireAt[s] \in Nat /\ expireAt[s] <= clock + WindowSeconds
      BY DEF TypeOK, LifetimeInv
    <3>2. clock \in Nat /\ clock' \in Nat
      BY LimiterAssumption DEF TypeOK
    <3> QED
      BY <3>1, <3>2, LimiterAssumption
  <2> QED
    BY <2>1
<1>4. \A c \in Checks :
        command'[c] = "executed" =>
          /\ counter'[Slot(c)'] > 0
          /\ count'[c] > counter'[Slot(c)'] =>
               expireAt'[Slot(c)'] >= WindowEnd(window'[c]) + WindowSeconds
  BY <1>1 DEF LifetimeInv
<1>5. ASSUME NEW c \in Checks, NEW d \in Checks, SameNumber(c, d)'
      PROVE  /\ expireAt'[Slot(c)'] >= WindowEnd(window'[c]) + WindowSeconds
             /\ count'[c] > counter'[Slot(c)'] =>
                  expireAt'[Slot(c)'] >=
                    WindowEnd(window'[c]) + 2 * WindowSeconds
  <2>1. command'[c] = "executed"
    BY <1>5 DEF SameNumber
  <2> QED
    BY <1>1, <1>2, <1>5, <2>1 DEF LifetimeInv
<1>6. ASSUME NEW c \in Checks, NEW d \in Checks, NEW e \in Checks,
             SameNumber(c, d)', SameNumber(c, e)', d # e
      PROVE  \E x \in {c, d, e} :
               executedAt'[x] >= WindowEnd(window'[x]) + WindowSeconds
  <2>1. /\ command'[c] = "executed" /\ command'[d] = "executed"
        /\ command'[e] = "executed"
    BY <1>6 DEF SameNumber
  <2>2. PICK x \in {c, d, e} :
          executedAt[x] >= WindowEnd(window[x]) + WindowSeconds
    BY <1>2, <1>6 DEF LifetimeInv
  <2>3. window'[x] = window[x]
    BY <1>1, <2>1, <2>2
  <2> QED
    BY <2>2, <2>3
<1> QED
  BY <1>3, <1>4, <1>5, <1>6 DEF LifetimeInv, WindowEnd

(* What the script does to the life of a key that has been counted. *)
LEMMA ScriptLives ==
  ASSUME TypeOK, PhaseInv, ExpiryInv, LifetimeInv, NEW c \in Checks,
         NEW n \in 1 .. Cardinality(Checks), Execute(c, n)
  PROVE  LET s == Slot(c)
             end == WindowEnd(window[c])
         IN  /\ s \in Slots
             /\ n \in Nat \ {0} /\ end \in Int
             /\ counter[s] \in Nat /\ expireAt[s] \in Nat
             /\ expireAt'[s] \in Nat
             /\ expireAt'[s] <= clock + WindowSeconds
             /\ counter[s] > 0 =>
                  /\ expireAt[s] >= end
                  /\ \/ n = counter[s] + 1 /\ expireAt'[s] = expireAt[s]
                     \/ /\ n = 1
                        /\ clock >= expireAt[s]
                        /\ expireAt'[s] = clock + WindowSeconds
<1>1. n \in Nat \ {0}
  BY LimiterAssumption, FS_CardinalityType
<1>2. Slot(c) \in Slots /\ Slot(c)[2] = window[c] /\ window[c] \in Nat
  BY SlotType DEF Execute
<1>3. /\ counter[Slot(c)] \in Nat /\ expireAt[Slot(c)] \in Nat
      /\ clock \in Nat /\ WindowSeconds \in Nat
  BY <1>2, LimiterAssumption DEF TypeOK
<1>4. \/ clock <= expireAt[Slot(c)] /\ n = counter[Slot(c)] + 1
      \/ clock >= expireAt[Slot(c)] /\ n = 1
  BY DEF Execute, Incremented
<1>5. /\ counter[Slot(c)] > 0 => expireAt[Slot(c)] >= WindowEnd(window[c])
      /\ expireAt[Slot(c)] <= clock + WindowSeconds
  BY <1>2 DEF ExpiryInv, LifetimeInv
<1>6. WindowEnd(window[c]) \in Int
  BY <1>2, WindowEndIs
<1>7. expireAt'[Slot(c)] = IF n = 1 THEN clock + WindowSeconds
                                    ELSE expireAt[Slot(c)]
  BY <1>2 DEF Execute, TypeOK
<1> QED
  BY <1>1, <1>2, <1>3, <1>4, <1>5, <1>6, <1>7

LEMMA ExecuteLives ==
  ASSUME TypeOK, PhaseInv, ExpiryInv, LifetimeInv, TypeOK', NEW c \in Checks,
         NEW n \in 1 .. Cardinality(Checks), Execute(c, n)
  PROVE  LifetimeInv'
<1> DEFINE s == Slot(c)
           end == WindowEnd(window[c])
           W == WindowSeconds
<1>1. /\ s \in Slots
      /\ n \in Nat \ {0} /\ end \in Int /\ W \in Nat \ {0}
      /\ counter[s] \in Nat /\ expireAt[s] \in Nat /\ expireAt'[s] \in Nat
      /\ clock \in Nat
      /\ expireAt'[s] <= clock + W
      /\ counter[s] > 0 =>
           /\ expireAt[s] >= end
           /\ \/ n = counter[s] + 1 /\ expireAt'[s] = expireAt[s]
              \/ n = 1 /\ clock >= expireAt[s] /\ expireAt'[s] = clock + W
  BY ScriptLives, LimiterAssumption DEF TypeOK
<1>2. /\ UNCHANGED <<clock, key, window>>
      /\ \A d \in Checks : Slot(d)' = Slot(d)
      /\ command[c] = "sent"
  BY DEF Execute, checkVars, Slot
<1>3. /\ command'[c] = "executed" /\ executedAt'[c] = clock /\ count'[c] = n
      /\ counter'[s] = n
  BY <1>1 DEF Execute, TypeOK
<1>4. \A d \in Checks \ {c} :
        /\ command'[d] = command[d] /\ executedAt'[d] = executedAt[d]
        /\ count'[d] = count[d] /\ count[d] \in Nat
  BY DEF Execute, TypeOK
<1>5. \A t \in Slots \ {s} :
        counter'[t] = counter[t] /\ expireAt'[t] = expireAt[t]
  BY DEF Execute, TypeOK
<1>6. \A d \in Checks \ {c} : command[d] = "executed" => Slot(d) \in Slots
  BY SlotType
<1>7. \A d \in Checks : Slot(d) = s => window[d] = window[c]
  BY DEF Slot
<1>8. \A d, e \in Checks \ {c} : SameNumber(d, e)' <=> SameNumber(d, e)
  BY <1>2, <1>4 DEF SameNumber
<1> HIDE DEF s, end, W
(* The other checks of the slot. *)
<1>9. ASSUME NEW d \in Checks \ {c}, command[d] = "executed", Slot(d) = s
      PROVE  /\ counter[s] > 0
             /\ count[d] > counter[s] => expireAt[s] >= end + W
             /\ count[d] > n => expireAt'[s] >= end + W
             /\ count[d] = n => expireAt'[s] >= end + W
  <2>1. /\ counter[s] > 0
        /\ count[d] > counter[s] => expireAt[s] >= end + W
    BY <1>7, <1>9 DEF LifetimeInv, end, W
  <2>2. count[d] \in Nat
    BY <1>4
  <2>3. CASE n = counter[s] + 1 /\ expireAt'[s] = expireAt[s]
    BY <1>1, <2>1, <2>2, <2>3
  <2>4. CASE n = 1 /\ clock >= expireAt[s] /\ expireAt'[s] = clock + W
    BY <1>1, <2>1, <2>2, <2>4
  <2> QED
    BY <1>1, <2>1, <2>3, <2>4
<1>10. ASSUME NEW d \in Checks \ {c}, NEW e \in Checks \ {c},
              SameNumber(d, e), Slot(d) = s
       PROVE  /\ expireAt'[s] >= end + W
              /\ count[d] > n => expireAt'[s] >= end + 2 * W
              /\ count[d] = n => clock >= end + W
  <2>1. /\ expireAt[s] >= end + W
        /\ count[d] > counter[s] => expireAt[s] >= end + 2 * W
    BY <1>7, <1>10 DEF LifetimeInv, end, W
  <2>2. counter[s] > 0 /\ count[d] \in Nat
    BY <1>4, <1>9, <1>10 DEF SameNumber
  <2>3. CASE n = counter[s] + 1 /\ expireAt'[s] = expireAt[s]
    BY <1>1, <2>1, <2>2, <2>3
  <2>4. CASE n = 1 /\ clock >= expireAt[s] /\ expireAt'[s] = clock + W
    BY <1>1, <2>1, <2>2, <2>4
  <2> QED
    BY <1>1, <2>2, <2>3, <2>4
<1>11. \A t \in Slots : expireAt'[t] <= clock + W
  BY <1>1, <1>5 DEF LifetimeInv, W
<1>12. ASSUME NEW d \in Checks, command'[d] = "executed"
       PROVE  /\ counter'[Slot(d)] > 0
              /\ count'[d] > counter'[Slot(d)] =>
                   expireAt'[Slot(d)] >= WindowEnd(window[d]) + W
  <2>1. CASE d = c
    BY <1>1, <1>3, <2>1 DEF s
  <2>2. CASE d # c /\ Slot(d) = s
    <3>1. command[d] = "executed" /\ count'[d] = count[d]
      BY <1>4, <1>12, <2>2
    <3>2. WindowEnd(window[d]) = end
      BY <1>7, <2>2 DEF end
    <3> QED
      BY <1>1, <1>3, <1>9, <2>2, <3>1, <3>2
  <2>3. CASE d # c /\ Slot(d) # s
    BY <1>4, <1>5, <1>6, <1>12, <2>3 DEF LifetimeInv, W
  <2> QED
    BY <2>1, <2>2, <2>3
<1>13. ASSUME NEW d \in Checks, NEW e \in Checks, SameNumber(d, e)'
       PROVE  /\ expireAt'[Slot(d)] >= WindowEnd(window[d]) + W
              /\ count'[d] > counter'[Slot(d)] =>
                   expireAt'[Slot(d)] >= WindowEnd(window[d]) + 2 * W
  <2>0. /\ command'[d] = "executed" /\ command'[e] = "executed"
        /\ Slot(d) = Slot(e) /\ count'[d] = count'[e] /\ d # e
    BY <1>2, <1>13 DEF SameNumber
  <2>1. CASE Slot(d) # s
    <3>1. d # c /\ e # c
      BY <2>0, <2>1 DEF s
    <3>2. SameNumber(d, e) /\ Slot(d) \in Slots
      BY <1>4, <1>6, <1>8, <1>13, <2>0, <3>1
    <3>3. /\ counter'[Slot(d)] = counter[Slot(d)]
          /\ expireAt'[Slot(d)] = expireAt[Slot(d)]
          /\ count'[d] = count[d]
      BY <1>4, <1>5, <2>1, <3>1, <3>2
    <3> QED
      BY <3>2, <3>3 DEF LifetimeInv, W
  <2>2. CASE Slot(d) = s /\ d # c /\ e # c
    <3>1. SameNumber(d, e) /\ count'[d] = count[d]
      BY <1>4, <1>8, <1>13, <2>2
    <3>2. WindowEnd(window[d]) = end
      BY <1>7, <2>2 DEF end
    <3> QED
      BY <1>3, <1>10, <2>2, <3>1, <3>2
  <2>3. CASE Slot(d) = s /\ (d = c \/ e = c)
    <3>1. PICK x \in Checks \ {c} :
            /\ command[x] = "executed" /\ Slot(x) = s /\ count[x] = n
      BY <1>3, <1>4, <2>0, <2>3
    <3>2. expireAt'[s] >= end + W
      BY <1>9, <3>1
    <3>3. count'[d] = n /\ counter'[s] = n
      BY <1>3, <2>0, <2>3
    <3>4. WindowEnd(window[d]) = end
      BY <1>7, <2>3 DEF end
    <3> QED
      BY <1>1, <2>3, <3>2, <3>3, <3>4
  <2> QED
    BY <2>1, <2>2, <2>3
<1>14. ASSUME NEW d \in Checks \ {c}, NEW e \in Checks \ {c},
              SameNumber(c, d)', SameNumber(c, e)', d # e
       PROVE  executedAt'[c] >= WindowEnd(window[c]) + W
  <2>1. /\ command[d] = "executed" /\ command[e] = "executed"
        /\ Slot(d) = s /\ Slot(e) = s
        /\ count[d] = n /\ count[e] = n
    BY <1>2, <1>3, <1>4, <1>14 DEF SameNumber, s
  <2>2. SameNumber(d, e)
    BY <1>14, <2>1 DEF SameNumber
  <2>3. clock >= end + W
    BY <1>10, <2>1, <2>2
  <2> QED
    BY <1>3, <2>3 DEF end
<1>15. ASSUME NEW d \in Checks, NEW e \in Checks, NEW f \in Checks,
              SameNumber(d, e)', SameNumber(d, f)', e # f
       PROVE  \E x \in {d, e, f} :
                executedAt'[x] >= WindowEnd(window[x]) + W
  <2>0. d # e /\ d # f
    BY <1>15 DEF SameNumber
  <2>1. CASE d = c
    BY <1>14, <1>15, <2>0, <2>1
  <2>2. CASE e = c
    <3>1. SameNumber(c, d)' /\ SameNumber(c, f)'
      BY <1>2, <1>15, <2>0, <2>2 DEF SameNumber
    <3> QED
      BY <1>14, <1>15, <2>0, <2>2, <3>1
  <2>3. CASE f = c
    <3>1. SameNumber(c, d)' /\ SameNumber(c, e)'
      BY <1>2, <1>15, <2>0, <2>3 DEF SameNumber
    <3> QED
      BY <1>14, <1>15, <2>0, <2>3, <3>1
  <2>4. CASE c \notin {d, e, f}
    <3>1. SameNumber(d, e) /\ SameNumber(d, f)
      BY <1>8, <1>15, <2>4
    <3>2. PICK x \in {d, e, f} :
            executedAt[x] >= WindowEnd(window[x]) + WindowSeconds
      BY <1>15, <3>1 DEF LifetimeInv
    <3>3. executedAt'[x] = executedAt[x]
      BY <1>4, <2>4, <3>2
    <3> QED
      BY <3>2, <3>3 DEF W
  <2> QED
    BY <2>1, <2>2, <2>3, <2>4
<1> QED
  BY <1>2, <1>11, <1>12, <1>13, <1>15 DEF LifetimeInv, W, WindowEnd

LEMMA NextLives ==
  ASSUME TypeOK, PhaseInv, ExpiryInv, LifetimeInv, [Next]_vars, TypeOK'
  PROVE  LifetimeInv'
<1>0. clock \in Int
  BY LimiterAssumption DEF TypeOK
<1>1. CASE Tick
  BY <1>0, <1>1, LivesUnchanged
  DEF Tick, checkVars, commandVars, redisVars
<1>2. ASSUME NEW c \in Checks, Skip(c) \/ Reply(c) \/ Fail(c)
      PROVE  LifetimeInv'
  BY <1>0, <1>2, LivesUnchanged
  DEF Skip, Reply, Fail, commandVars, redisVars
<1>3. ASSUME NEW c \in Checks, Send(c) PROVE LifetimeInv'
  <2>1. \A d \in Checks : command'[d] = "executed" => command[d] = "executed"
    BY <1>3 DEF Send, TypeOK
  <2> QED
    BY <1>0, <1>3, <2>1, LivesUnchanged DEF Send, redisVars
<1>4. ASSUME NEW c \in Checks, NEW k \in Keys, NEW ahead \in 0 .. Skew,
             Start(c, k, ahead)
      PROVE  LifetimeInv'
  <2>1. command[c] = "unsent"
    BY <1>4 DEF Start, PhaseInv
  <2>2. \A d \in Checks :
          command'[d] = "executed" =>
            /\ command[d] = "executed"
            /\ key'[d] = key[d]
            /\ window'[d] = window[d]
    BY <1>4, <2>1 DEF Start, TypeOK, commandVars
  <2> QED
    BY <1>0, <1>4, <2>2, LivesUnchanged DEF Start, commandVars, redisVars
<1>5. ASSUME NEW c \in Checks, NEW n \in 1 .. Cardinality(Checks),
             Execute(c, n)
      PROVE  LifetimeInv'
  BY <1>5, ExecuteLives
<1>6. CASE UNCHANGED vars
  BY <1>0, <1>6, LivesUnchanged
  DEF vars, checkVars, commandVars, redisVars
<1> QED
  BY <1>1, <1>2, <1>3, <1>4, <1>5, <1>6 DEF Next, Finished

-----------------------------------------------------------------------------
(* Theorems. *)

LEMMA InitInv == Init => LimiterInv
<1> SUFFICES ASSUME Init PROVE LimiterInv
  OBVIOUS
<1>1. TypeOK
  BY InitType
<1>2. PhaseInv /\ ExpiryInv /\ NumberInv
  BY DEF Init, PhaseInv, ExpiryInv, NumberInv
<1>3. CountInv
  <2>1. \A s \in Slots : Cardinality(Executed(s)) \in Nat
    BY ExecutedFinite
  <2> QED
    BY <2>1 DEF Init, CountInv
<1> QED
  BY <1>1, <1>2, <1>3 DEF LimiterInv

LEMMA NextInv == LimiterInv /\ [Next]_vars => LimiterInv'
  BY NextType, NextPhase, NextExpiry, NextNumber, NextCount DEF LimiterInv

(* The inductive invariant holds in every reachable state. *)
THEOREM LimiterCorrect == Spec => []LimiterInv
  BY InitInv, NextInv, PTL DEF Spec

(* Types of the checks' and of Redis' state. *)
THEOREM TypeCorrect == Spec => []TypeOK
<1>1. LimiterInv => TypeOK
  BY DEF LimiterInv
<1> QED
  BY <1>1, LimiterCorrect, PTL

(* Checks with pairwise distinct numbers up to Limit are at most Limit. *)
LEMMA DistinctNumbers ==
  ASSUME NEW S,
         \A c \in S : count[c] \in 1 .. Limit,
         \A c, d \in S : count[c] = count[d] => c = d
  PROVE  /\ IsFiniteSet(S)
         /\ Cardinality(S) \in Nat
         /\ Cardinality(S) <= Limit
<1> DEFINE f == [c \in S |-> count[c]]
<1>1. f \in Injection(S, 1 .. Limit)
  BY DEF Injection, IsInjective
<1>2. IsFiniteSet(1 .. Limit) /\ Cardinality(1 .. Limit) = Limit
  BY LimiterAssumption, FS_Interval
<1> HIDE DEF f
<1>3. IsFiniteSet(S) /\ Cardinality(S) <= Limit
  BY <1>1, <1>2, FS_Injection
<1> QED
  BY <1>3, FS_CardinalityType

(* Numbers given in time are distinct, and those admitted are at most      *)
(* Limit: so are the checks admitted.                                      *)
LEMMA InvLimit == LimiterInv => LimitHolds
<1> SUFFICES ASSUME LimiterInv, NEW s \in Slots
             PROVE  Cardinality({c \in Admitted(s) : InTime(c)}) <= Limit
  BY DEF LimitHolds
<1> DEFINE A == {c \in Admitted(s) : InTime(c)}
<1>1. \A c \in A : /\ c \in Checks /\ command[c] = "executed" /\ Slot(c) = s
                   /\ verdict[c] = "under" /\ InTime(c)
  BY DEF Admitted, Executed
<1>2. \A c \in A : count[c] \in 1 .. Limit
  BY <1>1, LimiterAssumption
  DEF LimiterInv, TypeOK, PhaseInv, NumberInv
<1>3. \A c, d \in A : count[c] = count[d] => c = d
  BY <1>1 DEF LimiterInv, NumberInv
<1> HIDE DEF A
<1>4. Cardinality(A) <= Limit
  BY <1>2, <1>3, DistinctNumbers
<1> QED
  BY <1>4 DEF A

(* At most Limit checks of a key are admitted in the part of a window that *)
(* every gateway agrees on, for any clock skew, delay and loss.            *)
THEOREM LimitIsKept == Spec => []LimitHolds
  BY LimiterCorrect, InvLimit, PTL

LEMMA InvRefusal == LimiterInv => RefusalIsEarned
<1> SUFFICES ASSUME LimiterInv, NEW c \in Checks, verdict[c] = "over"
             PROVE  Cardinality(Executed(Slot(c)) \ {c}) >= Limit
  BY DEF RefusalIsEarned
<1>1. command[c] = "executed" /\ count[c] > Limit /\ count[c] \in Nat
  BY DEF LimiterInv, PhaseInv, TypeOK
<1>2. count[c] <= Cardinality(Executed(Slot(c))) /\ c \in Executed(Slot(c))
  BY <1>1 DEF LimiterInv, CountInv, Executed
<1>3. /\ Cardinality(Executed(Slot(c))) \in Nat
      /\ Cardinality(Executed(Slot(c)) \ {c}) = Cardinality(Executed(Slot(c))) - 1
  BY <1>2, ExecutedFinite, FS_RemoveElement
<1> QED
  BY <1>1, <1>2, <1>3, LimiterAssumption

(* A check refused by count follows at least Limit others of its own key   *)
(* and window.                                                             *)
THEOREM RefusalsAreEarned == Spec => []RefusalIsEarned
  BY LimiterCorrect, InvRefusal, PTL

-----------------------------------------------------------------------------
(* Twice the limit. *)

LEMMA InitLives == Init => LivesInv
<1> SUFFICES ASSUME Init PROVE LivesInv
  OBVIOUS
<1>1. LimiterInv
  BY InitInv
<1>2. DelayInv
  BY DEF Init, DelayInv
<1>3. \A s \in Slots : expireAt[s] <= clock + WindowSeconds
  BY LimiterAssumption DEF Init
<1>4. \A c \in Checks : command[c] # "executed"
  BY DEF Init
<1>5. LifetimeInv
  BY <1>3, <1>4 DEF LifetimeInv, SameNumber
<1> QED
  BY <1>1, <1>2, <1>5 DEF LivesInv

LEMMA NextLivesInv == LivesInv /\ [Next]_vars => LivesInv'
  BY NextInv, NextDelay, NextLives DEF LivesInv, LimiterInv

(* An admitted check is executed less than a window after the first        *)
(* gateway has left, so that three of them never share a number; one of    *)
(* each number, and all others, are at most Limit each.                    *)
LEMMA InvTwice == LivesInv => TwiceTheLimit
<1> SUFFICES ASSUME LivesInv, Skew + MaxDial < WindowSeconds, NEW s \in Slots
             PROVE  Cardinality(Admitted(s)) <= 2 * Limit
  BY DEF TwiceTheLimit
<1> TypeOK /\ PhaseInv /\ NumberInv /\ DelayInv /\ LifetimeInv
  BY DEF LivesInv, LimiterInv
<1> DEFINE A == Admitted(s)
           first(n) == CHOOSE c \in A : count[c] = n
           F == {c \in A : c = first(count[c])}
           G == A \ F
<1>1. \A c \in A : /\ c \in Checks /\ command[c] = "executed" /\ Slot(c) = s
                   /\ verdict[c] = "under"
  BY DEF Admitted, Executed
<1>2. \A c \in A : count[c] \in 1 .. Limit
  BY <1>1, LimiterAssumption DEF TypeOK, PhaseInv, NumberInv
<1>3. ASSUME NEW c \in A
      PROVE  ~ (executedAt[c] >= WindowEnd(window[c]) + WindowSeconds)
  <2>1. window[c] \in Nat /\ executedAt[c] \in Nat
    BY <1>1, WindowsAreNaturals DEF TypeOK
  <2>2. executedAt[c] <= OwnEnd(window[c]) + MaxDial
    BY <1>1 DEF DelayInv
  <2>3. /\ OwnEnd(window[c]) \in Nat
        /\ WindowEnd(window[c]) = OwnEnd(window[c]) - Skew
    BY <2>1, OwnEndIs
  <2> QED
    BY <2>1, <2>2, <2>3, LimiterAssumption
<1>4. ASSUME NEW c \in A, NEW d \in A, NEW e \in A,
             c # d, c # e, d # e,
             count[c] = count[d], count[c] = count[e]
      PROVE  FALSE
  <2>1. SameNumber(c, d) /\ SameNumber(c, e)
    BY <1>1, <1>4 DEF SameNumber
  <2> QED
    BY <1>1, <1>3, <1>4, <2>1 DEF LifetimeInv
<1>5. \A c \in A : first(count[c]) \in A /\ count[first(count[c])] = count[c]
  OBVIOUS
<1> HIDE DEF first, A
<1>6. \A c, d \in F : count[c] = count[d] => c = d
  OBVIOUS
<1>7. ASSUME NEW c \in G, NEW d \in G, count[c] = count[d] PROVE c = d
  <2> DEFINE e == first(count[c])
  <2>1. e \in A /\ count[e] = count[c]
    BY <1>5
  <2>2. e = first(count[e])
    BY <2>1
  <2>3. e # c /\ e # d
    BY <1>7
  <2> HIDE DEF e
  <2> QED
    BY <1>4, <1>7, <2>1, <2>3
<1>8. /\ IsFiniteSet(F) /\ Cardinality(F) \in Nat /\ Cardinality(F) <= Limit
      /\ IsFiniteSet(G) /\ Cardinality(G) \in Nat /\ Cardinality(G) <= Limit
  <2>1. /\ \A c \in F : count[c] \in 1 .. Limit
        /\ \A c \in G : count[c] \in 1 .. Limit
    BY <1>2
  <2> HIDE DEF F, G
  <2> QED
    BY <1>6, <1>7, <2>1, DistinctNumbers
<1>9. A = F \cup G /\ F \cap G = {}
  OBVIOUS
<1> HIDE DEF F, G
<1>10. Cardinality(F \cup G) =
         Cardinality(F) + Cardinality(G) - Cardinality(F \cap G)
  BY <1>8, FS_Union
<1>11. Cardinality(F \cap G) = 0
  BY <1>9, FS_EmptySet
<1>12. Cardinality(A) <= 2 * Limit
  BY <1>8, <1>9, <1>10, <1>11, LimiterAssumption
<1> QED
  BY <1>12 DEF A

(* However late Redis runs the scripts of a window, and whatever its key   *)
(* is deleted and created again, no more than twice the limit is admitted  *)
(* as long as delay and skew together stay below a window.                 *)
THEOREM TwiceTheLimitAtMost == Spec => []TwiceTheLimit
  BY InitLives, NextLivesInv, InvTwice, PTL DEF Spec

=============================================================================
