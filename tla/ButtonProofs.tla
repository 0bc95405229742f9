----------------------------- MODULE ButtonProofs -----------------------------
(***************************************************************************)
(* Proofs about Button, for every value of the delays: its types, and what *)
(* a bouncing pin and the application's calls cannot do to it.             *)
(***************************************************************************)
EXTENDS Button, TLAPS

NumbersOK ==
    /\ clicks \in Nat /\ lastClicks \in 0 .. MaxClicks
    /\ debounce \in 0 .. Debounce /\ timeout \in 0 .. Timeout
    /\ clicksTim \in 0 .. ClicksDelay /\ heldTim \in 0 .. Hold
    /\ lag \in 0 .. MaxLag /\ steady \in 0 .. Noticed /\ unseen \in 0 .. Timeout
    /\ releases \in 0 .. MaxClicks

\* A click that is not shown yet was counted when the last tick was made.
Shows == lastClicks # clicks => clicksTim + lag >= ClicksDelay

\* A press that the program has seen and that is over is a release to count.
Counts ==
    /\ clicks <= releases
    /\ pressed /\ ~pin => clicks < releases

\* A level that was not noticed began after the delay was started, or after
\* the last tick.
Follows ==
    (pressed <=> ~pin) =>
        \/ debounce > 0 /\ steady + debounce <= Debounce
        \/ debounce = 0 /\ steady < lag + Debounce

\* Where the hold timer stands, the time since the pin was read up is not behind;
\* a held button waits for no click.
Holds ==
    ~polled =>
        /\ pressed => unseen + heldTim >= Hold
        /\ held => unseen >= Hold /\ (clicks = 0 \/ nextClick)

IndInv == FlagsOK /\ NumbersOK /\ Shows /\ Counts /\ Follows /\ Holds

-----------------------------------------------------------------------------
LEMMA FlagsInductive ==
  ASSUME FlagsOK, [Next]_vars PROVE FlagsOK'
<1>1. CASE UNCHANGED vars
  BY <1>1 DEF FlagsOK, vars, stateVars, timerVars, pastVars
<1>2. CASE Tick
  BY <1>2 DEF FlagsOK, Tick, Debouncing, ClicksAction, BetweenClicks, HeldAction, Click, ClickTimers, Released, StillPressed,
              IdleAction, Reads, StartHeldTim, stateVars, timerVars, pastVars
<1>3. CASE HeldMs
  BY <1>3 DEF FlagsOK, HeldMs
<1>4. CASE ButtonReset
  BY <1>4 DEF FlagsOK, ButtonReset
<1>5. CASE Press \/ Release \/ Time
  BY <1>5 DEF FlagsOK, Press, Release, Time, stateVars, timerVars, pastVars
<1> QED
  BY <1>1, <1>2, <1>3, <1>4, <1>5 DEF Next

LEMMA NumbersInductive ==
  ASSUME FlagsOK, NumbersOK, Counts, [Next]_vars PROVE NumbersOK'
<1> USE ButtonAssumption DEF NumbersOK, Noticed
<1>1. CASE UNCHANGED vars
  BY <1>1 DEF vars, stateVars, timerVars, pastVars
<1>2. CASE Debouncing
  BY <1>2 DEF Debouncing, Shown, timerVars, pastVars, Counts
<1>3. CASE ClicksAction
  BY <1>3 DEF ClicksAction, BetweenClicks, Reads, StartHeldTim, Shown, Counts
<1>4. CASE HeldAction
  BY <1>4 DEF HeldAction, Reads, Shown, Counts
<1>5. CASE Click
  BY <1>5 DEF Click, ClickTimers, Released, Reads, StartHeldTim, Shown, Counts
<1>6. CASE StillPressed
  BY <1>6 DEF StillPressed, Reads, Shown, timerVars, Counts
<1>7. CASE IdleAction
  BY <1>7 DEF IdleAction, Reads, StartHeldTim
<1>8. CASE HeldMs
  BY <1>8 DEF HeldMs
<1>9. CASE ButtonReset
  BY <1>9 DEF ButtonReset
<1>10. CASE Press
  BY <1>10 DEF Press, stateVars, timerVars
<1>11. CASE Release
  BY <1>11 DEF Release, stateVars, timerVars, Least
<1>12. CASE Time
  BY <1>12 DEF Time, stateVars, Least, Less
<1> QED
  BY <1>1, <1>2, <1>3, <1>4, <1>5, <1>6, <1>7, <1>8, <1>9, <1>10, <1>11, <1>12 DEF Next, Tick

-----------------------------------------------------------------------------
LEMMA ShowsInductive ==
  ASSUME FlagsOK, NumbersOK, Shows, [Next]_vars PROVE Shows'
<1> USE ButtonAssumption DEF NumbersOK, Shows
<1>1. CASE UNCHANGED vars
  BY <1>1 DEF vars, stateVars, timerVars, pastVars
<1>2. CASE Debouncing
  BY <1>2 DEF Debouncing, Shown, timerVars, pastVars
<1>3. CASE ClicksAction
  BY <1>3 DEF ClicksAction, BetweenClicks, Reads, StartHeldTim, Shown
<1>4. CASE HeldAction
  BY <1>4 DEF HeldAction, Reads, Shown
<1>5. CASE Click
  BY <1>5 DEF Click, ClickTimers, Released, Reads, StartHeldTim, Shown
<1>6. CASE StillPressed
  BY <1>6 DEF StillPressed, Reads, Shown, timerVars
<1>7. CASE IdleAction
  BY <1>7 DEF IdleAction
<1>8. CASE HeldMs \/ ButtonReset
  BY <1>8 DEF HeldMs, ButtonReset
<1>9. CASE Press \/ Release
  BY <1>9 DEF Press, Release, stateVars, timerVars
<1>10. CASE Time
  BY <1>10 DEF Time, stateVars, Less
<1> QED
  BY <1>1, <1>2, <1>3, <1>4, <1>5, <1>6, <1>7, <1>8, <1>9, <1>10 DEF Next, Tick

LEMMA CountsInductive ==
  ASSUME FlagsOK, NumbersOK, Counts, [Next]_vars PROVE Counts'
<1> USE ButtonAssumption DEF FlagsOK, NumbersOK, Counts
<1>1. CASE UNCHANGED vars
  BY <1>1 DEF vars, stateVars, timerVars, pastVars
<1>2. CASE Debouncing
  BY <1>2 DEF Debouncing, timerVars, pastVars
<1>3. CASE ClicksAction
  BY <1>3 DEF ClicksAction, Reads
<1>4. CASE HeldAction
  BY <1>4 DEF HeldAction, Reads
<1>5. CASE Click
  BY <1>5 DEF Click, Released, Reads
<1>6. CASE StillPressed
  BY <1>6 DEF StillPressed, Reads
<1>7. CASE IdleAction
  BY <1>7 DEF IdleAction, Reads
<1>8. CASE HeldMs
  BY <1>8 DEF HeldMs
<1>9. CASE ButtonReset
  BY <1>9 DEF ButtonReset
<1>10. CASE Press
  BY <1>10 DEF Press, stateVars
<1>11. CASE Release
  BY <1>11 DEF Release, stateVars, Least
<1>12. CASE Time
  BY <1>12 DEF Time, stateVars
<1> QED
  BY <1>1, <1>2, <1>3, <1>4, <1>5, <1>6, <1>7, <1>8, <1>9, <1>10, <1>11, <1>12 DEF Next, Tick

LEMMA OneStep ==
  ASSUME NEW s \in Nat, NEW t \in Nat, NEW d \in Nat, NEW all \in Nat, d > 1, t <= s + 1, s + d <= all
  PROVE  t + (d - 1) <= all
OBVIOUS

LEMMA FollowsInductive ==
  ASSUME FlagsOK, NumbersOK, Follows, [Next]_vars PROVE Follows'
<1> USE ButtonAssumption DEF FlagsOK, NumbersOK, Follows
<1>1. CASE UNCHANGED vars
  BY <1>1 DEF vars, stateVars, timerVars, pastVars
<1>2. CASE Debouncing
  BY <1>2 DEF Debouncing, timerVars, pastVars
<1>3. CASE ClicksAction
  BY <1>3 DEF ClicksAction, Reads
<1>4. CASE HeldAction
  BY <1>4 DEF HeldAction, Reads
<1>5. CASE Click
  BY <1>5 DEF Click, Released, Reads
<1>6. CASE StillPressed
  BY <1>6 DEF StillPressed, Reads
<1>7. CASE IdleAction
  BY <1>7 DEF IdleAction, Reads
<1>8. CASE HeldMs
  BY <1>8 DEF HeldMs
<1>9. CASE ButtonReset
  BY <1>9 DEF ButtonReset
<1>10. CASE Press \/ Release
  BY <1>10 DEF Press, Release, stateVars, timerVars
<1>11. CASE Time
  <2> SUFFICES ASSUME (pressed <=> ~pin)
               PROVE  \/ debounce' > 0 /\ steady' + debounce' <= Debounce
                      \/ debounce' = 0 /\ steady' < lag' + Debounce
    BY <1>11 DEF Time, stateVars
  <2>1. steady' <= steady + 1 /\ steady' \in Nat /\ lag' = lag + 1
    BY <1>11 DEF Time, Least, Noticed
  <2>2. CASE debounce > 0
    <3>1. debounce' = debounce - 1 /\ steady + debounce <= Debounce
      BY <1>11, <2>2 DEF Time, Less
    <3>2. CASE debounce = 1
      <4>1. debounce' = 0 /\ steady' < lag' + Debounce
        BY <2>1, <3>1, <3>2
      <4> QED
        BY <4>1
    <3>3. CASE debounce > 1
      <4>1. debounce' > 0 /\ steady' + debounce' <= Debounce
        <5>1. debounce' > 0
          BY <3>1, <3>3
        <5>2. steady \in Nat /\ debounce \in Nat /\ Debounce \in Nat
          OBVIOUS
        <5>3. steady' + (debounce - 1) <= Debounce
          BY <2>1, <3>1, <3>3, <5>2, OneStep
        <5> QED
          BY <3>1, <5>1, <5>3
      <4> QED
        BY <4>1
    <3> QED
      BY <2>2, <3>2, <3>3
  <2>3. CASE debounce = 0
    <3>1. debounce' = 0 /\ steady < lag + Debounce
      BY <1>11, <2>3 DEF Time, Less
    <3> QED
      BY <2>1, <3>1
  <2> QED
    BY <2>2, <2>3
<1> QED
  BY <1>1, <1>2, <1>3, <1>4, <1>5, <1>6, <1>7, <1>8, <1>9, <1>10, <1>11 DEF Next, Tick

LEMMA HoldsInductive ==
  ASSUME FlagsOK, NumbersOK, Holds, [Next]_vars PROVE Holds'
<1> USE ButtonAssumption DEF FlagsOK, NumbersOK, Holds
<1>1. CASE UNCHANGED vars
  BY <1>1 DEF vars, stateVars, timerVars, pastVars
<1>2. CASE Debouncing
  BY <1>2 DEF Debouncing, timerVars, pastVars
<1>3. CASE ClicksAction
  BY <1>3 DEF ClicksAction, BetweenClicks, StartHeldTim, Reads
<1>4. CASE HeldAction
  BY <1>4 DEF HeldAction, Calm, Reads
<1>5. CASE Click
  BY <1>5 DEF Click, Released, StartHeldTim, Reads
<1>6. CASE StillPressed
  BY <1>6 DEF StillPressed, Calm, Reads, timerVars
<1>7. CASE IdleAction
  BY <1>7 DEF IdleAction, StartHeldTim, Reads
<1>8. CASE HeldMs
  BY <1>8 DEF HeldMs
<1>9. CASE ButtonReset
  BY <1>9 DEF ButtonReset
<1>10. CASE Press \/ Release
  BY <1>10 DEF Press, Release, stateVars, timerVars
<1>11. CASE Time
  BY <1>11 DEF Time, stateVars, Least, Less
<1> QED
  BY <1>1, <1>2, <1>3, <1>4, <1>5, <1>6, <1>7, <1>8, <1>9, <1>10, <1>11 DEF Next, Tick

-----------------------------------------------------------------------------
LEMMA InitInv == Init => IndInv
<1> SUFFICES ASSUME Init PROVE IndInv
  OBVIOUS
<1>1. FlagsOK
  BY DEF Init, FlagsOK
<1>2. NumbersOK
  BY ButtonAssumption DEF Init, NumbersOK, Noticed
<1>3. Shows /\ Counts
  BY DEF Init, Shows, Counts
<1>4. Follows
  BY ButtonAssumption DEF Init, Follows
<1>5. Holds
  BY ButtonAssumption DEF Init, Holds
<1> QED
  BY <1>1, <1>2, <1>3, <1>4, <1>5 DEF IndInv

LEMMA Inductive == IndInv /\ [Next]_vars => IndInv'
BY FlagsInductive, NumbersInductive, ShowsInductive, CountsInductive, FollowsInductive, HoldsInductive DEF IndInv

\* The invariant behind the theorems.
THEOREM ButtonInv == Spec => []IndInv
BY InitInv, Inductive, PTL DEF Spec

\* The flags, the timers and the counters keep their types.
THEOREM ButtonTypeOK == Spec => []TypeOK
<1>1. IndInv => TypeOK
  BY ButtonAssumption DEF IndInv, TypeOK, NumbersOK, Counts
<1> QED
  BY <1>1, ButtonInv, PTL

\* However the pin bounces, clicks are counted at most once for a release.
THEOREM ButtonClicksAreReleases == Spec => []ClicksAreReleases
<1>1. IndInv => ClicksAreReleases
  BY DEF IndInv, Counts, ClicksAreReleases
<1> QED
  BY <1>1, ButtonInv, PTL

\* A button that is ticked within the delay of the clicks shows every click.
THEOREM ButtonClicksShown == Spec => []ClicksShown
<1>1. IndInv => ClicksShown
  BY ButtonAssumption DEF IndInv, NumbersOK, Shows, ClicksShown
<1> QED
  BY <1>1, ButtonInv, PTL

\* A level that lasts is noticed in time, whatever the application does.
THEOREM ButtonPinFollowed == Spec => []PinFollowed
<1>1. IndInv => PinFollowed
  <2> SUFFICES ASSUME IndInv, steady = Noticed, (pressed <=> ~pin) PROVE FALSE
    BY DEF PinFollowed, IndInv, FlagsOK
  <2> QED
    BY ButtonAssumption DEF IndInv, NumbersOK, Follows, Noticed
<1> QED
  BY <1>1, ButtonInv, PTL

\* No bounce makes a button held before its time.
THEOREM ButtonHeldMeansLong == Spec => []HeldMeansLong
<1>1. IndInv => HeldMeansLong
  BY DEF IndInv, Holds, HeldMeansLong
<1> QED
  BY <1>1, ButtonInv, PTL
=============================================================================
