-------------------------------- MODULE Button --------------------------------
(***************************************************************************)
(* src/button/button.c and src/autoguard/g_btn.cpp: one button, which the  *)
(* job btn_watchdog_check ticks, with the calls of the application.  A     *)
(* timer is the time that it will still make gtimer_wait() TRUE; a timer   *)
(* that was reset does not.  The pin may bounce at any moment.             *)
(***************************************************************************)
EXTENDS Naturals

CONSTANTS
    Debounce, ClicksDelay, Hold, Timeout,   \* the delays, in units of time
    MaxLag,                                 \* bound: time between two ticks of the button
    MaxClicks                               \* bound: clicks that are counted

ASSUME ButtonAssumption ==
    /\ Debounce \in Nat \ {0} /\ MaxLag \in Nat \ {0} /\ MaxClicks \in Nat
    /\ ClicksDelay \in Nat /\ Hold \in Nat /\ Timeout \in Nat
    /\ Debounce < ClicksDelay /\ ClicksDelay < Hold /\ Hold < Timeout
    /\ MaxLag < ClicksDelay

VARIABLES
    pin,            \* what _btn_pressed would read
    pressed, clicks, lastClicks, nextClick, held,
    debounce, timeout, clicksTim, heldTim,
    counting,       \* _held_tim.start is not 0
    lag,            \* time since the last tick
    steady,         \* history: time since the pin changed or the button was reset
    unseen,         \* history: time since the program last read the pin up
    releases,       \* history: releases of the pin since the clicks were last cleared
    polled          \* history: button_held_ms was called since the button was last idle

timerVars == <<debounce, timeout, clicksTim, heldTim, counting>>
stateVars == <<pressed, clicks, lastClicks, nextClick, held>>
pastVars == <<steady, unseen, releases, polled>>
vars == <<pin, stateVars, timerVars, lag, pastVars>>

Least(a, b) == IF a < b THEN a ELSE b
Noticed == Debounce + MaxLag

\* button_tick first shows the clicks while their timer runs.
Shown == IF clicksTim > 0 THEN clicks ELSE lastClicks

\* gtimer_start(&button->_held_tim, ...)
StartHeldTimWrong == heldTim' = Timeout /\ counting' = TRUE
StartHeldTim == heldTim' = Hold /\ counting' = TRUE

\* A tick reads the pin.
Reads ==
    /\ lag' = 0 /\ UNCHANGED <<pin, steady>>
    /\ unseen' = IF pin THEN unseen ELSE 0

-----------------------------------------------------------------------------
(* button_tick                                                             *)

DebouncingAnew ==
    /\ debounce > 0 /\ debounce' = Debounce
    /\ lastClicks' = Shown /\ lag' = 0
    /\ UNCHANGED <<pin, pressed, clicks, nextClick, held, timeout, clicksTim, heldTim, counting, pastVars>>
Debouncing ==
    /\ debounce > 0
    /\ lastClicks' = Shown /\ lag' = 0
    /\ UNCHANGED <<pin, pressed, clicks, nextClick, held, timerVars, pastVars>>

\* _btn_clicks_action: waits for the next press, or for the end of the clicks.
\* Only a click starts the timer of their end.
BetweenClicksHolding == UNCHANGED <<timeout, heldTim, counting>>
BetweenClicksAnew == StartHeldTim /\ timeout' = Timeout
BetweenClicks == StartHeldTim /\ UNCHANGED timeout

ClicksAction ==
    /\ debounce = 0 /\ clicks > 0 /\ ~nextClick
    /\ Reads /\ BetweenClicks /\ UNCHANGED <<held, polled>>
    /\ pressed' = pin /\ nextClick' = pin
    /\ clicksTim' = IF pin THEN ClicksDelay ELSE clicksTim
    /\ debounce' = IF pin \/ timeout = 0 THEN Debounce ELSE 0
    /\ IF timeout > 0
       THEN lastClicks' = Shown /\ UNCHANGED <<clicks, releases>>
       ELSE lastClicks' = 0 /\ clicks' = 0 /\ releases' = 0

Calm == debounce = 0 /\ (clicks = 0 \/ nextClick)

\* _btn_held_action
HeldAction ==
    /\ Calm /\ held
    /\ Reads /\ lastClicks' = Shown
    /\ pressed' = pin /\ held' = pin
    /\ debounce' = IF pin THEN debounce ELSE Debounce
    /\ UNCHANGED <<clicks, nextClick, timeout, clicksTim, heldTim, counting, releases, polled>>

\* _btn_pressed_action: a release is a click, which starts the timers again.
ClickTimersKept == timeout' = Timeout /\ UNCHANGED clicksTim
ClickTimers == timeout' = Timeout /\ clicksTim' = ClicksDelay

ReleasedUnseen == UNCHANGED <<pressed, nextClick>>
Released == pressed' = FALSE /\ nextClick' = FALSE

Click ==
    /\ Calm /\ ~held /\ pressed /\ ~pin
    /\ Reads /\ lastClicks' = Shown /\ StartHeldTim /\ ClickTimers
    /\ Released /\ clicks' = clicks + 1
    /\ UNCHANGED <<held, debounce, releases, polled>>

StillPressed ==
    /\ Calm /\ ~held /\ pressed /\ pin
    /\ Reads /\ lastClicks' = Shown
    /\ held' = (heldTim = 0)
    /\ UNCHANGED <<pressed, clicks, nextClick, timerVars, releases, polled>>

\* _btn_idle_action
IdleAction ==
    /\ Calm /\ ~held /\ ~pressed
    /\ Reads /\ StartHeldTim /\ debounce' = Debounce
    /\ pressed' = pin /\ clicks' = 0 /\ lastClicks' = 0 /\ held' = FALSE
    /\ clicksTim' = IF pin THEN ClicksDelay ELSE clicksTim
    /\ releases' = 0 /\ polled' = FALSE
    /\ UNCHANGED <<nextClick, timeout>>

Tick == Debouncing \/ ClicksAction \/ HeldAction \/ Click \/ StillPressed \/ IdleAction

-----------------------------------------------------------------------------
(* The application, the pin and the time                                   *)

\* button_held_ms also withdraws the held state and finds it.
HeldMs ==
    /\ polled' = TRUE
    /\ IF pin
       THEN held' = (held \/ heldTim = 0) /\ UNCHANGED <<heldTim, counting, unseen>>
       ELSE held' = FALSE /\ heldTim' = 0 /\ counting' = FALSE /\ unseen' = 0
    /\ UNCHANGED <<pin, pressed, clicks, lastClicks, nextClick, debounce, timeout, clicksTim, lag, steady, releases>>

ButtonReset ==
    /\ pressed' = FALSE /\ clicks' = 0 /\ lastClicks' = 0 /\ held' = FALSE
    /\ debounce' = 0 /\ heldTim' = 0 /\ clicksTim' = 0 /\ counting' = FALSE
    /\ steady' = 0 /\ releases' = 0
    /\ UNCHANGED <<pin, nextClick, timeout, lag, unseen, polled>>

Press ==
    /\ ~pin /\ pin' = TRUE /\ steady' = 0
    /\ UNCHANGED <<stateVars, timerVars, lag, unseen, releases, polled>>

Release ==
    /\ pin /\ clicks < MaxClicks
    /\ pin' = FALSE /\ steady' = 0 /\ releases' = Least(releases + 1, MaxClicks)
    /\ UNCHANGED <<stateVars, timerVars, lag, unseen, polled>>

Less(t) == IF t > 0 THEN t - 1 ELSE 0

Time ==
    /\ lag < MaxLag /\ lag' = lag + 1
    /\ debounce' = Less(debounce) /\ timeout' = Less(timeout)
    /\ clicksTim' = Less(clicksTim) /\ heldTim' = Less(heldTim)
    /\ steady' = Least(steady + 1, Noticed) /\ unseen' = Least(unseen + 1, Timeout)
    /\ UNCHANGED <<pin, stateVars, counting, releases, polled>>

\* button_create
Init ==
    /\ pin \in BOOLEAN /\ pressed = pin
    /\ clicks = 0 /\ lastClicks = 0 /\ nextClick = FALSE /\ held = FALSE
    /\ debounce = 0 /\ timeout = 0 /\ clicksTim = 0 /\ heldTim = 0 /\ counting = FALSE
    /\ lag = 0 /\ steady = 0 /\ unseen = Timeout /\ releases = 0 /\ polled = FALSE

Next == Tick \/ HeldMs \/ ButtonReset \/ Press \/ Release \/ Time

Spec == Init /\ [][Next]_vars

\* The watchdog is a job of the scheduler, and time goes on.
FairSpec == Spec /\ WF_vars(Tick) /\ WF_vars(Time)

-----------------------------------------------------------------------------
(* Properties                                                              *)

FlagsOK ==
    /\ pin \in BOOLEAN /\ pressed \in BOOLEAN /\ nextClick \in BOOLEAN /\ held \in BOOLEAN
    /\ counting \in BOOLEAN /\ polled \in BOOLEAN

TypeOK ==
    /\ FlagsOK
    /\ clicks \in 0 .. MaxClicks /\ lastClicks \in 0 .. MaxClicks
    /\ debounce \in 0 .. Debounce /\ timeout \in 0 .. Timeout
    /\ clicksTim \in 0 .. ClicksDelay /\ heldTim \in 0 .. Hold
    /\ lag \in 0 .. MaxLag /\ steady \in 0 .. Noticed /\ unseen \in 0 .. Timeout
    /\ releases \in 0 .. MaxClicks

\* Every click stands for a release of its own, however the pin bounces and
\* whatever the application asks in between (button.c:189-195).
ClicksAreReleases == clicks <= releases

\* No click is withheld: one that button_clicks() does not show yet will be
\* shown by the next tick (button.c:75-77, 191-194).
ClicksShown == lastClicks # clicks => clicksTim > 0

\* A pin that keeps its level is noticed within the debounce delay and the
\* time between two ticks.
PinFollowed == steady = Noticed => pressed = pin

\* A button is held only when every reading of the hold time found it pressed,
\* provided button_held_ms() did not interfere (button.c:155-173, 196-199).
HeldMeansLong == held /\ ~polled => unseen >= Hold

\* A button left alone forgets its clicks and its hold.
Forgotten == <>[]~pin => <>[](clicks = 0 /\ lastClicks = 0 /\ ~held /\ ~pressed)

\* button_held_ms() does not answer 0 for a button that is held: one that asks
\* while the pin is up, or pressed and not yet noticed, resets the timer.
HeldTimeCounted == held => counting
=============================================================================
