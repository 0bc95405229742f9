---------------------------- MODULE FlashDmaProofs ----------------------------
(***************************************************************************)
(* The safety of the interrupt driven flash driver, for every size of the  *)
(* chip, every request and every bound.                                    *)
(***************************************************************************)
EXTENDS FlashDma, SequenceTheorems, WellFoundedInduction, TLAPS

-----------------------------------------------------------------------------
(* The control of the driver: which route may lie on which, and in which   *)
(* state its machine waits for it.  This holds whatever transfer is late.  *)

\* The events that interrupts queue; all others are queued by the machine's
\* own handlers.
Async == {"transmit", "receive", "error"}

Events == Async \cup {"unblock", "success", "timeout", "next", "done", "erase", "write"}

Plain == {"unblock", "on", "off"}

FreeRoutes  == [kind : {"free"}, cnt : Nat]
PlainRoutes == [kind : Plain]

\* A read stays in the chip and in the buffer it fills.
ReadRoutes ==
    {r \in [kind : {"read"}, addr : Pages, len : Nat \ {0}, rx : Int] :
        /\ r.addr + r.len - 1 \in Pages
        /\ r.rx = ToUser \/ (r.rx >= 0 /\ r.rx + r.len <= PagesPerSector)}

WriteRoutes ==
    {r \in [kind : {"write"}, addr : Pages, len : Nat \ {0}, cnt : Nat, rx : Slot, tx : Seq(Content)] :
        /\ r.addr + r.len - 1 \in Pages
        /\ r.rx + r.len <= PagesPerSector
        /\ r.cnt <= r.len
        /\ r.tx # FromBuffer => Len(r.tx) = r.len}

EraseRoutes ==
    {r \in [kind : {"erase"}, list : Seq(Pages) \ {<<>>}, cnt : Nat, idx : Nat] :
        r.cnt <= Len(r.list) /\ r.idx <= PagesPerSector}

Routes == FreeRoutes \cup PlainRoutes \cup ReadRoutes \cup WriteRoutes \cup EraseRoutes

Commands == ({"sr1", "data", "program"} \cup Kinds) \X Nat

TxTransfers == [op : {"tx"}, what : Commands, page : Pages, data : Content, late : BOOLEAN]
RxStatuses  == [op : {"rx"}, what : {<<"sr1", 0>>}, late : BOOLEAN]
RxPages ==
    {d \in [op : {"rx"}, what : {<<"data", 0>>}, page : Pages, len : Nat \ {0}, to : Int, late : BOOLEAN] :
        /\ d.page + d.len - 1 \in Pages
        /\ d.to = ToUser \/ (d.to >= 0 /\ d.to + d.len <= PagesPerSector)}
Transfers == {NoTransfer} \cup TxTransfers \cup RxStatuses \cup RxPages

WriteStates == {"init", "unblock", "cmp", "erase", "enable", "cmd", "data", "disable"}
EraseStates == {"init", "unblock", "loop", "cmp", "enable", "erase", "repair", "disable"}

StatesOf(k) ==
    CASE k = "free"  -> {"init", "free"}
      [] k = "write" -> WriteStates
      [] k = "erase" -> EraseStates
      [] OTHER       -> 0 .. Len(Script[k])

ChipType ==
    /\ mem \in [Pages -> Content] /\ before \in [Pages -> Content]
    /\ chip \in [busy : BOOLEAN, wel : BOOLEAN, locked : BOOLEAN]
    /\ buf \in [Slot -> Content] /\ sr1 \in BOOLEAN
    /\ dma \in Transfers

CountType == faults \in 0 .. MaxFaults /\ lates \in 0 .. MaxLates /\ requests \in 0 .. MaxRequests

FsmType ==
    /\ stack \in Seq(Routes)
    /\ main \in {"init", "router", "run", "done"}
    /\ res \in {Ok, Error, Busy}
    /\ st = [k \in Kinds |-> st[k]] /\ \A k \in Kinds : st[k] \in StatesOf(k)
    /\ evs \in [Kinds -> SUBSET Events]

OnStack(k) == \E i \in 1 .. Len(stack) : stack[i].kind = k

\* In state s the machine of kind k waits for a route of kind c.
Waits(k, s, c) ==
    \/ /\ k \in DOMAIN Script /\ c = "free"
       /\ s \in 1 .. Len(Script[k]) /\ Script[k][s] = "free"
    \/ /\ k = "write"
       /\ <<s, c>> \in {<<"unblock", "unblock">>, <<"cmp", "read">>, <<"erase", "erase">>,
                        <<"enable", "on">>, <<"disable", "off">>}
    \/ /\ k = "erase"
       /\ <<s, c>> \in {<<"unblock", "unblock">>, <<"cmp", "read">>, <<"enable", "on">>,
                        <<"repair", "write">>, <<"disable", "off">>}

\* The one case of two routes of a kind: the WRITE of a request has erased,
\* and a WRITE of a neighbour uses its machine meanwhile.
Twice ==
    /\ Len(stack) >= 3
    /\ stack[1].kind = "write" /\ stack[2].kind = "erase" /\ stack[3].kind = "write"

Shape ==
    /\ main \in {"run", "done"} => stack # <<>>
    /\ main = "init" => \A k \in Kinds : st[k] = Start(k)
    /\ stack # <<>> => stack[1].kind \in {"read", "write", "erase"}
    /\ \A i \in 1 .. Len(stack) - 1 :
          \/ Waits(stack[i].kind, st[stack[i].kind], stack[i + 1].kind)
          \/ i = 1 /\ Twice
    /\ \A i \in 2 .. Len(stack) :
          /\ stack[i].kind = "erase" => i = 2 /\ stack[1].kind = "write"
          /\ stack[i].kind = "write" =>
                /\ stack[i].tx = FromBuffer /\ stack[i].len = 1
                /\ i < Len(stack) => stack[i + 1].kind \in {"read", "on"}
    /\ stack # <<>> /\ stack[1].kind = "write" => stack[1].tx # FromBuffer
    /\ \A k \in Kinds : ~OnStack(k) => st[k] = Start(k)

TopRuns(k) == main = "run" /\ Top.kind = k

\* The events that the machine of the route on top can have queued itself
MayOfWrite(e) ==
    \/ st["write"] = "init" /\ e = (IF Nested THEN "success" ELSE "unblock")
    \/ st["write"] \in {"unblock", "disable", "erase"} /\ e = "success"
    \/ st["write"] = "cmp" /\ e = "write"
    \/ st["write"] = "cmp" /\ Nested /\ e = (IF Front("write") THEN "next" ELSE "done")
    \/ st["write"] = "cmp" /\ ~Nested /\ e \in {"success", "erase"}
    \/ st["write"] = "enable" /\ e = (IF Top.cnt >= Top.len THEN "done" ELSE "success")

MayOfErase(e) ==
    \/ st["erase"] = "init" /\ e = (IF Nested THEN "success" ELSE "unblock")
    \/ st["erase"] \in {"unblock", "enable", "disable"} /\ e = "success"
    \/ st["erase"] = "loop" /\ e = (IF Top.cnt >= Len(Top.list) THEN "success" ELSE "next")
    \/ st["erase"] = "cmp" /\ e \in {"success", "erase"}
    \/ st["erase"] = "repair" /\ e \in {"success", "write"}

May(e) ==
    \/ Top.kind = "write" /\ MayOfWrite(e)
    \/ Top.kind = "erase" /\ MayOfErase(e)
    \/ Top.kind = "free" /\ e \in {"success", "timeout"}
    \/ /\ Top.kind \in DOMAIN Script /\ e = "success"
       /\ st[Top.kind] = 0 \/ Script[Top.kind][st[Top.kind]] = "free"

OwnOk ==
    /\ \A e \in evs[Top.kind] \ Async : May(e)
    /\ Top.kind # "free" => \A e, f \in evs[Top.kind] \ Async : e = f

\* Only the machine that runs has events of its own, and one at a time.
OwnEvents ==
    \A k \in Kinds : evs[k] \subseteq Async \/ (TopRuns(k) /\ OwnOk)

\* The machine of a route that is done is back at its start; the machine that
\* two WRITEs share is where the one below waits.
DoneState ==
    main = "done" =>
        st[Top.kind] = IF Top.kind = "write" /\ Nested /\ Front("write") /\ res = Ok THEN "erase"
                       ELSE Start(Top.kind)

WriteOk ==
    /\ st["write"] \in {"cmd", "data"} => TopRuns("write")
    /\ st["write"] = "cmd" => Top.cnt < Top.len
    /\ st["write"] = "data" => Top.cnt > 0
    /\ stack # <<>> /\ Top.kind = "write" /\ Nested =>
          \/ st["write"] \in {"cmp", "enable", "cmd", "data"}
          \/ st["write"] = "init" /\ (main = "done" \/ ~Front("write"))
          \/ st["write"] = "erase" /\ Front("write")

\* Where it looks at an address of its list, ERASE has one.
EraseOk ==
    /\ st["erase"] = "erase" => TopRuns("erase")
    /\ st["erase"] \in {"cmp", "enable", "erase", "repair", "disable"} =>
          \A i \in 1 .. Len(stack) : stack[i].kind = "erase" => stack[i].cnt < Len(stack[i].list)

Control == FsmType /\ Shape /\ OwnEvents /\ DoneState /\ WriteOk /\ EraseOk

DmaInv == ChipType /\ CountType /\ Control

-----------------------------------------------------------------------------
(* What the stack can look like                                            *)

LEMMA ScriptFacts ==
  /\ DOMAIN Script = {"unblock", "on", "off", "read"}
  /\ Kinds = {"unblock", "on", "off", "read", "free", "write", "erase"}
  /\ Script["unblock"] = <<"free", "tx", "tx">>
  /\ Script["on"] = <<"free", "tx">>
  /\ Script["off"] = <<"free", "tx", "free", "tx", "tx">>
  /\ Script["read"] = <<"free", "send">>
BY DEF Script, Kinds

\* Only WRITE and ERASE call other routes than FREE, and nothing calls ERASE
\* but the WRITE of a request.
LEMMA Calls ==
  ASSUME Shape
  PROVE  \A i \in 1 .. Len(stack) - 1 :
            \/ stack[i].kind = "write" /\ (stack[i + 1].kind \in {"unblock", "on", "off", "read"} \/ (i = 1 /\ stack[i + 1].kind = "erase"))
            \/ stack[i].kind = "erase" /\ stack[i + 1].kind \in {"unblock", "on", "off", "read", "write"}
            \/ stack[i].kind \in DOMAIN Script /\ stack[i + 1].kind = "free"
<1> TAKE i \in 1 .. Len(stack) - 1
<1>1. CASE i = 1 /\ Twice
  BY <1>1 DEF Twice
<1>2. CASE Waits(stack[i].kind, st[stack[i].kind], stack[i + 1].kind)
  <2>1. i + 1 \in 2 .. Len(stack)
    OBVIOUS
  <2>2. stack[i + 1].kind = "erase" => i + 1 = 2
    BY <2>1 DEF Shape
  <2> QED BY <1>2, <2>2 DEF Waits
<1> QED BY <1>1, <1>2 DEF Shape

\* The stack holds at most two routes that call others than FREE below a
\* neighbour's WRITE, so it is at most Deepest deep; no route lies twice on
\* it, but WRITE.
LEMMA StackForm ==
  ASSUME Shape, stack \in Seq(Routes)
  PROVE  /\ Len(stack) <= Deepest
         /\ \A i \in 1 .. Len(stack) : stack[i].kind = "write" /\ i > 1 =>
               \/ i = 2 /\ stack[1].kind = "erase"
               \/ i = 3 /\ stack[2].kind = "erase" /\ stack[1].kind = "write"
         /\ \A i, j \in 1 .. Len(stack) : i < j /\ stack[i].kind = stack[j].kind =>
               i = 1 /\ j = 3 /\ Twice
         /\ \A i \in 1 .. Len(stack) - 1 :
               \/ stack[i].kind \in {"write", "erase"} /\ i <= 3
               \/ stack[i].kind \in DOMAIN Script /\ stack[i + 1].kind = "free" /\ i + 1 = Len(stack)
<1> DEFINE n == Len(stack)
<1>0. n \in Nat
  OBVIOUS
<1> HIDE DEF n
<1>1. \A i \in 1 .. n - 1 :
            \/ stack[i].kind = "write" /\ (stack[i + 1].kind \in {"unblock", "on", "off", "read"} \/ (i = 1 /\ stack[i + 1].kind = "erase"))
            \/ stack[i].kind = "erase" /\ stack[i + 1].kind \in {"unblock", "on", "off", "read", "write"}
            \/ stack[i].kind \in {"unblock", "on", "off", "read"} /\ stack[i + 1].kind = "free"
  BY Calls, ScriptFacts DEF n
<1>2. \A i \in 1 .. n : stack[i].kind = "erase" => i = 1 \/ (i = 2 /\ stack[1].kind = "write")
  BY <1>0 DEF Shape, n
<1>3. ASSUME NEW i \in 1 .. n, stack[i].kind = "write", i > 1
      PROVE  \/ i = 2 /\ stack[1].kind = "erase"
             \/ i = 3 /\ stack[2].kind = "erase" /\ stack[1].kind = "write"
  <2>1. i - 1 \in 1 .. n - 1 /\ (i - 1) + 1 = i
    BY <1>0, <1>3
  <2>2. stack[i - 1].kind = "erase"
    BY <2>1, <1>1, <1>3
  <2> QED BY <2>1, <2>2, <1>2, <1>0
<1>4. ASSUME NEW i \in 1 .. n - 1
      PROVE  \/ stack[i].kind \in {"write", "erase"} /\ i <= 3
             \/ stack[i].kind \in {"unblock", "on", "off", "read"} /\ stack[i + 1].kind = "free" /\ i + 1 = n
  <2>1. i \in 1 .. n /\ i + 1 \in 1 .. n
    BY <1>0
  <2>2. CASE stack[i].kind = "write"
    BY <2>1, <2>2, <1>3, <1>0
  <2>3. CASE stack[i].kind = "erase"
    BY <2>1, <2>3, <1>2, <1>0
  <2>4. CASE stack[i].kind \in {"unblock", "on", "off", "read"}
    <3>1. stack[i + 1].kind = "free"
      BY <2>4, <1>1
    <3>2. i + 1 \notin 1 .. n - 1
      BY <3>1, <1>1
    <3> QED BY <3>1, <3>2, <2>1, <2>4, <1>0
  <2> QED BY <1>1, <2>2, <2>3, <2>4
<1>5. n <= 5
  <2>1. SUFFICES ASSUME n > 5 PROVE FALSE
    BY <1>0
  <2>2. 4 \in 1 .. n - 1 /\ 4 + 1 # n
    BY <1>0, <2>1
  <2> QED BY <2>2, <1>4
<1>6. ASSUME NEW i \in 1 .. n, NEW j \in 1 .. n, i < j, stack[i].kind = stack[j].kind
      PROVE  i = 1 /\ j = 3 /\ Twice
  <2>1. i \in 1 .. n - 1
    BY <1>0, <1>6
  <2>2. CASE stack[i].kind = "write"
    <3>1. j > 1
      BY <1>0, <1>6
    <3>2. \/ j = 2 /\ stack[1].kind = "erase"
          \/ j = 3 /\ stack[2].kind = "erase" /\ stack[1].kind = "write"
      BY <1>3, <3>1, <1>6, <2>2
    <3>3. i = 1 \/ i = 2
      BY <1>6, <3>2, <1>0
    <3>4. i = 1 /\ j = 3 /\ stack[2].kind = "erase" /\ stack[1].kind = "write"
      BY <3>2, <3>3, <2>2, <1>6
    <3> QED BY <3>4, <1>6, <2>2, <1>0 DEF Twice, n
  <2>3. CASE stack[i].kind = "erase"
    <3>1. stack[j].kind = "erase"
      BY <1>6, <2>3
    <3>2. j = 1 \/ (j = 2 /\ stack[1].kind = "write")
      BY <1>2, <3>1
    <3>3. i = 1
      BY <3>2, <1>6, <1>0
    <3> QED BY <3>2, <3>3, <1>6, <2>3
  <2>4. CASE stack[i].kind \in {"unblock", "on", "off", "read"}
    <3>1. j = n /\ stack[j].kind = "free"
      BY <1>4, <2>1, <2>4, <1>6, <1>0
    <3> QED BY <3>1, <2>4, <1>6
  <2> QED BY <1>4, <2>1, <2>2, <2>3, <2>4
<1> QED BY <1>3, <1>4, <1>5, <1>6, ScriptFacts DEF n, Deepest

-----------------------------------------------------------------------------
(* Three kinds of steps of the machine of the route on top                 *)

\* A handler changes no more of a route than its counters.
Same(r, q) ==
    /\ q.kind = r.kind
    /\ r.kind = "write" => q.tx = r.tx /\ q.len = r.len /\ q.addr = r.addr /\ q.rx = r.rx
    /\ r.kind = "erase" => q.list = r.list
    /\ r.kind \notin {"free", "write", "erase"} => q = r

BelowKept == \A i \in 1 .. Len(stack) - 1 : stack'[i] = stack[i]

\* Only the machine of the route on top moves; it may clear another's events.
Moves ==
    /\ Top.kind \in Kinds
    /\ stack' \in Seq(Routes) /\ res' \in {Ok, Error, Busy}
    /\ main' \in {"init", "router", "run", "done"}
    /\ st' = [k \in Kinds |-> st'[k]] /\ evs' \in [Kinds -> SUBSET Events]
    /\ st'[Top.kind] \in StatesOf(Top.kind)
    /\ \A k \in Kinds : k # Top.kind => st'[k] = st[k] /\ evs'[k] \subseteq evs[k]

\* It stays on top.
LEMMA RunStep ==
  ASSUME Control, main = "run", main' = "run", Moves, BelowKept,
         Len(stack') = Len(stack), Same(Top, Top'),
         OwnOk',
         Top.kind = "write" => WriteOk',
         Top.kind = "erase" => EraseOk'
  PROVE  Control'
<1> DEFINE n == Len(stack)
<1>0. /\ n \in Nat \ {0} /\ Len(stack') = n /\ Top = stack[n] /\ Top' = stack'[n] /\ n \in 1 .. n
      /\ stack # <<>> /\ stack' # <<>>
  BY DEF Control, FsmType, Shape, Top, Moves
<1> HIDE DEF n
<1>1. FsmType'
  BY DEF Control, FsmType, Moves
<1>2. \A i \in 1 .. n : stack'[i].kind = stack[i].kind
  BY <1>0 DEF BelowKept, Same, n
<1>3. \A i \in 1 .. n - 1 : stack[i].kind = Top.kind => i = 1 /\ Twice
  <2>1. \A i, j \in 1 .. n : i < j /\ stack[i].kind = stack[j].kind => i = 1 /\ j = 3 /\ Twice
    BY StackForm DEF Control, FsmType, n
  <2>2. \A i \in 1 .. n - 1 : i \in 1 .. n /\ i < n
    BY <1>0
  <2> QED BY <1>0, <2>1, <2>2
<1>4. Twice => Twice'
  BY <1>0, <1>2 DEF Twice, n
<1>5. Shape'
  <2>1. stack'[1].kind \in {"read", "write", "erase"}
    BY <1>0, <1>2 DEF Control, Shape
  <2>2. ASSUME NEW i \in 1 .. n - 1
        PROVE  \/ Waits(stack'[i].kind, st'[stack'[i].kind], stack'[i + 1].kind)
               \/ i = 1 /\ Twice'
    <3>1. i \in 1 .. n /\ i + 1 \in 1 .. n
      BY <1>0
    <3>2. \/ Waits(stack[i].kind, st[stack[i].kind], stack[i + 1].kind)
          \/ i = 1 /\ Twice
      BY DEF Control, Shape, n
    <3>3. CASE stack[i].kind = Top.kind
      BY <3>3, <1>3, <1>4
    <3>4. CASE stack[i].kind # Top.kind
      <4>1. stack[i].kind \in Kinds
        BY <3>1, <3>2, ScriptFacts DEF Waits, Twice
      <4> QED BY <3>1, <3>2, <3>4, <4>1, <1>2, <1>4 DEF Moves
    <3> QED BY <3>3, <3>4
  <2>3. ASSUME NEW i \in 2 .. n
        PROVE  /\ stack'[i].kind = "erase" => i = 2 /\ stack'[1].kind = "write"
               /\ stack'[i].kind = "write" =>
                     /\ stack'[i].tx = FromBuffer /\ stack'[i].len = 1
                     /\ i < n => stack'[i + 1].kind \in {"read", "on"}
    <3>1. 1 \in 1 .. n /\ i \in 1 .. n /\ (i < n => i + 1 \in 1 .. n)
      BY <1>0
    <3>2. /\ stack[i].kind = "erase" => i = 2 /\ stack[1].kind = "write"
          /\ stack[i].kind = "write" =>
                /\ stack[i].tx = FromBuffer /\ stack[i].len = 1
                /\ i < n => stack[i + 1].kind \in {"read", "on"}
      BY DEF Control, Shape, n
    <3>3. i = n \/ i \in 1 .. n - 1
      BY <1>0
    <3>4. stack'[i].kind = "write" => stack'[i].tx = stack[i].tx /\ stack'[i].len = stack[i].len
      BY <3>3, <1>0, <1>2, <3>1 DEF BelowKept, Same, n
    <3> QED BY <3>1, <3>2, <3>4, <1>2
  <2>4. stack'[1].kind = "write" => stack'[1].tx # FromBuffer
    <3>1. 1 = n \/ 1 \in 1 .. n - 1
      BY <1>0
    <3>2. stack[1].kind = "write" => stack[1].tx # FromBuffer
      BY <1>0 DEF Control, Shape
    <3> QED BY <3>1, <3>2, <1>0, <1>2 DEF BelowKept, Same, n
  <2>5. ASSUME NEW k \in Kinds, ~OnStack(k)' PROVE st'[k] = Start(k)
    <3>1. ~OnStack(k) /\ k # Top.kind
      BY <2>5, <1>0, <1>2 DEF OnStack, n
    <3> QED BY <3>1 DEF Control, Shape, Moves
  <2> QED BY <2>1, <2>2, <2>3, <2>4, <2>5, <1>0 DEF Shape
<1>6. OwnEvents'
  <2> SUFFICES ASSUME NEW k \in Kinds
               PROVE  evs'[k] \subseteq Async \/ (TopRuns(k) /\ OwnOk)'
    BY DEF OwnEvents
  <2>1. CASE k = Top.kind
    BY <2>1 DEF TopRuns, Same
  <2>2. CASE k # Top.kind
    BY <2>2 DEF Control, OwnEvents, TopRuns, Moves
  <2> QED BY <2>1, <2>2
<1>7. DoneState'
  BY DEF DoneState
<1>8. WriteOk'
  <2> SUFFICES ASSUME Top.kind # "write" PROVE WriteOk'
    OBVIOUS
  <2>1. st'["write"] = st["write"] /\ Top'.kind # "write"
    BY ScriptFacts DEF Moves, Same
  <2>2. st["write"] \notin {"cmd", "data"}
    BY DEF Control, WriteOk, TopRuns
  <2> QED BY <2>1, <2>2 DEF WriteOk
<1>9. EraseOk'
  <2> SUFFICES ASSUME Top.kind # "erase" PROVE EraseOk'
    OBVIOUS
  <2>1. st'["erase"] = st["erase"] /\ Top'.kind # "erase"
    BY ScriptFacts DEF Moves, Same
  <2>2. st["erase"] # "erase"
    BY DEF Control, EraseOk, TopRuns
  <2>3. ASSUME NEW i \in 1 .. n, stack'[i].kind = "erase" PROVE stack'[i] = stack[i] /\ stack[i].kind = "erase"
    <3>1. i # n
      BY <2>1, <2>3, <1>0
    <3>2. i \in 1 .. n - 1
      BY <3>1, <1>0
    <3> QED BY <3>2, <1>2, <2>3 DEF BelowKept, n
  <2> QED BY <2>1, <2>2, <2>3, <1>0 DEF EraseOk, Control, n
<1> QED BY <1>1, <1>5, <1>6, <1>7, <1>8, <1>9 DEF Control

\* It pushes a route.
Pushes ==
    /\ main = "run" /\ main' = "router" /\ Moves /\ BelowKept
    /\ Len(stack') = Len(stack) + 1
    /\ Same(Top, stack'[Len(stack)])
    /\ Waits(Top.kind, st'[Top.kind], Top'.kind)

LEMMA PushStep ==
  ASSUME Control, Pushes,
         evs'[Top.kind] \subseteq Async,
         Top'.kind = "erase" => ~Nested,
         Top.kind = "write" /\ Nested => Top'.kind \in {"read", "on"},
         Top'.kind = "write" => Top'.tx = FromBuffer /\ Top'.len = 1,
         \A i \in 1 .. Len(stack) : stack[i].kind = "erase" /\ Top'.kind # "erase" =>
             stack'[i].cnt < Len(stack'[i].list) \/ st'["erase"] \in {"init", "unblock", "loop"}
  PROVE  Control'
<1> DEFINE n == Len(stack)
<1>0. /\ n \in Nat \ {0} /\ Len(stack') = n + 1 /\ Top = stack[n] /\ Top' = stack'[n + 1]
      /\ n \in 1 .. n /\ n + 1 \in 1 .. n + 1 /\ stack # <<>> /\ stack' # <<>>
  BY DEF Control, FsmType, Shape, Top, Moves, Pushes
<1> DEFINE c == Top'.kind
<1> HIDE DEF n
<1>a. Same(Top, stack'[n]) /\ Waits(Top.kind, st'[Top.kind], c) /\ Moves /\ BelowKept
  BY DEF Pushes, n
<1> HIDE DEF c
<1>1. FsmType'
  BY DEF Control, FsmType, Moves, Pushes
<1>2. /\ \A i \in 1 .. n : stack'[i].kind = stack[i].kind
      /\ stack'[n + 1].kind = c
  BY <1>0, <1>a DEF BelowKept, Same, n, c
<1>3. \A i \in 1 .. n - 1 : stack[i].kind = Top.kind => i = 1 /\ Twice
  <2>1. \A i, j \in 1 .. n : i < j /\ stack[i].kind = stack[j].kind => i = 1 /\ j = 3 /\ Twice
    BY StackForm DEF Control, FsmType, n
  <2>2. \A i \in 1 .. n - 1 : i \in 1 .. n /\ i < n
    BY <1>0
  <2> QED BY <1>0, <2>1, <2>2
<1>4. Twice => Twice'
  BY <1>0, <1>2 DEF Twice, n
<1>5. /\ c = "erase" => n = 1 /\ Top.kind = "write"
      /\ c = "write" => Top.kind = "erase"
      /\ c \in Kinds
  <2>0. n > 1 \/ n = 1
    BY <1>0
  <2>1. c = "erase" => n = 1
    BY <2>0 DEF Nested, n, c
  <2> QED BY <2>1, <1>a, ScriptFacts DEF Waits
\* The route is of a kind that does not run, or the stack is WRITE, ERASE.
<1>6. /\ n < Deepest
      /\ \A i \in 1 .. n : stack[i].kind = c => i = 1 /\ n = 2 /\ c = "write" /\ stack[1].kind = "write" /\ stack[2].kind = "erase"
  <2>1. n <= Deepest
    BY StackForm DEF Control, FsmType, n
  <2>2. Top.kind # "free"
    BY <1>a, ScriptFacts DEF Waits
  <2>3. \A i \in 1 .. n - 1 :
           \/ stack[i].kind \in {"write", "erase"} /\ i <= 3
           \/ stack[i].kind \in {"unblock", "on", "off", "read"} /\ stack[i + 1].kind = "free" /\ i + 1 = n
    BY StackForm, ScriptFacts DEF Control, FsmType, n
  <2>4. \A i \in 1 .. n - 1 : stack[i].kind \in {"write", "erase"} /\ i <= 3
    BY <2>2, <2>3, <1>0
  <2>5. n <= 4
    <3>1. SUFFICES ASSUME n > 4 PROVE FALSE
      BY <1>0
    <3>2. 4 \in 1 .. n - 1
      BY <1>0, <3>1
    <3> QED BY <3>2, <2>4
  <2>6. ASSUME NEW i \in 1 .. n, stack[i].kind = c
        PROVE  i = 1 /\ n = 2 /\ c = "write" /\ stack[1].kind = "write" /\ stack[2].kind = "erase"
    <3>1. c # Top.kind
      BY <1>a, ScriptFacts DEF Waits
    <3>2. i \in 1 .. n - 1
      BY <2>6, <3>1, <1>0
    <3>3. c = "write"
      <4>1. c \in {"write", "erase"}
        BY <3>2, <2>4, <2>6
      <4> QED BY <4>1, <1>5, <3>2, <1>0
    <3>4. Top.kind = "erase"
      BY <3>3, <1>5
    <3>5. \A j \in 2 .. n : stack[j].kind = "erase" => j = 2 /\ stack[1].kind = "write"
      BY DEF Control, Shape, n
    <3>6. n = 2 /\ stack[1].kind = "write"
      BY <3>4, <3>5, <3>2, <1>0
    <3>7. i = 1
      BY <3>2, <3>6
    <3> QED BY <3>3, <3>4, <3>6, <3>7, <1>0
  <2> QED BY <2>5, <2>6, <1>0 DEF Deepest
<1>7. Shape'
  <2>1. stack'[1].kind \in {"read", "write", "erase"}
    BY <1>0, <1>2 DEF Control, Shape
  <2>2. ASSUME NEW i \in 1 .. n
        PROVE  \/ Waits(stack'[i].kind, st'[stack'[i].kind], stack'[i + 1].kind)
               \/ i = 1 /\ Twice'
    <3>1. CASE i = n
      BY <3>1, <1>0, <1>2, <1>a
    <3>2. CASE i # n
      <4>1. i \in 1 .. n - 1 /\ i + 1 \in 1 .. n
        BY <3>2, <1>0
      <4>2. \/ Waits(stack[i].kind, st[stack[i].kind], stack[i + 1].kind)
            \/ i = 1 /\ Twice
        BY <4>1 DEF Control, Shape, n
      <4>3. CASE stack[i].kind = Top.kind
        BY <4>3, <1>3, <1>4, <4>1
      <4>4. CASE stack[i].kind # Top.kind
        <5>1. stack[i].kind \in Kinds
          BY <4>1, <4>2, ScriptFacts DEF Waits, Twice
        <5> QED BY <4>1, <4>2, <4>4, <5>1, <1>a, <1>2, <1>4 DEF Moves
      <4> QED BY <4>3, <4>4
    <3> QED BY <3>1, <3>2
  <2>3. ASSUME NEW i \in 2 .. n + 1
        PROVE  /\ stack'[i].kind = "erase" => i = 2 /\ stack'[1].kind = "write"
               /\ stack'[i].kind = "write" =>
                     /\ stack'[i].tx = FromBuffer /\ stack'[i].len = 1
                     /\ i < n + 1 => stack'[i + 1].kind \in {"read", "on"}
    <3>1. CASE i = n + 1
      BY <3>1, <1>0, <1>2, <1>5 DEF n, c
    <3>2. CASE i # n + 1
      <4>1. 1 \in 1 .. n /\ i \in 1 .. n /\ i \in 2 .. n
        BY <1>0, <3>2
      <4>2. /\ stack[i].kind = "erase" => i = 2 /\ stack[1].kind = "write"
            /\ stack[i].kind = "write" =>
                  /\ stack[i].tx = FromBuffer /\ stack[i].len = 1
                  /\ i < n => stack[i + 1].kind \in {"read", "on"}
        BY <4>1 DEF Control, Shape, n
      <4>3. i = n \/ i \in 1 .. n - 1
        BY <1>0, <4>1
      <4>4. stack'[i].kind = "write" => stack'[i].tx = stack[i].tx /\ stack'[i].len = stack[i].len
        BY <4>3, <1>0, <1>a, <1>2, <4>1 DEF BelowKept, Same, n
      <4>5. stack[i].kind = "write" => stack'[i + 1].kind \in {"read", "on"}
        <5>1. CASE i = n
          <6>1. Nested
            BY <5>1, <4>1, <1>0 DEF Nested, n
          <6> QED BY <5>1, <6>1, <1>0
        <5>2. CASE i # n
          <6>1. i < n /\ i + 1 \in 1 .. n
            BY <5>2, <4>1, <1>0
          <6> QED BY <6>1, <4>2, <1>2
        <5> QED BY <5>1, <5>2
      <4> QED BY <4>1, <4>2, <4>4, <4>5, <1>2
    <3> QED BY <3>1, <3>2
  <2>4. stack'[1].kind = "write" => stack'[1].tx # FromBuffer
    <3>1. 1 = n \/ 1 \in 1 .. n - 1
      BY <1>0
    <3>2. stack[1].kind = "write" => stack[1].tx # FromBuffer
      BY <1>0 DEF Control, Shape
    <3> QED BY <3>1, <3>2, <1>0, <1>a, <1>2 DEF BelowKept, Same, n
  <2>5. ASSUME NEW k \in Kinds, ~OnStack(k)' PROVE st'[k] = Start(k)
    <3>1. ~OnStack(k) /\ k # Top.kind
      <4>1. \A i \in 1 .. n : stack'[i].kind # k
        BY <2>5, <1>0 DEF OnStack
      <4> QED BY <4>1, <1>0, <1>2 DEF OnStack, n
    <3> QED BY <3>1, <1>a DEF Control, Shape, Moves
  <2>6. main' = "router"
    BY DEF Pushes
  <2> QED BY <2>1, <2>2, <2>3, <2>4, <2>5, <2>6, <1>0 DEF Shape
<1>8. OwnEvents'
  <2> SUFFICES ASSUME NEW k \in Kinds
               PROVE  evs'[k] \subseteq Async
    BY DEF OwnEvents
  <2>1. CASE k = Top.kind
    BY <2>1
  <2>2. CASE k # Top.kind
    BY <2>2, <1>a DEF Control, OwnEvents, TopRuns, Moves
  <2> QED BY <2>1, <2>2
<1>9. DoneState'
  BY DEF DoneState, Pushes
<1>10. st'["write"] \notin {"cmd", "data"}
  <2>1. CASE Top.kind = "write"
    BY <2>1, <1>a, ScriptFacts DEF Waits
  <2>2. CASE Top.kind # "write"
    BY <2>2, <1>a, ScriptFacts DEF Control, WriteOk, TopRuns, Moves
  <2> QED BY <2>1, <2>2
<1>11. WriteOk'
  <2> SUFFICES ASSUME c = "write"
               PROVE  \/ st'["write"] = "init" /\ ~Front("write")'
                      \/ st'["write"] = "erase" /\ Front("write")'
    BY <1>10 DEF WriteOk, c
  <2>1. Top.kind = "erase" /\ st'["write"] = st["write"] /\ "write" \in Kinds
    BY <1>5, <1>a, ScriptFacts DEF Moves
  <2>2. CASE OnStack("write")
    <3>1. n = 2 /\ stack[1].kind = "write" /\ stack[2].kind = "erase"
      BY <2>2, <1>6 DEF OnStack, n
    <3>2. Waits(stack[1].kind, st[stack[1].kind], stack[2].kind)
      <4>1. 1 \in 1 .. n - 1 /\ 1 + 1 = 2 /\ ~Twice
        BY <3>1, <1>0 DEF Twice, n
      <4>2. \A i \in 1 .. n - 1 : Waits(stack[i].kind, st[stack[i].kind], stack[i + 1].kind) \/ (i = 1 /\ Twice)
        BY DEF Control, Shape, n
      <4> QED BY <4>1, <4>2
    <3>3. st["write"] = "erase"
      BY <3>1, <3>2, ScriptFacts DEF Waits
    <3>4. Front("write")'
      BY <3>1, <1>2 DEF Front
    <3> QED BY <3>3, <3>4, <2>1
  <2>3. CASE ~OnStack("write")
    <3>1. st["write"] = "init"
      BY <2>3, <2>1, ScriptFacts DEF Control, Shape, Start
    <3>2. ~Front("write")'
      BY <2>3, <1>2, <1>0 DEF Front, OnStack, n
    <3> QED BY <3>1, <3>2, <2>1
  <2> QED BY <2>2, <2>3
<1>12. EraseOk'
  <2>1. st'["erase"] # "erase"
    <3>1. CASE Top.kind = "erase"
      BY <3>1, <1>a, ScriptFacts DEF Waits
    <3>2. CASE Top.kind # "erase"
      BY <3>2, <1>a, ScriptFacts DEF Control, EraseOk, TopRuns, Moves
    <3> QED BY <3>1, <3>2
  <2>2. SUFFICES ASSUME NEW i \in 1 .. n + 1, stack'[i].kind = "erase",
                        st'["erase"] \notin {"init", "unblock", "loop"}
                 PROVE  stack'[i].cnt < Len(stack'[i].list)
    BY <2>1, <1>0 DEF EraseOk
  <2>3. c # "erase"
    <3>1. SUFFICES ASSUME c = "erase" PROVE FALSE
      OBVIOUS
    <3>2. ~OnStack("erase") /\ Top.kind = "write"
      BY <3>1, <1>6, <1>5 DEF OnStack, n
    <3>3. st["erase"] = "init"
      BY <3>2, ScriptFacts DEF Control, Shape, Start
    <3> QED BY <3>2, <3>3, <2>2, <1>a, ScriptFacts DEF Moves
  <2>4. i \in 1 .. n
    BY <2>3, <2>2, <1>2, <1>0
  <2> QED BY <2>2, <2>3, <2>4, <1>2 DEF n, c
<1> QED BY <1>1, <1>7, <1>8, <1>9, <1>11, <1>12 DEF Control

\* It is done.
LEMMA LeaveStep ==
  ASSUME Control, main = "run", main' = "done", Moves, stack' = stack,
         evs'[Top.kind] = {}, DoneState'
  PROVE  Control'
<1> DEFINE n == Len(stack)
<1>0. /\ n \in Nat \ {0} /\ Top = stack[n] /\ n \in 1 .. n /\ stack # <<>> /\ Top' = Top
  BY DEF Control, FsmType, Shape, Top, Moves
<1> HIDE DEF n
<1>1. FsmType'
  BY DEF Control, FsmType, Moves
<1>3. \A i \in 1 .. n - 1 : stack[i].kind = Top.kind => i = 1 /\ Twice
  <2>1. \A i, j \in 1 .. n : i < j /\ stack[i].kind = stack[j].kind => i = 1 /\ j = 3 /\ Twice
    BY StackForm DEF Control, FsmType, n
  <2>2. \A i \in 1 .. n - 1 : i \in 1 .. n /\ i < n
    BY <1>0
  <2> QED BY <1>0, <2>1, <2>2
<1>4. Twice => Twice'
  BY DEF Twice
<1>5. Shape'
  <2>2. ASSUME NEW i \in 1 .. n - 1
        PROVE  \/ Waits(stack[i].kind, st'[stack[i].kind], stack[i + 1].kind)
               \/ i = 1 /\ Twice'
    <3>1. \/ Waits(stack[i].kind, st[stack[i].kind], stack[i + 1].kind)
          \/ i = 1 /\ Twice
      BY DEF Control, Shape, n
    <3>2. stack[i].kind \in Kinds
      BY <3>1, ScriptFacts DEF Waits, Twice
    <3> QED BY <3>1, <3>2, <1>3, <1>4 DEF Moves
  <2>5. ASSUME NEW k \in Kinds, ~OnStack(k) PROVE st'[k] = Start(k)
    BY <2>5, <1>0 DEF Control, Shape, Moves, OnStack, n
  <2> QED BY <2>2, <2>5, <1>0 DEF Control, Shape, OnStack, n
<1>6. OwnEvents'
  BY DEF Control, OwnEvents, TopRuns, Moves
<1>7. WriteOk'
  <2>1. st'["write"] \notin {"cmd", "data"}
    <3>1. CASE Top.kind = "write"
      BY <3>1, <1>0, ScriptFacts DEF DoneState, Start
    <3>2. CASE Top.kind # "write"
      BY <3>2, ScriptFacts DEF Control, WriteOk, TopRuns, Moves
    <3> QED BY <3>1, <3>2
  <2>2. Top.kind = "write" => st'["write"] = "init" \/ (st'["write"] = "erase" /\ Front("write")')
    BY <1>0, ScriptFacts DEF DoneState, Start
  <2> QED BY <2>1, <2>2, <1>0 DEF WriteOk
<1>8. EraseOk'
  <2>1. CASE Top.kind = "erase"
    <3>1. st'["erase"] = "init"
      BY <2>1, <1>0, ScriptFacts DEF DoneState, Start
    <3> QED BY <3>1 DEF EraseOk
  <2>2. CASE Top.kind # "erase"
    BY <2>2, <1>0, ScriptFacts DEF Control, EraseOk, TopRuns, Moves
  <2> QED BY <2>1, <2>2
<1> QED BY <1>1, <1>5, <1>6, <1>7, <1>8 DEF Control

-----------------------------------------------------------------------------
(* The other steps and the control                                         *)

\* A route that is done leaves the stack, alone or with all others.
LEMMA CallbackStep ==
  ASSUME Control, Callback
  PROVE  Control'
<1> DEFINE n == Len(stack)
<1> DEFINE rest == SubSeq(stack, 1, n - 1)
<1>0. /\ n \in Nat \ {0} /\ Top = stack[n] /\ n \in 1 .. n /\ stack # <<>> /\ main = "done"
  BY DEF Control, FsmType, Shape, Top, Callback
<1>1. /\ rest \in Seq(Routes) /\ Len(rest) = n - 1
      /\ \A i \in 1 .. n - 1 : rest[i] = stack[i]
  <2>1. 1 \in Int /\ n - 1 \in Int /\ \A i \in 1 .. n - 1 : stack[i] \in Routes
    BY <1>0 DEF Control, FsmType
  <2>2. /\ rest \in Seq(Routes)
        /\ Len(rest) = IF 1 <= n - 1 THEN (n - 1) - 1 + 1 ELSE 0
        /\ \A i \in 1 .. (n - 1) - 1 + 1 : rest[i] = stack[1 + i - 1]
    BY <2>1, SubSeqProperties
  <2>3. n \in Nat \ {0}
    BY <1>0
  <2> HIDE DEF rest, n
  <2>4. \A i \in 1 .. n - 1 : i \in 1 .. (n - 1) - 1 + 1 /\ 1 + i - 1 = i
    BY <2>3
  <2> QED BY <2>2, <2>3, <2>4
<1>2. /\ Top.kind \in Kinds
      /\ \A k \in Kinds : evs[k] \subseteq Async
  <2>1. Top \in Routes
    BY <1>0 DEF Control, FsmType
  <2>2. Top.kind \in Kinds
    BY <2>1, ScriptFacts DEF Routes, FreeRoutes, PlainRoutes, ReadRoutes, WriteRoutes, EraseRoutes, Plain
  <2> QED BY <2>2, <1>0 DEF Control, OwnEvents, TopRuns
<1>3. st["write"] \notin {"cmd", "data"} /\ st["erase"] # "erase"
  BY <1>0 DEF Control, WriteOk, EraseOk, TopRuns
<1>4. res' = res
  BY DEF Callback
<1>5. CASE res # Ok /\ Len(rest) > 1
  <2>1. stack' = <<>> /\ ResetFsms /\ main' = "init"
    BY <1>5 DEF Callback, rest, n
  <2>2. /\ \A k \in Kinds : st'[k] = Start(k) /\ evs'[k] = {}
        /\ st' = [k \in Kinds |-> st'[k]] /\ evs' \in [Kinds -> SUBSET Events]
    BY <2>1, ScriptFacts DEF ResetFsms
  <2>3. \A k \in Kinds : Start(k) \in StatesOf(k)
    BY ScriptFacts DEF Start, StatesOf, WriteStates, EraseStates
  <2>4. FsmType'
    BY <2>1, <2>2, <2>3, <1>4 DEF Control, FsmType
  <2>5. Shape'
    BY <2>1, <2>2 DEF Shape
  <2>6. st'["write"] = "init" /\ st'["erase"] = "init"
    BY <2>2, ScriptFacts DEF Start
  <2> QED BY <2>1, <2>2, <2>4, <2>5, <2>6 DEF Control, OwnEvents, DoneState, WriteOk, EraseOk
<1>6. CASE ~(res # Ok /\ Len(rest) > 1)
  <2>1. stack' = rest /\ main' = "router" /\ st' = st /\ evs' = evs
    BY <1>6 DEF Callback, rest, n
  <2>2. FsmType'
    BY <2>1, <1>1, <1>4 DEF Control, FsmType
  <2>3. Len(stack') = n - 1 /\ \A i \in 1 .. n - 1 : stack'[i] = stack[i]
    BY <2>1, <1>1
  <2> HIDE DEF rest, n
  <2>4. \A i \in 1 .. n - 1 : Waits(stack[i].kind, st[stack[i].kind], stack[i + 1].kind) \/ (i = 1 /\ Twice)
    BY DEF Control, Shape, n
  <2>5. Shape'
    <3>1. ASSUME NEW i \in 1 .. n - 2
          PROVE  Waits(stack'[i].kind, st'[stack'[i].kind], stack'[i + 1].kind) \/ (i = 1 /\ Twice')
      <4>1. i \in 1 .. n - 1 /\ i + 1 \in 1 .. n - 1
        BY <1>0
      <4>2. CASE Waits(stack[i].kind, st[stack[i].kind], stack[i + 1].kind)
        BY <4>1, <4>2, <2>3, <2>1
      <4>3. CASE i = 1 /\ Twice /\ n = 3
        <5>1. Top.kind = "write" /\ Nested /\ Front("write") /\ stack[2].kind = "erase"
          BY <4>3, <1>0 DEF Twice, Nested, Front, n
        <5>2. Len(rest) > 1
          BY <4>3, <1>1, <1>0 DEF n
        <5>3. res = Ok
          BY <5>2, <1>6
        <5>4. st["write"] = "erase"
          BY <5>1, <5>3, <1>0 DEF Control, DoneState
        <5>5. stack[1].kind = "write"
          BY <5>1 DEF Front
        <5> QED BY <5>1, <5>4, <5>5, <4>1, <4>3, <2>3, <2>1 DEF Waits
      <4>4. CASE i = 1 /\ Twice /\ n # 3
        <5>0. n >= 3
          BY <4>4 DEF Twice, n
        <5>1. n - 1 >= 3 /\ 1 \in 1 .. n - 1 /\ 2 \in 1 .. n - 1 /\ 3 \in 1 .. n - 1
          BY <5>0, <4>4, <1>0
        <5>2. Twice'
          BY <5>1, <4>4, <2>3 DEF Twice
        <5> QED BY <5>2, <4>4
      <4> QED BY <4>1, <4>2, <4>3, <4>4, <2>4
    <3>2. ASSUME NEW i \in 2 .. n - 1
          PROVE  /\ stack'[i].kind = "erase" => i = 2 /\ stack'[1].kind = "write"
                 /\ stack'[i].kind = "write" =>
                       /\ stack'[i].tx = FromBuffer /\ stack'[i].len = 1
                       /\ i < n - 1 => stack'[i + 1].kind \in {"read", "on"}
      <4>1. 1 \in 1 .. n - 1 /\ i \in 1 .. n - 1 /\ i \in 2 .. n /\ i < n /\ (i < n - 1 => i + 1 \in 1 .. n - 1)
        BY <1>0
      <4>2. /\ stack[i].kind = "erase" => i = 2 /\ stack[1].kind = "write"
            /\ stack[i].kind = "write" =>
                  /\ stack[i].tx = FromBuffer /\ stack[i].len = 1
                  /\ stack[i + 1].kind \in {"read", "on"}
        BY <4>1 DEF Control, Shape, n
      <4> QED BY <4>1, <4>2, <2>3
    <3>3. stack' # <<>> => n - 1 >= 1 /\ 1 \in 1 .. n - 1
      BY <2>2, <2>3, <1>0 DEF FsmType
    <3>4. stack' # <<>> => stack'[1].kind \in {"read", "write", "erase"}
      BY <3>3, <2>3, <1>0 DEF Control, Shape
    <3>5. stack' # <<>> /\ stack'[1].kind = "write" => stack'[1].tx # FromBuffer
      BY <3>3, <2>3, <1>0 DEF Control, Shape
    <3>6. ASSUME NEW k \in Kinds, ~OnStack(k)' PROVE st[k] = Start(k)
      <4>1. \A i \in 1 .. n - 1 : stack[i].kind # k
        BY <3>6, <2>3 DEF OnStack
      <4>2. CASE k # Top.kind
        <5>1. ~OnStack(k)
          BY <4>1, <4>2, <1>0 DEF OnStack, n
        <5> QED BY <5>1 DEF Control, Shape
      <4>3. CASE k = Top.kind
        <5>1. CASE Nested /\ Front("write")
          <6>1. 1 \in 1 .. n - 1
            BY <5>1, <1>0 DEF Nested, n
          <6>2. k # "write"
            BY <6>1, <4>1, <5>1 DEF Front
          <6> QED BY <6>2, <4>3, <1>0 DEF Control, DoneState
        <5>2. CASE ~(Nested /\ Front("write"))
          BY <5>2, <4>3, <1>0 DEF Control, DoneState
        <5> QED BY <5>1, <5>2
      <4> QED BY <4>2, <4>3
    <3>7. Len(stack') - 1 = n - 2 /\ Len(stack') = n - 1
      BY <2>3, <1>0
    <3> QED BY <3>1, <3>2, <3>4, <3>5, <3>6, <3>7, <2>1 DEF Shape
  <2>6. OwnEvents' /\ DoneState'
    BY <2>1, <1>2 DEF OwnEvents, DoneState
  <2>7. WriteOk'
    <3> SUFFICES ASSUME stack' # <<>>, Top'.kind = "write", Nested' PROVE st["write"] \in {"cmp", "enable"}
      BY <2>1, <1>3 DEF WriteOk
    <3>1. n - 1 \in 2 .. n /\ n - 1 \in 1 .. n - 1 /\ n - 1 # 1 /\ n - 1 < n /\ (n - 1) + 1 = n
      BY <2>3, <1>0 DEF Nested
    <3>2. stack[n - 1].kind = "write"
      BY <3>1, <2>3 DEF Top
    <3>3. stack[n].kind \in {"read", "on"}
      BY <3>1, <3>2 DEF Control, Shape, n
    <3>4. Waits("write", st["write"], stack[n].kind)
      BY <3>1, <3>2, <2>4
    <3> QED BY <3>3, <3>4, ScriptFacts DEF Waits
  <2>8. EraseOk'
    <3>1. \A i \in 1 .. n - 1 : i \in 1 .. n
      BY <1>0
    <3> QED BY <3>1, <2>1, <2>3, <1>3 DEF Control, EraseOk, n
  <2> QED BY <2>2, <2>5, <2>6, <2>7, <2>8 DEF Control
<1> QED BY <1>5, <1>6

\* A request is taken when the stack is empty.
LEMMA RequestStep ==
  ASSUME Control, NEW r \in Routes, Ready, Request(r),
         r.kind \in {"read", "write", "erase"},
         r.kind = "write" => r.tx # FromBuffer
  PROVE  Control'
<1>1. /\ stack' = <<r>> /\ main' = main /\ st' = st /\ evs' = evs /\ res' = res /\ stack = <<>>
      /\ main \notin {"run", "done"}
  BY DEF Request, fsmVars, Ready, Control, Shape
<1>2. /\ Len(stack') = 1 /\ stack'[1] = r /\ stack' \in Seq(Routes) /\ stack' # <<>> /\ ~Nested'
  BY <1>1 DEF Nested
<1>3. \A k \in Kinds : st[k] = Start(k) /\ evs[k] \subseteq Async
  BY <1>1 DEF Control, Shape, OnStack, OwnEvents, TopRuns
<1>4. FsmType'
  BY <1>1, <1>2 DEF Control, FsmType
<1>5. Shape'
  BY <1>1, <1>2, <1>3 DEF Shape
<1>6. st["write"] = "init" /\ st["erase"] = "init"
  BY <1>3, ScriptFacts DEF Start
<1> QED BY <1>1, <1>2, <1>3, <1>4, <1>5, <1>6 DEF Control, OwnEvents, DoneState, WriteOk, EraseOk

\* An interrupt queues an event for the machine on top, whatever it waits for.
LEMMA InterruptStep ==
  ASSUME Control, NEW e \in Async, Interrupt(e)
  PROVE  Control'
<1>1. /\ stack' = stack /\ main' = main /\ st' = st /\ res' = res
      /\ evs' = IF stack = <<>> THEN evs ELSE [evs EXCEPT ![Top.kind] = @ \cup {e}]
  BY DEF Interrupt
<1>2. e \in Events
  BY DEF Events
<1>3. \A k \in Kinds : evs'[k] \in SUBSET Events /\ evs'[k] \ Async = evs[k] \ Async
  BY <1>1, <1>2 DEF Control, FsmType
<1>4. evs' \in [Kinds -> SUBSET Events]
  BY <1>1, <1>2, <1>3 DEF Control, FsmType
<1>5. FsmType' /\ Shape'
  BY <1>1, <1>4 DEF Control, FsmType, Shape, OnStack, Twice
<1>6. OwnEvents'
  <2> SUFFICES ASSUME NEW k \in Kinds, ~(evs[k] \subseteq Async), TopRuns(k) /\ OwnOk
               PROVE  OwnOk'
    BY <1>1, <1>3 DEF OwnEvents, TopRuns, Control, Top
  <2>1. evs'[Top.kind] \ Async = evs[Top.kind] \ Async /\ Top' = Top
    BY <1>1, <1>3 DEF TopRuns, Top
  <2>2. ASSUME NEW f, May(f) PROVE May(f)'
    BY <2>2, <2>1, <1>1 DEF May, MayOfWrite, MayOfErase, Nested, Front
  <2> QED BY <2>1, <2>2 DEF OwnOk
<1>7. DoneState' /\ WriteOk' /\ EraseOk'
  BY <1>1 DEF Control, DoneState, WriteOk, EraseOk, TopRuns, Top, Nested, Front
<1> QED BY <1>5, <1>6, <1>7 DEF Control

\* Steps that leave the machines alone.
LEMMA IdleStep ==
  ASSUME Control, stack' = stack, st' = st, evs' = evs, res' = res,
         main' = main \/ (main = "init" /\ main' = "router") \/ (main = "router" /\ stack # <<>> /\ main' = "run")
  PROVE  Control'
<1>1. FsmType' /\ Shape'
  BY DEF Control, FsmType, Shape, OnStack, Twice
<1>2. Top' = Top /\ Nested' = Nested /\ (\A k : Front(k)' = Front(k))
  BY DEF Top, Nested, Front
<1>3. OwnEvents'
  <2> SUFFICES ASSUME NEW k \in Kinds, ~(evs[k] \subseteq Async), TopRuns(k), OwnOk
               PROVE  TopRuns(k)' /\ OwnOk'
    BY DEF OwnEvents, Control
  <2>1. main' = main
    BY DEF TopRuns
  <2>2. ASSUME NEW f, May(f) PROVE May(f)'
    BY <2>2, <1>2 DEF May, MayOfWrite, MayOfErase, Front
  <2> QED BY <2>1, <2>2, <1>2 DEF OwnOk, TopRuns
<1>4. DoneState'
  BY <1>2 DEF Control, DoneState
<1>5. WriteOk' /\ EraseOk'
  BY <1>2 DEF Control, WriteOk, EraseOk, TopRuns
<1> QED BY <1>1, <1>3, <1>4, <1>5 DEF Control

-----------------------------------------------------------------------------
(* What the handlers are made of                                           *)

LEMMA RouteKinds ==
  ASSUME NEW r \in Routes
  PROVE  /\ r.kind \in Kinds
         /\ r.kind = "free"  => r \in FreeRoutes
         /\ r.kind = "read"  => r \in ReadRoutes
         /\ r.kind = "write" => r \in WriteRoutes
         /\ r.kind = "erase" => r \in EraseRoutes
BY ScriptFacts DEF Routes, FreeRoutes, PlainRoutes, ReadRoutes, WriteRoutes, EraseRoutes, Plain

LEMMA TopIs ==
  ASSUME Control, main = "run"
  PROVE  /\ Len(stack) \in Nat \ {0} /\ Len(stack) \in 1 .. Len(stack)
         /\ stack # <<>> /\ stack \in Seq(Routes)
         /\ Top = stack[Len(stack)] /\ Top \in Routes /\ Top.kind \in Kinds
         /\ st[Top.kind] \in StatesOf(Top.kind)
         /\ evs[Top.kind] \in SUBSET Events
<1>1. /\ Len(stack) \in Nat \ {0} /\ Len(stack) \in 1 .. Len(stack)
      /\ stack # <<>> /\ stack \in Seq(Routes) /\ Top = stack[Len(stack)] /\ Top \in Routes
  BY DEF Control, FsmType, Shape, Top
<1>2. Top.kind \in Kinds
  BY <1>1, RouteKinds
<1> QED BY <1>1, <1>2 DEF Control, FsmType

LEMMA ToMoves ==
  ASSUME Control, main = "run",
         NEW s \in StatesOf(Top.kind), NEW E \in SUBSET Events, To(Top.kind, s, E),
         stack' \in Seq(Routes), res' \in {Ok, Error, Busy}, main' \in {"init", "router", "run", "done"}
  PROVE  Moves /\ st'[Top.kind] = s /\ evs'[Top.kind] = E
<1>1. Top.kind \in Kinds
  BY TopIs
<1> DEFINE c == Top.kind
<1>2. st = [k \in Kinds |-> st[k]] /\ evs \in [Kinds -> SUBSET Events]
  BY DEF Control, FsmType
<1>3. st' = [st EXCEPT ![c] = s] /\ evs' = [evs EXCEPT ![c] = E]
  BY DEF To
<1> HIDE DEF c
<1>4. st' = [k \in Kinds |-> st'[k]] /\ st'[c] = s /\ \A k \in Kinds : k # c => st'[k] = st[k]
  BY <1>1, <1>2, <1>3 DEF c
<1>5. evs' \in [Kinds -> SUBSET Events] /\ evs'[c] = E /\ \A k \in Kinds : k # c => evs'[k] = evs[k]
  BY <1>1, <1>2, <1>3 DEF c
<1> QED BY <1>1, <1>4, <1>5 DEF Moves, c

\* Counting in the route on top changes nothing else of it.
LEMMA CountTop ==
  ASSUME Control, main = "run", NEW q \in Routes, q.kind = Top.kind, Same(Top, q),
         stack' = [stack EXCEPT ![Len(stack)] = q]
  PROVE  /\ stack' \in Seq(Routes) /\ Len(stack') = Len(stack) /\ BelowKept
         /\ stack'[Len(stack)] = q /\ Top' = q /\ Same(Top, Top') /\ Nested' = Nested
         /\ \A k \in Kinds : Front(k)' = Front(k)
<1>1. stack \in Seq(Routes) /\ Len(stack) \in Nat \ {0} /\ Len(stack) \in 1 .. Len(stack) /\ Top = stack[Len(stack)]
  BY TopIs
<1>2. stack' \in Seq(Routes) /\ Len(stack') = Len(stack)
  BY <1>1
<1>3. stack'[Len(stack)] = q /\ \A i \in 1 .. Len(stack) - 1 : stack'[i] = stack[i]
  BY <1>1
<1>4. Top' = q
  BY <1>2, <1>3 DEF Top
<1>5. stack'[1].kind = stack[1].kind
  <2>0. \A m \in Nat \ {0} : 1 = m \/ 1 \in 1 .. m - 1
    OBVIOUS
  <2>1. 1 = Len(stack) \/ 1 \in 1 .. Len(stack) - 1
    BY <2>0, <1>1
  <2> QED BY <2>1, <1>1, <1>3
<1> QED BY <1>2, <1>3, <1>4, <1>5 DEF BelowKept, Nested, Front

\* Neither route nor state changes.
LEMMA EventStep ==
  ASSUME Control, main = "run", NEW E \in SUBSET Events,
         stack' = stack, main' = main, st' = st, res' = res,
         evs' = [evs EXCEPT ![Top.kind] = E],
         \A e \in E \ Async : May(e),
         Top.kind # "free" => \A e, f \in E \ Async : e = f
  PROVE  Control'
<1>1. /\ Len(stack) \in Nat \ {0} /\ stack \in Seq(Routes) /\ Top.kind \in Kinds
      /\ st[Top.kind] \in StatesOf(Top.kind)
  BY TopIs
<1>2. To(Top.kind, st[Top.kind], E)
  BY <1>1 DEF To, Control, FsmType
<1>3. Moves /\ evs'[Top.kind] = E
  BY <1>1, <1>2, ToMoves DEF Control, FsmType
<1>4. Top' = Top /\ Nested' = Nested /\ (\A k : Front(k)' = Front(k)) /\ BelowKept /\ Same(Top, Top')
  BY DEF Top, Nested, Front, BelowKept, Same
<1>5. ASSUME NEW f, May(f) PROVE May(f)'
  BY <1>5, <1>4 DEF May, MayOfWrite, MayOfErase
<1>6. OwnOk'
  BY <1>3, <1>4, <1>5 DEF OwnOk
<1>7. WriteOk' /\ EraseOk'
  BY <1>4 DEF Control, WriteOk, EraseOk, TopRuns
<1> QED BY <1>3, <1>4, <1>6, <1>7, RunStep

LEMMA QueueStep ==
  ASSUME Control, main = "run", evs[Top.kind] = {},
         NEW e \in Events, e \in Async \/ May(e),
         evs' = [evs EXCEPT ![Top.kind] = @ \cup {e}],
         stack' = stack, main' = main, st' = st, res' = res
  PROVE  Control'
<1>1. evs' = [evs EXCEPT ![Top.kind] = {e}]
  BY TopIs DEF Control, FsmType
<1>2. {e} \in SUBSET Events
  OBVIOUS
<1> QED BY <1>1, <1>2, EventStep

LEMMA DropStep ==
  ASSUME Control, main = "run", NEW e \in evs[Top.kind],
         To(Top.kind, st[Top.kind], evs[Top.kind] \ {e}),
         stack' = stack, main' = main, res' = res
  PROVE  Control'
<1>1. st' = st /\ evs' = [evs EXCEPT ![Top.kind] = evs[Top.kind] \ {e}]
  BY TopIs DEF To, Control, FsmType
<1>2. evs[Top.kind] \ {e} \in SUBSET Events
  BY TopIs
<1>3. evs[Top.kind] \subseteq Async \/ OwnOk
  BY TopIs DEF Control, OwnEvents
<1>4. /\ \A f \in (evs[Top.kind] \ {e}) \ Async : May(f)
      /\ Top.kind # "free" => \A f, g \in (evs[Top.kind] \ {e}) \ Async : f = g
  BY <1>3 DEF OwnOk
<1> QED BY <1>1, <1>2, <1>4, EventStep

\* Once an event of its own is taken a machine has none left.
LEMMA RestIsAsync ==
  ASSUME Control, main = "run", Top.kind # "free", NEW e \in evs[Top.kind], e \notin Async
  PROVE  evs[Top.kind] \ {e} \subseteq Async /\ May(e)
BY TopIs DEF Control, OwnEvents, OwnOk

Still == UNCHANGED <<chipVars, userVars>>

LEMMA DataKept ==
  ASSUME ChipType, CountType, Still, UNCHANGED <<dma, dataVars, faultVars>>
  PROVE  ChipType' /\ CountType'
BY DEF ChipType, CountType, Still, chipVars, userVars, dataVars, faultVars

LEMMA LateData ==
  ASSUME ChipType, CountType, Still, TimedOut, UNCHANGED <<dataVars, faults>>
  PROVE  ChipType' /\ CountType'
<1>1. dma' \in Transfers
  <2>1. CASE dma = NoTransfer /\ UNCHANGED <<dma, lates>>
    BY <2>1 DEF ChipType
  <2>2. CASE dma # NoTransfer /\ dma' = [dma EXCEPT !.late = TRUE]
    <3>1. dma \in TxTransfers => dma' \in TxTransfers
      BY <2>2 DEF TxTransfers
    <3>2. dma \in RxStatuses => dma' \in RxStatuses
      BY <2>2 DEF RxStatuses
    <3>3. dma \in RxPages => dma' \in RxPages
      BY <2>2 DEF RxPages
    <3> QED BY <2>2, <3>1, <3>2, <3>3 DEF ChipType, Transfers
  <2> QED BY <2>1, <2>2 DEF TimedOut
<1>2. lates' \in 0 .. MaxLates
  BY DmaAssumption DEF TimedOut, CountType
<1> QED BY <1>1, <1>2 DEF ChipType, CountType, Still, chipVars, userVars, dataVars

LEMMA QueueOp ==
  ASSUME DmaInv, main = "run", Still, evs[Top.kind] = {},
         NEW e \in Events, e \in Async \/ May(e), Queue(Top.kind, e)
  PROVE  DmaInv'
BY QueueStep, DataKept DEF DmaInv, Queue

LEMMA TimeoutOp ==
  ASSUME DmaInv, main = "run", Still, evs[Top.kind] = {},
         NEW e \in Events, e \in Async \/ May(e), QueueOnTimeout(Top.kind, e)
  PROVE  DmaInv'
BY QueueStep, LateData DEF DmaInv, QueueOnTimeout

LEMMA LeaveOp ==
  ASSUME DmaInv, main = "run", Still, NEW r \in {Ok, Error, Busy},
         NEW s, s = (IF Top.kind = "write" /\ Nested /\ Front("write") /\ r = Ok THEN "erase" ELSE Start(Top.kind)),
         Leave(Top.kind, s, r)
  PROVE  DmaInv'
<1>1. s \in StatesOf(Top.kind)
  BY TopIs, ScriptFacts DEF DmaInv, Start, StatesOf, WriteStates, EraseStates
<1>2. Moves /\ st'[Top.kind] = s /\ evs'[Top.kind] = {}
  BY <1>1, ToMoves, TopIs DEF DmaInv, Leave
<1>3. DoneState'
  BY <1>2 DEF Leave, DoneState, Top, Nested, Front
<1>4. Control'
  BY <1>2, <1>3, LeaveStep DEF DmaInv, Leave
<1> QED BY <1>4, DataKept DEF DmaInv, Leave

LEMMA SucceedOp ==
  ASSUME DmaInv, main = "run", Still, Top.kind = "write" => ~Nested, Succeed(Top.kind)
  PROVE  DmaInv'
BY LeaveOp DEF Succeed

LEMMA FailOp ==
  ASSUME DmaInv, main = "run", Still, Fail(Top.kind)
  PROVE  DmaInv'
<1> DEFINE r == IF res = Ok THEN Error ELSE res
<1>1. r \in {Ok, Error, Busy} /\ r # Ok
  BY DEF DmaInv, Control, FsmType, Ok, Error, Busy
<1>2. Leave(Top.kind, Start(Top.kind), r)
  BY DEF Fail
<1> HIDE DEF r
<1> QED BY <1>1, <1>2, LeaveOp

\* A transfer is started, or refused.
LEMMA TransferOp ==
  ASSUME DmaInv, main = "run", main' = main, Still,
         NEW cmd \in Transfers, NEW s \in StatesOf(Top.kind), NEW E \in SUBSET Events,
         Transfer(cmd, Top.kind, s, E),
         \A e \in E \ Async : Top.kind = "free" /\ e \in {"success", "timeout"},
         buf' = buf, sr1' \in BOOLEAN,
         stack' \in Seq(Routes), Len(stack') = Len(stack), BelowKept, Same(Top, Top'),
         Top.kind = "write" =>
            (s = "cmd" /\ Top'.cnt < Top'.len) \/ (s = "data" /\ Top'.cnt > 0),
         Top.kind = "erase" => stack' = stack /\ st["erase"] = "enable" /\ s = "erase"
  PROVE  DmaInv'
<1>1. /\ Len(stack) \in Nat \ {0} /\ Len(stack) \in 1 .. Len(stack)
      /\ stack # <<>> /\ stack \in Seq(Routes)
      /\ Top = stack[Len(stack)] /\ Top \in Routes /\ Top.kind \in Kinds
      /\ st[Top.kind] \in StatesOf(Top.kind)
  BY TopIs DEF DmaInv
<1>2. PICK F \in {E, E \cup {"error"}} : To(Top.kind, s, F)
  BY DEF Transfer
<1>3. F \in SUBSET Events
  BY <1>2 DEF Events, Async
<1>4. res' \in {Ok, Error, Busy}
  BY DEF Transfer, DmaInv, Control, FsmType
<1>5. Moves /\ st'[Top.kind] = s /\ evs'[Top.kind] = F
  BY <1>2, <1>3, <1>4, ToMoves DEF DmaInv
<1>6. OwnOk'
  <2>1. \A e \in F \ Async : Top.kind = "free" /\ e \in {"success", "timeout"}
    BY <1>2 DEF Async
  <2>2. Top'.kind = Top.kind
    BY DEF Same
  <2> QED BY <2>1, <2>2, <1>5 DEF OwnOk, May
<1>7. Top.kind = "write" => WriteOk'
  BY <1>5 DEF WriteOk, TopRuns, Same
<1>8. Top.kind = "erase" => EraseOk'
  BY <1>5 DEF EraseOk, TopRuns, Same, DmaInv, Control
<1>9. Control'
  BY <1>5, <1>6, <1>7, <1>8, RunStep DEF DmaInv
<1>10. dma' \in Transfers /\ faults' \in 0 .. MaxFaults /\ lates' = lates
  <2>1. faults \in 0 .. MaxFaults /\ lates \in 0 .. MaxLates /\ dma \in Transfers
    BY DEF DmaInv, CountType, ChipType
  <2>2. CASE dma' = cmd /\ UNCHANGED faultVars
    BY <2>1, <2>2 DEF faultVars
  <2>3. CASE UNCHANGED dma /\ UNCHANGED lates /\ UNCHANGED faults
    BY <2>1, <2>3
  <2>4. CASE UNCHANGED dma /\ UNCHANGED lates /\ faults + lates < MaxFaults /\ faults' = faults + 1
    BY <2>1, <2>4, DmaAssumption
  <2> QED BY <2>2, <2>3, <2>4 DEF Transfer
<1>11. ChipType' /\ CountType'
  BY <1>10 DEF DmaInv, ChipType, CountType, Still, chipVars, userVars
<1> QED BY <1>9, <1>11 DEF DmaInv

\* A route is pushed: there is always room for it.
LEMMA PushOp ==
  ASSUME DmaInv, main = "run", Still, UNCHANGED <<dma, dataVars, faultVars>>,
         NEW base \in Seq(Routes), Len(base) = Len(stack),
         \A i \in 1 .. Len(stack) - 1 : base[i] = stack[i], Same(Top, base[Len(stack)]),
         NEW route \in Routes, PushOn(base, route),
         NEW s \in StatesOf(Top.kind), NEW E \in SUBSET Async, To(Top.kind, s, E),
         Waits(Top.kind, s, route.kind),
         route.kind = "erase" => ~Nested,
         Top.kind = "write" /\ Nested => route.kind \in {"read", "on"},
         route.kind = "write" => route.tx = FromBuffer /\ route.len = 1,
         Top.kind = "erase" =>
            s = "unblock" \/ base[Len(stack)].cnt < Len(base[Len(stack)].list)
  PROVE  /\ DmaInv' /\ Pushes
         /\ stack' = Append(base, route) /\ main' = "router" /\ res' = res
         /\ st'[Top.kind] = s /\ evs'[Top.kind] = E
<1> DEFINE n == Len(stack)
<1>1. /\ n \in Nat \ {0} /\ n \in 1 .. n
      /\ stack # <<>> /\ stack \in Seq(Routes)
      /\ Top = stack[n] /\ Top \in Routes /\ Top.kind \in Kinds
  BY TopIs DEF DmaInv
<1>2. Len(base) # Slots
  BY StackForm, DmaAssumption DEF DmaInv, Control, FsmType, Deepest
<1>3. stack' = Append(base, route) /\ main' = "router" /\ res' = res
  BY <1>2 DEF PushOn
<1>4. /\ stack' \in Seq(Routes) /\ Len(stack') = n + 1
      /\ \A i \in 1 .. n : stack'[i] = base[i]
      /\ stack'[n + 1] = route
  BY <1>1, <1>3
<1> HIDE DEF n
<1>5. BelowKept /\ Top' = route /\ stack'[n] = base[n]
  <2>1. \A i \in 1 .. n - 1 : i \in 1 .. n
    BY <1>1
  <2> QED BY <2>1, <1>1, <1>4 DEF BelowKept, Top, n
<1>6. Async \subseteq Events
  BY DEF Events
<1>7. Moves /\ st'[Top.kind] = s /\ evs'[Top.kind] = E
  BY <1>3, <1>4, <1>6, ToMoves DEF DmaInv, Control, FsmType
<1>8. Pushes
  BY <1>3, <1>4, <1>5, <1>7 DEF Pushes, n
<1>9. ASSUME NEW i \in 1 .. n, stack[i].kind = "erase", route.kind # "erase"
      PROVE  stack'[i].cnt < Len(stack'[i].list) \/ st'["erase"] \in {"init", "unblock", "loop"}
  <2>1. CASE i = n
    BY <2>1, <1>9, <1>1, <1>5, <1>7 DEF n
  <2>2. CASE i # n
    <3>1. i \in 1 .. n - 1
      BY <2>2, <1>1
    <3>2. stack'[i] = stack[i]
      BY <3>1, <1>5 DEF BelowKept, n
    <3>3. Top.kind # "erase"
      <4>1. Top.kind = "erase" => stack[i].kind = stack[n].kind /\ i < n
        BY <1>1, <1>9, <3>1
      <4>2. \A a, b \in 1 .. n : a < b /\ stack[a].kind = stack[b].kind => a = 1 /\ b = 3 /\ Twice
        BY StackForm DEF DmaInv, Control, FsmType, n
      <4> QED BY <4>1, <4>2, <1>1, <1>9 DEF Twice
    <3>4. st'["erase"] = st["erase"]
      BY <3>3, <1>7, ScriptFacts DEF Moves
    <3>5. /\ st["erase"] \in EraseStates
          /\ st["erase"] # "erase"
          /\ st["erase"] \in {"cmp", "enable", "erase", "repair", "disable"} => stack[i].cnt < Len(stack[i].list)
      BY <3>3, <1>9, ScriptFacts DEF DmaInv, Control, FsmType, StatesOf, EraseOk, TopRuns, n
    <3> QED BY <3>2, <3>4, <3>5 DEF EraseStates
  <2> QED BY <2>1, <2>2
<1>10. Control'
  BY <1>5, <1>7, <1>8, <1>9, PushStep DEF DmaInv, n
<1>11. ChipType' /\ CountType'
  BY DataKept DEF DmaInv
<1> QED BY <1>3, <1>7, <1>8, <1>10, <1>11 DEF DmaInv

LEMMA PagesRange == \E z \in Nat \ {0} : z = Sectors * PagesPerSector /\ Pages = 0 .. z - 1
<1>1. \A a, b \in Nat \ {0} : a * b \in Nat \ {0}
  OBVIOUS
<1>2. PICK z \in Nat \ {0} : z = Sectors * PagesPerSector
  BY <1>1, FlashChipAssumption
<1> QED BY <1>2 DEF Pages

LEMMA TransferTypes ==
  /\ 0 \in Pages
  /\ \A what \in Commands, p \in Pages : Tx(what, p) \in Transfers
  /\ \A p \in Pages, c \in Content : TxData(p, c) \in Transfers
  /\ RxStatus \in Transfers
  /\ \A r \in ReadRoutes : RxData(r) \in Transfers
<1>1. 0 \in Pages
  BY PagesRange
<1>2. Blank \in Content
  BY DEF Blank, Content
<1>3. ASSUME NEW what \in Commands, NEW p \in Pages PROVE Tx(what, p) \in TxTransfers
  BY <1>2 DEF Tx, TxTransfers
<1>4. ASSUME NEW p \in Pages, NEW c \in Content PROVE TxData(p, c) \in TxTransfers
  BY DEF TxData, TxTransfers, Commands
<1>5. RxStatus \in RxStatuses
  BY DEF RxStatus, RxStatuses
<1>6. ASSUME NEW r \in ReadRoutes PROVE RxData(r) \in RxPages
  <2>1. /\ r.addr \in Pages /\ r.len \in Nat \ {0} /\ r.rx \in Int /\ r.addr + r.len - 1 \in Pages
        /\ r.rx = ToUser \/ (r.rx >= 0 /\ r.rx + r.len <= PagesPerSector)
    BY DEF ReadRoutes
  <2> QED BY <2>1 DEF RxData, RxPages
<1> QED BY <1>1, <1>3, <1>4, <1>5, <1>6 DEF Transfers

-----------------------------------------------------------------------------
(* FREE                                                                    *)

LEMMA FreeHandlerStep ==
  ASSUME DmaInv, main = "run", Still, Top.kind = "free", evs["free"] = {}, FreeHandler
  PROVE  DmaInv'
<1>1. Top \in FreeRoutes /\ Top = stack[Len(stack)]
  BY TopIs, RouteKinds DEF DmaInv
<1>2. CASE st["free"] = "free" /\ QueueOnTimeout("free", "timeout")
  <2>1. May("timeout") /\ "timeout" \in Events
    BY DEF May, Events
  <2> QED BY <1>2, <2>1, TimeoutOp
<1>3. CASE /\ st["free"] = "init"
           /\ stack' = [stack EXCEPT ![Len(stack)].cnt = 0]
           /\ evs' = [evs EXCEPT !["free"] = {"success"}]
           /\ UNCHANGED <<main, st, res, dma, dataVars, faultVars>>
  <2> DEFINE q == [Top EXCEPT !.cnt = 0]
  <2>1. q \in FreeRoutes /\ q.kind = "free" /\ stack' = [stack EXCEPT ![Len(stack)] = q]
    BY <1>1, <1>3 DEF FreeRoutes
  <2>2. q \in Routes /\ Same(Top, q)
    BY <2>1 DEF Routes, Same
  <2> HIDE DEF q
  <2>3. /\ stack' \in Seq(Routes) /\ Len(stack') = Len(stack) /\ BelowKept
        /\ Same(Top, Top') /\ Top' = q
    BY <2>1, <2>2, CountTop DEF DmaInv
  <2>4. {"success"} \in SUBSET Events
    BY DEF Events
  <2>5. To("free", "init", {"success"}) /\ "init" \in StatesOf("free")
    BY <1>3 DEF To, DmaInv, Control, FsmType, StatesOf
  <2>6. Moves /\ evs'["free"] = {"success"}
    BY <1>3, <2>3, <2>4, <2>5, ToMoves DEF DmaInv, Control, FsmType
  <2>7. OwnOk'
    BY <2>1, <2>3, <2>6 DEF OwnOk, May
  <2>8. Control'
    BY <1>3, <2>3, <2>6, <2>7, RunStep DEF DmaInv
  <2> QED BY <1>3, <2>8, DataKept DEF DmaInv
<1> QED BY <1>2, <1>3 DEF FreeHandler

LEMMA SameStack ==
  ASSUME Control, main = "run", stack' = stack
  PROVE  /\ stack' \in Seq(Routes) /\ Len(stack') = Len(stack) /\ BelowKept
         /\ Same(Top, Top') /\ Top' = Top
BY TopIs DEF BelowKept, Same, Top

LEMMA FreeDispatchStep ==
  ASSUME DmaInv, main = "run", Still, Top.kind = "free", NEW e \in evs["free"], FreeDispatch(e)
  PROVE  DmaInv'
<1> DEFINE rest == evs["free"] \ {e}
<1>1. Top \in FreeRoutes /\ Top = stack[Len(stack)] /\ evs["free"] \in SUBSET Events
  BY TopIs, RouteKinds DEF DmaInv
<1>2. rest \in SUBSET Events /\ \A f \in rest \ Async : f \in {"success", "timeout"}
  BY <1>1, ScriptFacts DEF DmaInv, Control, OwnEvents, OwnOk, May
<1>3. /\ "free" \in StatesOf("free")
      /\ Tx(<<"sr1", 0>>, 0) \in Transfers /\ RxStatus \in Transfers
  BY TransferTypes DEF StatesOf, Commands
<1>4. ASSUME AskStatus(rest), stack' \in Seq(Routes), Len(stack') = Len(stack), BelowKept, Same(Top, Top')
      PROVE  DmaInv'
  <2>1. Transfer(Tx(<<"sr1", 0>>, 0), Top.kind, "free", rest) /\ main' = main /\ buf' = buf /\ sr1' = FALSE
    BY <1>4 DEF AskStatus
  <2> HIDE DEF rest
  <2> QED BY <2>1, <1>2, <1>3, <1>4, TransferOp
<1>5. CASE st["free"] = "init" /\ e = "success" /\ AskStatus(rest) /\ UNCHANGED stack
  BY <1>4, <1>5, SameStack DEF DmaInv
<1>6. CASE e = "success" /\ Succeed("free")
  BY <1>6, SucceedOp
<1>7. CASE e = "error" /\ Fail("free")
  BY <1>7, FailOp
<1>8. CASE /\ st["free"] = "free" /\ e = "timeout" /\ Top.cnt > Attempts
           /\ res' = Busy /\ To("free", "free", rest \cup {"error"})
           /\ UNCHANGED <<stack, main, dma, dataVars, faultVars>>
  <2>1. rest \cup {"error"} \in SUBSET Events
    BY <1>2 DEF Events, Async
  <2>2. Moves /\ evs'["free"] = rest \cup {"error"}
    BY <1>8, <1>3, <2>1, ToMoves, SameStack DEF DmaInv, Control, FsmType
  <2>3. /\ stack' \in Seq(Routes) /\ Len(stack') = Len(stack) /\ BelowKept
        /\ Same(Top, Top') /\ Top' = Top
    BY <1>8, SameStack DEF DmaInv
  <2>4. OwnOk'
    BY <2>2, <2>3, <1>2 DEF OwnOk, May, Async
  <2> QED BY <1>8, <2>2, <2>3, <2>4, RunStep, DataKept DEF DmaInv
<1>9. CASE /\ st["free"] = "free" /\ e = "timeout" /\ Top.cnt <= Attempts
           /\ stack' = [stack EXCEPT ![Len(stack)].cnt = @ + 1]
           /\ AskStatus(rest)
  <2> DEFINE q == [Top EXCEPT !.cnt = @ + 1]
  <2>1. q \in FreeRoutes /\ q.kind = "free" /\ stack' = [stack EXCEPT ![Len(stack)] = q]
    BY <1>1, <1>9 DEF FreeRoutes
  <2>2. q \in Routes /\ Same(Top, q)
    BY <2>1 DEF Routes, Same
  <2> HIDE DEF q
  <2> QED BY <1>4, <1>9, <2>1, <2>2, CountTop DEF DmaInv
<1>10. CASE /\ e = "transmit"
            /\ Transfer(RxStatus, "free", "free", rest)
            /\ UNCHANGED <<stack, main, dataVars>>
  <2>1. buf' = buf /\ sr1' \in BOOLEAN
    BY <1>10 DEF DmaInv, ChipType, dataVars
  <2> HIDE DEF rest
  <2> QED BY <2>1, <1>2, <1>3, <1>10, TransferOp, SameStack DEF DmaInv
<1>11. CASE /\ st["free"] = "free" /\ e = "receive"
            /\ To("free", "free", IF sr1 THEN rest ELSE rest \cup {"success"})
            /\ UNCHANGED <<stack, main, res, dma, dataVars, faultVars>>
  <2>0. PICK E \in {rest, rest \cup {"success"}} : To("free", "free", E)
    BY <1>11
  <2>1. E \in SUBSET Events /\ \A f \in E \ Async : f \in {"success", "timeout"}
    BY <2>0, <1>2 DEF Events, Async
  <2>2. Moves /\ evs'["free"] = E
    BY <1>11, <1>3, <2>0, <2>1, ToMoves, SameStack DEF DmaInv, Control, FsmType
  <2>3. /\ stack' \in Seq(Routes) /\ Len(stack') = Len(stack) /\ BelowKept
        /\ Same(Top, Top') /\ Top' = Top
    BY <1>11, SameStack DEF DmaInv
  <2>4. OwnOk'
    BY <2>1, <2>2, <2>3 DEF OwnOk, May, Async
  <2> QED BY <1>11, <2>2, <2>3, <2>4, RunStep, DataKept DEF DmaInv
<1> QED BY <1>5, <1>6, <1>7, <1>8, <1>9, <1>10, <1>11 DEF FreeDispatch

-----------------------------------------------------------------------------
(* UNBLOCK, WRITE_ON, WRITE_OFF, READ                                      *)

LEMMA ScriptHandlerStep ==
  ASSUME DmaInv, main = "run", Still, Top.kind \in DOMAIN Script, evs[Top.kind] = {},
         ScriptHandler(Top.kind)
  PROVE  DmaInv'
<1>1. "success" \in Events /\ "error" \in Events /\ "error" \in Async
  BY DEF Events, Async
<1>2. CASE st[Top.kind] = 0 /\ Queue(Top.kind, "success")
  <2>1. May("success")
    BY <1>2 DEF May
  <2> QED BY <1>1, <1>2, <2>1, QueueOp
<1>3. CASE Script[Top.kind][st[Top.kind]] = "free" /\ Queue(Top.kind, RouteRes)
  <2>1. RouteRes = "error" \/ (RouteRes = "success" /\ May("success"))
    BY <1>3 DEF May, RouteRes
  <2>2. RouteRes \in Events /\ (RouteRes \in Async \/ May(RouteRes))
    BY <1>1, <2>1
  <2> QED BY <1>3, <2>2, QueueOp
<1>4. CASE QueueOnTimeout(Top.kind, "error")
  BY <1>1, <1>4, TimeoutOp
<1> QED BY <1>2, <1>3, <1>4 DEF ScriptHandler

LEMMA EnterStep ==
  ASSUME DmaInv, main = "run", Still, Top.kind \in DOMAIN Script,
         NEW i \in 1 .. Len(Script[Top.kind]), NEW rest \in SUBSET Async, Enter(Top.kind, i, rest)
  PROVE  DmaInv'
<1>0. /\ Len(stack) \in Nat \ {0} /\ Len(stack) \in 1 .. Len(stack)
      /\ stack # <<>> /\ stack \in Seq(Routes)
      /\ Top = stack[Len(stack)] /\ Top \in Routes
  BY TopIs DEF DmaInv
<1>1. i \in StatesOf(Top.kind) /\ i \in Nat
  <2>1. Len(Script[Top.kind]) \in Nat
    BY ScriptFacts
  <2>2. i \in 0 .. Len(Script[Top.kind])
    BY <2>1
  <2> QED BY <2>2, ScriptFacts DEF StatesOf
<1>2. CASE Script[Top.kind][i] = "free"
  <2> DEFINE route == [kind |-> "free", cnt |-> 0]
  <2>1. route \in FreeRoutes /\ route.kind = "free"
    BY DEF FreeRoutes
  <2>2. route \in Routes
    BY <2>1 DEF Routes
  <2>3. Waits(Top.kind, i, route.kind)
    BY <1>2, <2>1 DEF Waits
  <2>4. To(Top.kind, i, rest) /\ PushOn(stack, route) /\ UNCHANGED <<dma, dataVars, faultVars>>
    BY <1>2 DEF Enter, Push
  <2>5. Top.kind \notin {"write", "erase"}
    BY ScriptFacts
  <2> HIDE DEF route
  <2>6. Same(Top, stack[Len(stack)]) /\ \A j \in 1 .. Len(stack) - 1 : stack[j] = stack[j]
    BY <1>0 DEF Same
  <2> QED BY <1>0, <1>1, <2>1, <2>2, <2>3, <2>4, <2>5, <2>6, PushOp
<1>3. CASE Script[Top.kind][i] # "free"
  <2>1. Transfer(Tx(<<Top.kind, i>>, 0), Top.kind, i, {}) /\ UNCHANGED <<stack, main, dataVars>>
    BY <1>3 DEF Enter
  <2>2. Tx(<<Top.kind, i>>, 0) \in Transfers
    BY TransferTypes, <1>1, ScriptFacts DEF Commands
  <2>3. Top.kind \notin {"write", "erase", "free"} /\ buf' = buf /\ sr1' \in BOOLEAN
    BY <2>1, ScriptFacts DEF dataVars, DmaInv, ChipType
  <2>4. {} \in SUBSET Events
    OBVIOUS
  <2> QED BY <1>1, <2>1, <2>2, <2>3, <2>4, TransferOp, SameStack DEF DmaInv
<1> QED BY <1>2, <1>3

LEMMA ScriptDispatchStep ==
  ASSUME DmaInv, main = "run", Still, Top.kind \in DOMAIN Script, NEW e \in evs[Top.kind],
         ScriptDispatch(Top.kind, e)
  PROVE  DmaInv'
<1> DEFINE k == Top.kind
<1> DEFINE i == st[k]
<1> DEFINE rest == evs[k] \ {e}
<1>1. /\ i \in 0 .. Len(Script[k]) /\ Len(Script[k]) \in 2 .. 5
      /\ k # "free" /\ k # "write" /\ k # "erase"
  <2>1. i \in StatesOf(k)
    BY TopIs DEF DmaInv
  <2>2. Len(Script[k]) \in 2 .. 5
    BY ScriptFacts
  <2>3. k # "free" /\ k # "write" /\ k # "erase"
    BY ScriptFacts
  <2> QED BY <2>1, <2>2, <2>3 DEF StatesOf
<1>2. i > 0 /\ Script[k][i] # "free" => evs[k] \subseteq Async
  BY <1>1, TopIs DEF DmaInv, Control, OwnEvents, OwnOk, May
<1>3. e \notin Async => rest \subseteq Async
  BY <1>1, RestIsAsync DEF DmaInv
<1>4. CASE i > 0 /\ e = "error" /\ Fail(k)
  BY <1>4, FailOp
<1>5. CASE i = 0 /\ e = "success" /\ Enter(k, 1, rest)
  <2>0. \A m \in 2 .. 5 : 1 \in 1 .. m
    OBVIOUS
  <2>1. rest \in SUBSET Async /\ 1 \in 1 .. Len(Script[k])
    BY <2>0, <1>1, <1>3, <1>5 DEF Async
  <2> HIDE DEF rest
  <2> QED BY <1>5, <2>1, EnterStep
<1>6. CASE /\ i > 0
           /\ \/ Script[k][i] = "free" /\ e = "success"
              \/ Script[k][i] = "tx" /\ e = "transmit"
           /\ IF i = Len(Script[k]) THEN Succeed(k) ELSE Enter(k, i + 1, rest)
  <2>1. CASE i = Len(Script[k]) /\ Succeed(k)
    BY <2>1, <1>1, SucceedOp
  <2>2. CASE i # Len(Script[k]) /\ Enter(k, i + 1, rest)
    <3>1. rest \in SUBSET Async
      BY <1>2, <1>3, <1>6 DEF Async
    <3> HIDE DEF rest, i
    <3>2. i + 1 \in 1 .. Len(Script[k])
      BY <1>1, <2>2
    <3> QED BY <2>2, <3>1, <3>2, EnterStep
  <2> QED BY <1>6, <2>1, <2>2
<1>7. CASE /\ i > 0 /\ Script[k][i] = "send" /\ e = "transmit"
           /\ Transfer(RxData(Top), k, i, {}) /\ UNCHANGED <<stack, main, dataVars>>
  <2>1. k = "read"
    <3>1. i \in 1 .. Len(Script[k]) /\ Script[k][i] = "send" /\ k \in DOMAIN Script
      BY <1>1, <1>7
    <3> HIDE DEF i, k
    <3> QED BY <3>1, ScriptFacts
  <2>2. RxData(Top) \in Transfers
    BY <2>1, TransferTypes, TopIs, RouteKinds DEF DmaInv
  <2>3. buf' = buf /\ sr1' \in BOOLEAN /\ {} \in SUBSET Events
    BY <1>7 DEF dataVars, DmaInv, ChipType
  <2>4. i \in StatesOf(k)
    BY TopIs DEF DmaInv
  <2> QED BY <1>1, <1>7, <2>2, <2>3, <2>4, TransferOp, SameStack DEF DmaInv
<1>8. CASE i > 0 /\ Script[k][i] = "send" /\ e = "receive" /\ Succeed(k)
  BY <1>8, <1>1, SucceedOp
<1> QED BY <1>4, <1>5, <1>6, <1>7, <1>8 DEF ScriptDispatch

-----------------------------------------------------------------------------
(* WRITE                                                                   *)

LEMMA WriteTop ==
  ASSUME DmaInv, main = "run", Top.kind = "write"
  PROVE  /\ Top \in WriteRoutes /\ st["write"] \in WriteStates
         /\ Top.addr \in Pages /\ Top.len \in Nat \ {0} /\ Top.cnt \in Nat /\ Top.rx \in Slot
         /\ Top.tx \in Seq(Content) /\ Top.addr + Top.len - 1 \in Pages
         /\ Top.rx + Top.len <= PagesPerSector /\ Top.cnt <= Top.len
         /\ Top.tx # FromBuffer => Len(Top.tx) = Top.len
         /\ \A i \in 0 .. Top.len - 1 : Top.addr + i \in Pages
<1>1. Top \in WriteRoutes /\ st["write"] \in WriteStates
  BY TopIs, RouteKinds DEF DmaInv, StatesOf
<1>2. /\ Top.addr \in Pages /\ Top.len \in Nat \ {0} /\ Top.cnt \in Nat /\ Top.rx \in Slot
      /\ Top.tx \in Seq(Content) /\ Top.addr + Top.len - 1 \in Pages
      /\ Top.rx + Top.len <= PagesPerSector /\ Top.cnt <= Top.len
      /\ Top.tx # FromBuffer => Len(Top.tx) = Top.len
  BY <1>1 DEF WriteRoutes
<1>3. ASSUME NEW i \in 0 .. Top.len - 1 PROVE Top.addr + i \in Pages
  BY <1>2, PagesRange
<1> QED BY <1>1, <1>2, <1>3

LEMMA WriteRouteTypes ==
  ASSUME DmaInv, main = "run", Top.kind = "write"
  PROVE  /\ CompareRoute \in ReadRoutes /\ CompareRoute.kind = "read"
         /\ EraseRoute \in EraseRoutes /\ EraseRoute.kind = "erase"
         /\ \A i \in 0 .. Top.len - 1 : TxPage(Top, i) \in Content
<1>1. CompareRoute \in ReadRoutes
  BY WriteTop DEF CompareRoute, ReadRoutes, Slot
<1>2. EraseRoute \in EraseRoutes
  <2> DEFINE list == [i \in 1 .. Top.len |-> Top.addr + i - 1]
  <2>1. \A i \in 1 .. Top.len : Top.addr + i - 1 \in Pages
    <3>1. \A i \in 1 .. Top.len : i - 1 \in 0 .. Top.len - 1 /\ Top.addr + i - 1 = Top.addr + (i - 1)
      BY WriteTop, PagesRange
    <3> QED BY <3>1, WriteTop
  <2>2. list \in Seq(Pages) /\ Len(list) = Top.len /\ list # <<>>
    <3>1. Top.len \in Nat \ {0}
      BY WriteTop
    <3> QED BY <2>1, <3>1
  <2> HIDE DEF list
  <2>3. EraseRoute = [kind |-> "erase", list |-> list, cnt |-> 0, idx |-> 0]
    BY DEF EraseRoute, list
  <2>4. 0 <= Len(list) /\ 0 <= PagesPerSector
    BY <2>2, WriteTop, FlashChipAssumption
  <2> QED BY <2>2, <2>3, <2>4 DEF EraseRoutes
<1>3. ASSUME NEW i \in 0 .. Top.len - 1 PROVE TxPage(Top, i) \in Content
  <2>1. CASE Top.tx = FromBuffer
    <3>1. SlotOf(Top.addr) \in Slot
      <4>1. Top.addr \in Nat /\ PagesPerSector \in Nat \ {0}
        BY WriteTop, FlashChipAssumption, PagesRange
      <4> QED BY <4>1 DEF SlotOf, Slot
    <3> QED BY <2>1, <3>1 DEF TxPage, DmaInv, ChipType
  <2>2. CASE Top.tx # FromBuffer
    <3>1. i + 1 \in 1 .. Len(Top.tx)
      BY <2>2, WriteTop
    <3> QED BY <2>2, <3>1, WriteTop DEF TxPage
  <2> QED BY <2>1, <2>2
<1> QED BY <1>1, <1>2, <1>3 DEF CompareRoute, EraseRoute

LEMMA WriteHandlerStep ==
  ASSUME DmaInv, main = "run", Still, Top.kind = "write", evs["write"] = {}, WriteHandler
  PROVE  DmaInv'
<1>0. {"unblock", "success", "error", "next", "done", "erase", "write"} \subseteq Events /\ "error" \in Async
  BY DEF Events, Async
<1>1. CASE /\ st["write"] = "init"
           /\ evs' = [evs EXCEPT !["erase"] = {}, !["write"] = {IF Nested THEN "success" ELSE "unblock"}]
           /\ UNCHANGED <<stack, main, st, res, dma, dataVars, faultVars>>
  <2>1. PICK e \in Events : e = IF Nested THEN "success" ELSE "unblock"
    BY <1>0
  <2>2. /\ evs' \in [Kinds -> SUBSET Events] /\ evs'["write"] = {e}
        /\ \A k \in Kinds : k # "write" => evs'[k] \subseteq evs[k]
    BY <1>1, <2>1, ScriptFacts DEF DmaInv, Control, FsmType
  <2>3. Moves
    BY <1>1, <2>2, TopIs DEF Moves, DmaInv, Control, FsmType
  <2>4. /\ stack' \in Seq(Routes) /\ Len(stack') = Len(stack) /\ BelowKept
        /\ Same(Top, Top') /\ Top' = Top /\ Nested' = Nested
    BY <1>1, SameStack DEF DmaInv, Nested
  <2>5. OwnOk'
    BY <1>1, <2>1, <2>2, <2>4 DEF OwnOk, May, MayOfWrite
  <2>6. WriteOk'
    BY <1>1, <2>4 DEF WriteOk, DmaInv, Control, TopRuns, Front
  <2>7. Control'
    BY <1>1, <2>3, <2>4, <2>5, <2>6, RunStep DEF DmaInv
  <2> QED BY <1>1, <2>7, DataKept DEF DmaInv
<1>2. CASE st["write"] \in {"unblock", "disable"} /\ Queue("write", RouteRes)
  <2>1. RouteRes \in Events /\ (RouteRes \in Async \/ May(RouteRes))
    BY <1>0, <1>2 DEF RouteRes, May, MayOfWrite
  <2> QED BY <1>2, <2>1, QueueOp
<1>3. CASE st["write"] = "cmp" /\ Queue("write", CmpEvent)
  <2>1. CmpEvent \in Events /\ (CmpEvent \in Async \/ May(CmpEvent))
    BY <1>0, <1>3 DEF CmpEvent, May, MayOfWrite
  <2> QED BY <1>3, <2>1, QueueOp
<1>4. CASE st["write"] = "erase" /\ Queue("write", IF Nested THEN "success" ELSE RouteRes)
  <2>1. PICK e \in Events : e = (IF Nested THEN "success" ELSE RouteRes) /\ (e \in Async \/ May(e))
    BY <1>0, <1>4 DEF RouteRes, May, MayOfWrite
  <2> QED BY <1>4, <2>1, QueueOp
<1>5. CASE st["write"] = "enable" /\ Queue("write", IF Top.cnt >= Top.len THEN "done" ELSE RouteRes)
  <2>1. PICK e \in Events : e = (IF Top.cnt >= Top.len THEN "done" ELSE RouteRes) /\ (e \in Async \/ May(e))
    BY <1>0, <1>5 DEF RouteRes, May, MayOfWrite
  <2> QED BY <1>5, <2>1, QueueOp
<1>6. CASE QueueOnTimeout("write", "error")
  BY <1>0, <1>6, TimeoutOp
<1> QED BY <1>1, <1>2, <1>3, <1>4, <1>5, <1>6 DEF WriteHandler

LEMMA WriteSub ==
  ASSUME DmaInv, main = "run", Still, Top.kind = "write",
         NEW s \in WriteStates, NEW rest \in SUBSET Async, NEW route \in Routes,
         Sub("write", s, rest, route), Waits("write", s, route.kind),
         route.kind = "erase" => ~Nested,
         Nested => route.kind \in {"read", "on"}
  PROVE  DmaInv'
<1>0. /\ Len(stack) \in Nat \ {0} /\ stack \in Seq(Routes)
      /\ Top = stack[Len(stack)] /\ Same(Top, stack[Len(stack)])
      /\ \A i \in 1 .. Len(stack) - 1 : stack[i] = stack[i]
  BY TopIs DEF DmaInv, Same
<1>1. s \in StatesOf("write") /\ route.kind # "write"
  BY ScriptFacts DEF StatesOf, Waits
<1>2. To("write", s, rest) /\ PushOn(stack, route) /\ UNCHANGED <<dma, dataVars, faultVars>>
  BY DEF Sub, Push
<1> QED BY <1>0, <1>1, <1>2, PushOp

LEMMA EnableStep ==
  ASSUME DmaInv, main = "run", Still, Top.kind = "write", NEW rest \in SUBSET Async, Enable(rest)
  PROVE  DmaInv'
<1>1. CASE Top.cnt >= Top.len /\ Stay("write", "enable", rest)
  <2>1. "enable" \in StatesOf("write") /\ rest \in SUBSET Events
    BY DEF StatesOf, WriteStates, Events
  <2>2. Moves /\ st'["write"] = "enable" /\ evs'["write"] = rest
    BY <1>1, <2>1, ToMoves DEF Stay, DmaInv, Control, FsmType
  <2>3. /\ stack' \in Seq(Routes) /\ Len(stack') = Len(stack) /\ BelowKept
        /\ Same(Top, Top') /\ Top' = Top
    BY <1>1, SameStack DEF Stay, DmaInv
  <2>4. OwnOk' /\ WriteOk'
    BY <2>2, <2>3 DEF OwnOk, WriteOk
  <2>5. Control'
    BY <1>1, <2>2, <2>3, <2>4, RunStep DEF Stay, DmaInv
  <2> QED BY <1>1, <2>5, DataKept DEF Stay, DmaInv
<1>2. CASE Sub("write", "enable", rest, [kind |-> "on"])
  <2> DEFINE route == [kind |-> "on"]
  <2>1. route \in Routes /\ route.kind = "on"
    BY DEF Routes, PlainRoutes, Plain
  <2>2. Waits("write", "enable", route.kind)
    BY <2>1 DEF Waits
  <2> HIDE DEF route
  <2>3. Sub("write", "enable", rest, route)
    BY <1>2 DEF route
  <2> QED BY <2>1, <2>2, <2>3, WriteSub DEF WriteStates
<1> QED BY <1>1, <1>2 DEF Enable

LEMMA WriteDispatchStep ==
  ASSUME DmaInv, main = "run", Still, Top.kind = "write", NEW e \in evs["write"], WriteDispatch(e)
  PROVE  DmaInv'
<1> DEFINE s == st["write"]
<1> DEFINE rest == evs["write"] \ {e}
<1>0. /\ Top = stack[Len(stack)] /\ stack # <<>> /\ stack \in Seq(Routes)
      /\ evs["write"] \in SUBSET Events
  BY TopIs DEF DmaInv
<1>1. e \notin Async => rest \in SUBSET Async /\ MayOfWrite(e)
  <2>1. e \notin Async => rest \subseteq Async /\ May(e)
    BY RestIsAsync DEF DmaInv
  <2> QED BY <2>1, ScriptFacts DEF May
<1>2. Nested => s \in {"cmp", "enable", "cmd", "data"} \/ (s = "init" /\ ~Front("write")) \/ (s = "erase" /\ Front("write"))
  BY <1>0 DEF DmaInv, Control, WriteOk
<1>3. /\ CompareRoute \in Routes /\ CompareRoute.kind = "read"
      /\ EraseRoute \in Routes /\ EraseRoute.kind = "erase"
  BY WriteRouteTypes DEF Routes
<1>4. \A k \in Plain : [kind |-> k] \in Routes /\ [kind |-> k].kind = k
  BY DEF Routes, PlainRoutes
<1>5. buf' = buf => sr1 \in BOOLEAN /\ {} \in SUBSET Events
  BY DEF DmaInv, ChipType
<1> HIDE DEF rest
<1>6. CASE s = "init" /\ e = "unblock" /\ Sub("write", "unblock", rest, [kind |-> "unblock"])
  <2> DEFINE route == [kind |-> "unblock"]
  <2>1. route \in Routes /\ route.kind = "unblock"
    BY <1>4 DEF Plain
  <2>2. rest \in SUBSET Async /\ ~Nested
    BY <1>1, <1>6 DEF Async, MayOfWrite
  <2> HIDE DEF route
  <2>3. Sub("write", "unblock", rest, route)
    BY <1>6 DEF route
  <2> QED BY <2>1, <2>2, <2>3, WriteSub DEF WriteStates, Waits
<1>7. CASE /\ <<s, e>> \in {<<"init", "success">>, <<"unblock", "success">>, <<"enable", "done">>}
           /\ Sub("write", "cmp", rest, CompareRoute)
  <2>1. rest \in SUBSET Async
    BY <1>1, <1>7 DEF Async
  <2> QED BY <2>1, <1>3, <1>7, WriteSub DEF WriteStates, Waits
<1>8. CASE s = "cmp" /\ e = "success" /\ Sub("write", "disable", rest, [kind |-> "off"])
  <2> DEFINE route == [kind |-> "off"]
  <2>1. route \in Routes /\ route.kind = "off"
    BY <1>4 DEF Plain
  <2>2. rest \in SUBSET Async /\ ~Nested
    BY <1>1, <1>8 DEF Async, MayOfWrite
  <2> HIDE DEF route
  <2>3. Sub("write", "disable", rest, route)
    BY <1>8 DEF route
  <2> QED BY <2>1, <2>2, <2>3, WriteSub DEF WriteStates, Waits
<1>9. CASE s = "cmp" /\ e = "done" /\ Leave("write", "init", Ok)
  <2>1. Nested /\ ~Front("write")
    BY <1>1, <1>9 DEF Async, MayOfWrite
  <2> QED BY <2>1, <1>9, LeaveOp, ScriptFacts DEF Start
<1>10. CASE s = "cmp" /\ e = "next" /\ Leave("write", "erase", Ok)
  <2>1. Nested /\ Front("write")
    BY <1>1, <1>10 DEF Async, MayOfWrite
  <2> QED BY <2>1, <1>10, LeaveOp
<1>11. CASE s = "cmp" /\ e = "erase" /\ Sub("write", "erase", rest, EraseRoute)
  <2>1. rest \in SUBSET Async /\ ~Nested
    BY <1>1, <1>11 DEF Async, MayOfWrite
  <2> QED BY <2>1, <1>3, <1>11, WriteSub DEF WriteStates, Waits
<1>12. CASE /\ <<s, e>> \in {<<"cmp", "write">>, <<"erase", "success">>, <<"data", "transmit">>}
            /\ Enable(rest)
  <2>1. s = "data" => evs["write"] \subseteq Async
    BY ScriptFacts DEF DmaInv, Control, OwnEvents, OwnOk, May, MayOfWrite
  <2>2. rest \in SUBSET Async
    BY <1>1, <1>12, <2>1 DEF Async, rest
  <2> QED BY <2>2, <1>12, EnableStep
<1>13. CASE /\ s = "enable" /\ e = "success"
            /\ Transfer(Tx(<<"program", 0>>, 0), "write", "cmd", {})
            /\ UNCHANGED <<stack, main, dataVars>>
  <2>1. Top.cnt < Top.len
    <3>1. Top.cnt \in Nat /\ Top.len \in Nat
      BY WriteTop
    <3>2. ~(Top.cnt >= Top.len)
      BY <1>1, <1>13 DEF Async, MayOfWrite
    <3> QED BY <3>1, <3>2
  <2>2. Tx(<<"program", 0>>, 0) \in Transfers /\ "cmd" \in StatesOf("write")
    BY TransferTypes DEF Commands, StatesOf, WriteStates
  <2>3. buf' = buf /\ sr1' \in BOOLEAN /\ {} \in SUBSET Events
    BY <1>13, <1>5 DEF dataVars
  <2> QED BY <1>13, <2>1, <2>2, <2>3, TransferOp, SameStack DEF DmaInv
<1>14. CASE /\ s = "cmd" /\ e = "transmit"
            /\ Transfer(TxData(Top.addr + Top.cnt, TxPage(Top, Top.cnt)), "write", "data", {})
            /\ stack' = [stack EXCEPT ![Len(stack)].cnt = @ + 1]
            /\ UNCHANGED <<main, dataVars>>
  <2>0. Top \in WriteRoutes /\ Top.cnt \in 0 .. Top.len - 1 /\ Top.cnt \in Nat /\ Top.len \in Nat
    BY <1>14, WriteTop DEF DmaInv, Control, WriteOk
  <2>1. TxData(Top.addr + Top.cnt, TxPage(Top, Top.cnt)) \in Transfers
    BY <2>0, TransferTypes, WriteRouteTypes, WriteTop
  <2> DEFINE q == [Top EXCEPT !.cnt = @ + 1]
  <2>2. /\ q \in WriteRoutes /\ q.kind = "write" /\ q.cnt > 0 /\ q.tx = Top.tx /\ q.len = Top.len
        /\ q.addr = Top.addr /\ q.rx = Top.rx
        /\ stack' = [stack EXCEPT ![Len(stack)] = q]
    <3>1. Top.cnt + 1 \in Nat /\ Top.cnt + 1 > 0 /\ Top.cnt + 1 <= Top.len
      BY <2>0
    <3>2. /\ q \in [kind : {"write"}, addr : Pages, len : Nat \ {0}, cnt : Nat, rx : Slot, tx : Seq(Content)]
          /\ q.cnt = Top.cnt + 1 /\ q.len = Top.len /\ q.tx = Top.tx /\ q.addr = Top.addr /\ q.rx = Top.rx
          /\ q.kind = "write"
      BY <2>0, <3>1 DEF WriteRoutes
    <3>3. stack' = [stack EXCEPT ![Len(stack)] = q]
      BY <1>0, <1>14
    <3> HIDE DEF q
    <3>4. q \in WriteRoutes
      BY <2>0, <3>1, <3>2 DEF WriteRoutes
    <3> QED BY <3>1, <3>2, <3>3, <3>4
  <2>3. q \in Routes /\ Same(Top, q)
    BY <2>2 DEF Routes, Same
  <2> HIDE DEF q
  <2>4. /\ stack' \in Seq(Routes) /\ Len(stack') = Len(stack) /\ BelowKept
        /\ Same(Top, Top') /\ Top' = q
    BY <2>2, <2>3, CountTop DEF DmaInv
  <2>5. buf' = buf /\ sr1' \in BOOLEAN /\ {} \in SUBSET Events
    BY <1>14, <1>5 DEF dataVars
  <2>6. "data" \in StatesOf("write")
    BY DEF StatesOf, WriteStates
  <2> QED BY <1>14, <2>1, <2>2, <2>4, <2>5, <2>6, TransferOp
<1>15. CASE s = "disable" /\ e = "success" /\ Succeed("write")
  <2>1. ~Nested
    BY <1>2, <1>15
  <2> QED BY <2>1, <1>15, SucceedOp
<1>16. CASE e = "error" /\ Fail("write")
  BY <1>16, FailOp
<1> QED BY <1>6, <1>7, <1>8, <1>9, <1>10, <1>11, <1>12, <1>13, <1>14, <1>15, <1>16 DEF WriteDispatch, rest

-----------------------------------------------------------------------------
(* ERASE                                                                   *)

\* A sector is its first page and the slots behind it.
LEMMA Division ==
  ASSUME NEW p \in Nat, NEW d \in Nat \ {0}
  PROVE  /\ p \div d \in Nat /\ p % d \in 0 .. d - 1
         /\ \E z \in Nat : z = (p \div d) * d /\ p = z + (p % d)
<1>1. p \div d \in Nat /\ p % d \in 0 .. d - 1
  OBVIOUS
<1>2. p = (p \div d) * d + (p % d)
  OBVIOUS
<1> QED BY <1>1, <1>2

LEMMA Quotients ==
  /\ \A x, y, d \in Nat : x <= y => x * d <= y * d
  /\ \A s \in Nat, d \in Nat \ {0} : \A i \in 0 .. d - 1 : (s * d + i) \div d = s /\ (s * d + i) % d = i
<1>1. \A x, y, d \in Nat : x <= y => x * d <= y * d
  OBVIOUS
<1>2. ASSUME NEW s \in Nat, NEW d \in Nat \ {0}, NEW i \in 0 .. d - 1
      PROVE  (s * d + i) \div d = s /\ (s * d + i) % d = i
  OBVIOUS
<1> QED BY <1>1, <1>2

LEMMA SectorPages ==
  ASSUME NEW p \in Pages
  PROVE  /\ SectorOf(p) \in Nat /\ SlotOf(p) \in Slot
         /\ \E z \in Nat :
               /\ z = SectorOf(p) * PagesPerSector /\ p = z + SlotOf(p)
               /\ \A i \in Slot : z + i \in Pages /\ SectorOf(z + i) = SectorOf(p) /\ SlotOf(z + i) = i
<1> DEFINE d == PagesPerSector
<1> DEFINE s == p \div d
<1>1. d \in Nat \ {0} /\ Sectors \in Nat \ {0} /\ p \in Nat
  BY FlashChipAssumption, PagesRange
<1> HIDE DEF d
<1>2. /\ s \in Nat /\ p % d \in 0 .. d - 1
      /\ \E z \in Nat : z = s * d /\ p = z + (p % d)
  BY <1>1, Division
<1> HIDE DEF s
<1>3. PICK z \in Nat : z = s * d /\ p = z + (p % d)
  BY <1>2
<1>4. PICK m \in Nat \ {0} : m = Sectors * d /\ Pages = 0 .. m - 1
  BY PagesRange DEF d
<1>5. s < Sectors
  <2> SUFFICES ASSUME Sectors <= s PROVE FALSE
    BY <1>1, <1>2
  <2>1. m <= z
    BY <1>1, <1>2, <1>3, <1>4, Quotients
  <2> QED BY <2>1, <1>2, <1>3, <1>4
<1>6. z + d <= m
  <2>1. s + 1 <= Sectors /\ s + 1 \in Nat
    BY <1>1, <1>2, <1>5
  <2>2. (s + 1) * d <= Sectors * d
    BY <2>1, <1>1, Quotients
  <2>3. (s + 1) * d = s * d + d
    BY <1>1, <1>2
  <2> QED BY <2>2, <2>3, <1>3, <1>4
<1>7. ASSUME NEW i \in 0 .. d - 1
      PROVE  z + i \in Pages /\ (z + i) \div d = s /\ (z + i) % d = i
  <2>1. z + i \in Pages
    BY <1>1, <1>4, <1>6
  <2>2. (s * d + i) \div d = s /\ (s * d + i) % d = i
    BY <1>1, <1>2, Quotients
  <2> QED BY <2>1, <2>2, <1>3
<1> QED BY <1>2, <1>3, <1>7 DEF SectorOf, SlotOf, Slot, s, d

LEMMA LeastOf ==
  ASSUME NEW S \in SUBSET Nat, S # {}
  PROVE  Min(S) \in S /\ \A y \in S : Min(S) <= y
<1>1. PICK x \in S : \A y \in S : ~ (<<y, x>> \in OpToRel(<, Nat))
  BY WFMin, NatLessThanWellFounded
<1>2. ASSUME NEW y \in S PROVE x <= y
  <2>1. ~ (<<y, x>> \in OpToRel(<, Nat)) /\ x \in Nat /\ y \in Nat
    BY <1>1
  <2> QED BY <2>1 DEF OpToRel
<1> QED BY <1>1, <1>2 DEF Min

LEMMA EraseTop ==
  ASSUME DmaInv, main = "run", Top.kind = "erase"
  PROVE  /\ Top \in EraseRoutes /\ st["erase"] \in EraseStates
         /\ Top.list \in Seq(Pages) /\ Len(Top.list) \in Nat \ {0}
         /\ Top.cnt \in Nat /\ Top.cnt <= Len(Top.list)
         /\ Top.idx \in Nat /\ Top.idx <= PagesPerSector
         /\ st["erase"] \in {"cmp", "enable", "erase", "repair", "disable"} => Top.cnt < Len(Top.list)
<1>1. Top \in EraseRoutes /\ st["erase"] \in EraseStates
  BY TopIs, RouteKinds DEF DmaInv, StatesOf
<1>2. st["erase"] \in {"cmp", "enable", "erase", "repair", "disable"} => Top.cnt < Len(Top.list)
  BY TopIs DEF DmaInv, Control, EraseOk
<1>3. Top.list \in Seq(Pages) \ {<<>>}
  BY <1>1 DEF EraseRoutes
<1>4. Len(Top.list) \in Nat \ {0}
  BY <1>3
<1> QED BY <1>1, <1>2, <1>3, <1>4 DEF EraseRoutes

LEMMA EraseSector ==
  ASSUME DmaInv, main = "run", Top.kind = "erase", Top.cnt < Len(Top.list)
  PROVE  /\ Top.list[Top.cnt + 1] \in Pages /\ SlotOf(Top.list[Top.cnt + 1]) \in Slot
         /\ ListSector \in Nat
         /\ \E z \in Nat :
               /\ z = ListSector * PagesPerSector
               /\ \A i \in Slot : z + i \in Pages /\ SectorOf(z + i) = ListSector /\ SlotOf(z + i) = i
         /\ ListSector * PagesPerSector \in Pages
         /\ SectorRoute \in ReadRoutes /\ SectorRoute.kind = "read"
<1> DEFINE p == Top.list[Top.cnt + 1]
<1>1. p \in Pages
  BY EraseTop
<1> HIDE DEF p
<1>2. PICK z \in Nat :
         /\ z = SectorOf(p) * PagesPerSector /\ p = z + SlotOf(p)
         /\ \A i \in Slot : z + i \in Pages /\ SectorOf(z + i) = SectorOf(p) /\ SlotOf(z + i) = i
  BY <1>1, SectorPages
<1>3. 0 \in Slot /\ PagesPerSector - 1 \in Slot /\ PagesPerSector \in Nat \ {0}
  BY FlashChipAssumption DEF Slot
<1>4. z \in Pages /\ z + PagesPerSector - 1 \in Pages
  <2>1. z + 0 \in Pages /\ z + (PagesPerSector - 1) \in Pages
    BY <1>2, <1>3
  <2> QED BY <2>1, <1>3
<1>5. ListSector = SectorOf(p)
  BY DEF ListSector, p
<1>6. SectorRoute = [kind |-> "read", addr |-> z, len |-> PagesPerSector, rx |-> 0]
  BY <1>2, <1>5 DEF SectorRoute
<1>7. SectorRoute \in ReadRoutes
  BY <1>3, <1>4, <1>6 DEF ReadRoutes
<1> QED BY <1>1, <1>2, <1>4, <1>5, <1>6, <1>7, SectorPages DEF p

\* The machine stays in ERASE, and counts.
LEMMA EraseStayStep ==
  ASSUME DmaInv, main = "run", main' = main, Still, Top.kind = "erase",
         NEW s \in EraseStates, NEW E \in SUBSET Events, To("erase", s, E),
         NEW q \in EraseRoutes, q.list = Top.list, stack' = [stack EXCEPT ![Len(stack)] = q],
         s # "erase",
         s \in {"cmp", "enable", "repair", "disable"} => q.cnt < Len(q.list),
         E \subseteq Async \/ \E e \in E : E \ Async = {e} /\ MayOfErase(e)',
         res' = res, UNCHANGED <<dma, dataVars, faultVars>>
  PROVE  DmaInv' /\ Top' = q /\ BelowKept /\ Len(stack') = Len(stack)
         /\ st'["erase"] = s /\ evs'["erase"] = E
<1>1. q \in Routes /\ q.kind = "erase" /\ Same(Top, q)
  BY DEF Routes, EraseRoutes, Same
<1>2. /\ stack' \in Seq(Routes) /\ Len(stack') = Len(stack) /\ BelowKept
      /\ Same(Top, Top') /\ Top' = q
  BY <1>1, CountTop DEF DmaInv
<1>3. Moves /\ st'["erase"] = s /\ evs'["erase"] = E
  BY <1>2, ToMoves, ScriptFacts DEF DmaInv, Control, FsmType, StatesOf
<1>4. OwnOk'
  BY <1>1, <1>2, <1>3 DEF OwnOk, May
<1>5. EraseOk'
  <2>1. ASSUME NEW i \in 1 .. Len(stack), stack'[i].kind = "erase" PROVE stack'[i] = q
    <3> DEFINE n == Len(stack)
    <3>1. /\ n \in Nat \ {0} /\ \A a, b \in 1 .. n : a < b /\ stack[a].kind = stack[b].kind => a = 1 /\ b = 3 /\ Twice
      BY StackForm, TopIs DEF DmaInv, Control, FsmType, n
    <3>2. stack'[n] = q /\ \A j \in 1 .. n - 1 : stack'[j] = stack[j]
      BY <1>2, TopIs DEF BelowKept, Top, n, DmaInv
    <3>3. n \in 1 .. n /\ stack[n].kind = "erase"
      BY <3>1, TopIs DEF DmaInv, n
    <3> HIDE DEF n
    <3>4. \A j \in 1 .. n - 1 : stack[j].kind # "erase"
      <4> SUFFICES ASSUME NEW j \in 1 .. n - 1, stack[j].kind = "erase" PROVE FALSE
        OBVIOUS
      <4>1. j \in 1 .. n /\ j < n
        BY <3>1
      <4>2. j = 1 /\ Twice
        BY <3>1, <3>3, <4>1
      <4> QED BY <4>2 DEF Twice
    <3>5. \A j \in 1 .. n : j = n \/ j \in 1 .. n - 1
      BY <3>1
    <3> QED BY <3>2, <3>4, <3>5, <2>1 DEF n
  <2> QED BY <2>1, <1>2, <1>3 DEF EraseOk
<1>6. Control'
  BY <1>1, <1>2, <1>3, <1>4, <1>5, RunStep DEF DmaInv
<1> QED BY <1>2, <1>3, <1>6, DataKept DEF DmaInv

LEMMA EraseHandlerStep ==
  ASSUME DmaInv, main = "run", Still, Top.kind = "erase", evs["erase"] = {}, EraseHandler
  PROVE  DmaInv'
<1>0. {"unblock", "success", "error", "next", "erase", "write"} \subseteq Events /\ "error" \in Async
  BY DEF Events, Async
<1>1. CASE st["erase"] = "init" /\ Queue("erase", IF Nested THEN "success" ELSE "unblock")
  <2>1. PICK e \in Events : e = (IF Nested THEN "success" ELSE "unblock") /\ May(e)
    BY <1>0, <1>1 DEF May, MayOfErase
  <2> QED BY <1>1, <2>1, QueueOp
<1>2. CASE st["erase"] \in {"unblock", "enable"} /\ Queue("erase", RouteRes)
  <2>1. RouteRes \in Events /\ (RouteRes \in Async \/ May(RouteRes))
    BY <1>0, <1>2 DEF RouteRes, May, MayOfErase
  <2> QED BY <1>2, <2>1, QueueOp
<1>3. CASE st["erase"] = "loop" /\ Queue("erase", IF Top.cnt >= Len(Top.list) THEN "success" ELSE "next")
  <2>1. PICK e \in Events : e = (IF Top.cnt >= Len(Top.list) THEN "success" ELSE "next") /\ May(e)
    BY <1>0, <1>3 DEF May, MayOfErase
  <2> QED BY <1>3, <2>1, QueueOp
<1>4. CASE st["erase"] = "cmp" /\ EraseCmp
  <2>0. PICK e \in {"error", "erase", "success"} :
          /\ e = IF res # Ok THEN "error" ELSE IF Written # {} THEN "erase" ELSE "success"
          /\ evs' = [evs EXCEPT !["erase"] = {e}]
          /\ stack' = IF e = "erase" THEN [stack EXCEPT ![Len(stack)].cnt = Min(Written)] ELSE stack
          /\ UNCHANGED <<main, st, res, dma, dataVars, faultVars>>
    BY <1>4 DEF EraseCmp
  <2>1. {e} \in SUBSET Events /\ (e \in Async \/ May(e))
    BY <1>0, <1>4, <2>0 DEF May, MayOfErase
  <2>2. CASE e # "erase"
    <3>1. stack' = stack
      BY <2>0, <2>2
    <3>2. Control'
      BY <2>0, <2>1, <3>1, EventStep DEF DmaInv
    <3> QED BY <2>0, <3>2, DataKept DEF DmaInv
  <2>3. CASE e = "erase"
    <3>1. /\ Top \in EraseRoutes /\ Top = stack[Len(stack)] /\ stack \in Seq(Routes) /\ stack # <<>>
          /\ Top.cnt \in Nat /\ Len(Top.list) \in Nat
      BY EraseTop, TopIs DEF DmaInv
    <3> DEFINE c == Min(Written)
    <3>2. Written # {}
      BY <2>0, <2>3
    <3>3. Written \in SUBSET (Top.cnt .. Len(Top.list) - 1)
      BY DEF Written
    <3>4. \A a, b \in Nat : a .. b - 1 \in SUBSET Nat
      OBVIOUS
    <3>5. Written \in SUBSET Nat
      BY <3>1, <3>3, <3>4
    <3>6. c \in Written
      BY <3>2, <3>5, LeastOf
    <3>7. c \in Top.cnt .. Len(Top.list) - 1
      BY <3>3, <3>6
    <3> HIDE DEF c
    <3>8. c \in Nat /\ c < Len(Top.list)
      BY <3>1, <3>7
    <3> DEFINE q == [Top EXCEPT !.cnt = c]
    <3>9. stack' = [stack EXCEPT ![Len(stack)] = q]
      BY <2>0, <2>3, <3>1 DEF c
    <3>10. /\ q \in [kind : {"erase"}, list : Seq(Pages) \ {<<>>}, cnt : Nat, idx : Nat]
           /\ q.kind = "erase" /\ q.list = Top.list /\ q.cnt = c /\ q.idx = Top.idx
      BY <3>1, <3>8 DEF EraseRoutes
    <3> HIDE DEF q
    <3>11. q \in EraseRoutes
      BY <3>1, <3>8, <3>10 DEF EraseRoutes
    <3>12. To("erase", "cmp", {e}) /\ "cmp" \in EraseStates
      BY <1>4, <2>0 DEF To, DmaInv, Control, FsmType, EraseStates
    <3>13. st'["erase"] = "cmp"
      BY <1>4, <2>0
    <3>14. {e} \ Async = {e} /\ MayOfErase(e)'
      BY <2>3, <3>13 DEF MayOfErase, Async
    <3>15. q.cnt < Len(q.list) /\ q.list = Top.list
      BY <3>8, <3>10
    <3>16. main' = main /\ res' = res /\ UNCHANGED <<dma, dataVars, faultVars>>
      BY <2>0
    <3> QED BY <2>1, <3>9, <3>11, <3>12, <3>14, <3>15, <3>16, EraseStayStep
  <2> QED BY <2>2, <2>3
<1>5. CASE QueueOnTimeout("erase", "error")
  BY <1>0, <1>5, TimeoutOp
<1>6. CASE st["erase"] = "repair" /\ Queue("erase", IF res = Ok THEN "write" ELSE "error")
  <2>1. PICK e \in Events : e = (IF res = Ok THEN "write" ELSE "error") /\ (e \in Async \/ May(e))
    BY <1>0, <1>6 DEF May, MayOfErase
  <2> QED BY <1>6, <2>1, QueueOp
<1>7. CASE st["erase"] = "disable" /\ Queue("erase", IF Nested THEN "success" ELSE RouteRes)
  <2>1. PICK e \in Events : e = (IF Nested THEN "success" ELSE RouteRes) /\ (e \in Async \/ May(e))
    BY <1>0, <1>7 DEF RouteRes, May, MayOfErase
  <2> QED BY <1>7, <2>1, QueueOp
<1> QED BY <1>1, <1>2, <1>3, <1>4, <1>5, <1>6, <1>7 DEF EraseHandler

LEMMA EraseSub ==
  ASSUME DmaInv, main = "run", Still, Top.kind = "erase",
         NEW s \in EraseStates, NEW rest \in SUBSET Async, NEW route \in Routes,
         Sub("erase", s, rest, route), Waits("erase", s, route.kind), route.kind # "write",
         s = "unblock" \/ Top.cnt < Len(Top.list)
  PROVE  DmaInv'
<1>0. /\ Len(stack) \in Nat \ {0} /\ stack \in Seq(Routes)
      /\ Top = stack[Len(stack)] /\ Same(Top, stack[Len(stack)])
      /\ \A i \in 1 .. Len(stack) - 1 : stack[i] = stack[i]
  BY TopIs DEF DmaInv, Same
<1>1. s \in StatesOf("erase") /\ route.kind # "erase"
  BY ScriptFacts DEF StatesOf, Waits
<1>2. To("erase", s, rest) /\ PushOn(stack, route) /\ UNCHANGED <<dma, dataVars, faultVars>>
  BY DEF Sub, Push
<1> QED BY <1>0, <1>1, <1>2, PushOp

\* The pages of the sector that are put back
RepairRoute(i) ==
    [kind |-> "write", addr |-> ListSector * PagesPerSector + i, len |-> 1, cnt |-> 0,
     rx |-> SlotOf(Top.list[Top.cnt + 1]), tx |-> FromBuffer]

LEMMA RepairRouteType ==
  ASSUME DmaInv, main = "run", Top.kind = "erase", Top.cnt < Len(Top.list), NEW i \in Slot
  PROVE  RepairRoute(i) \in WriteRoutes
<1>1. PICK z \in Nat : z = ListSector * PagesPerSector /\ z + i \in Pages
  BY EraseSector
<1>2. SlotOf(Top.list[Top.cnt + 1]) \in Slot
  BY EraseSector
<1>3. FromBuffer \in Seq(Content)
  BY DEF FromBuffer
<1>4. \A b \in Slot : b + 1 <= PagesPerSector
  BY FlashChipAssumption DEF Slot
<1>5. (z + i) + 1 - 1 \in Pages
  BY <1>1 DEF Slot
<1> DEFINE rx == SlotOf(Top.list[Top.cnt + 1])
<1>6. RepairRoute(i) = [kind |-> "write", addr |-> z + i, len |-> 1, cnt |-> 0, rx |-> rx, tx |-> FromBuffer]
  BY <1>1 DEF RepairRoute
<1> HIDE DEF rx
<1>7. rx \in Slot
  BY <1>2 DEF rx
<1> QED BY <1>1, <1>3, <1>4, <1>5, <1>6, <1>7 DEF WriteRoutes

LEMMA RepairStep ==
  ASSUME DmaInv, main = "run", Still, Top.kind = "erase", Top.cnt < Len(Top.list),
         NEW rest \in SUBSET Async, NEW idx \in Nat, idx <= PagesPerSector, Repair(idx, rest)
  PROVE  DmaInv'
<1> DEFINE first == ListSector * PagesPerSector
<1> DEFINE wanted == {i \in idx .. PagesPerSector - 1 : first + i \notin Listed /\ buf[i] # Blank}
<1>0. /\ Top \in EraseRoutes /\ Top = stack[Len(stack)] /\ stack \in Seq(Routes) /\ stack # <<>>
      /\ Len(stack) \in Nat \ {0}
  BY EraseTop, TopIs DEF DmaInv
<1>1. "repair" \in EraseStates /\ rest \cup {"success"} \in SUBSET Events
  BY DEF EraseStates, Events
<1>2. CASE wanted = {}
  <2> DEFINE q == [Top EXCEPT !.idx = idx]
  <2>1. /\ To("erase", "repair", rest \cup {"success"}) /\ stack' = [stack EXCEPT ![Len(stack)] = q]
        /\ UNCHANGED <<main, res, dma, dataVars, faultVars>>
    BY <1>0, <1>2 DEF Repair
  <2>2. /\ q \in [kind : {"erase"}, list : Seq(Pages) \ {<<>>}, cnt : Nat, idx : Nat]
        /\ q.list = Top.list /\ q.cnt = Top.cnt /\ q.idx = idx
    BY <1>0 DEF EraseRoutes
  <2> HIDE DEF q
  <2>3. q \in EraseRoutes
    BY <1>0, <2>2 DEF EraseRoutes
  <2>4. st'["erase"] = "repair"
    BY <2>1, ScriptFacts DEF To, DmaInv, Control, FsmType
  <2>5. (rest \cup {"success"}) \ Async = {"success"} /\ MayOfErase("success")'
    BY <2>4 DEF MayOfErase, Async
  <2> QED BY <1>1, <2>1, <2>2, <2>3, <2>5, EraseStayStep
<1>3. CASE wanted # {}
  <2> DEFINE i == Min(wanted)
  <2>1. wanted \in SUBSET Nat
    OBVIOUS
  <2>2. i \in wanted
    BY <1>3, <2>1, LeastOf
  <2>3. i \in idx .. PagesPerSector - 1
    BY <2>2
  <2> DEFINE q == [Top EXCEPT !.idx = i + 1]
  <2> DEFINE base == [stack EXCEPT ![Len(stack)] = q]
  <2>4. /\ To("erase", "repair", rest) /\ PushOn(base, RepairRoute(i))
        /\ UNCHANGED <<dma, dataVars, faultVars>>
    <3>1. PushOn([stack EXCEPT ![Len(stack)].idx = i + 1], RepairRoute(i))
      BY <1>3 DEF Repair, RepairRoute
    <3>2. [stack EXCEPT ![Len(stack)].idx = i + 1] = base
      BY <1>0
    <3>3. To("erase", "repair", rest) /\ UNCHANGED <<dma, dataVars, faultVars>>
      BY <1>3 DEF Repair
    <3> HIDE DEF base
    <3> QED BY <3>1, <3>2, <3>3
  <2> HIDE DEF i, wanted, first
  <2>5. i \in Slot /\ i + 1 \in Nat /\ i + 1 <= PagesPerSector
    BY <2>3, FlashChipAssumption DEF Slot
  <2>6. /\ q \in [kind : {"erase"}, list : Seq(Pages) \ {<<>>}, cnt : Nat, idx : Nat]
        /\ q.kind = "erase" /\ q.list = Top.list /\ q.cnt = Top.cnt /\ q.idx = i + 1
    BY <1>0, <2>5 DEF EraseRoutes
  <2> HIDE DEF q
  <2>7. q \in EraseRoutes
    BY <1>0, <2>5, <2>6 DEF EraseRoutes
  <2>8. q \in Routes /\ Same(Top, q)
    BY <1>0, <2>6, <2>7 DEF Routes, Same, EraseRoutes
  <2>9. /\ base \in Seq(Routes) /\ Len(base) = Len(stack) /\ base[Len(stack)] = q
        /\ \A j \in 1 .. Len(stack) - 1 : base[j] = stack[j]
    BY <1>0, <2>8
  <2> HIDE DEF base
  <2>10. RepairRoute(i) \in WriteRoutes /\ RepairRoute(i) \in Routes
    BY <2>5, RepairRouteType DEF Routes
  <2>11. RepairRoute(i).kind = "write" /\ RepairRoute(i).tx = FromBuffer /\ RepairRoute(i).len = 1
    BY DEF RepairRoute
  <2>12. Waits("erase", "repair", "write")
    BY DEF Waits
  <2>13. "repair" \in StatesOf("erase")
    BY DEF StatesOf, EraseStates
  <2> DEFINE route == RepairRoute(i)
  <2>14. /\ To(Top.kind, "repair", rest) /\ PushOn(base, route) /\ route \in Routes
         /\ route.kind = "write" /\ route.tx = FromBuffer /\ route.len = 1
         /\ Waits(Top.kind, "repair", route.kind) /\ "repair" \in StatesOf(Top.kind)
    BY <2>4, <2>10, <2>11, <2>12, <2>13
  <2> HIDE DEF route
  <2>15. Same(Top, base[Len(stack)]) /\ base[Len(stack)].cnt < Len(base[Len(stack)].list)
    BY <2>6, <2>8, <2>9
  <2> QED BY <2>4, <2>9, <2>14, <2>15, PushOp
<1> QED BY <1>2, <1>3

LEMMA NextListedType ==
  ASSUME DmaInv, main = "run", Top.kind = "erase"
  PROVE  NextListed \in Nat /\ NextListed <= Len(Top.list)
<1> DEFINE more == {i \in Top.cnt + 1 .. Len(Top.list) - 1 : SectorOf(Top.list[i + 1]) # ListSector}
<1>1. Top.cnt \in Nat /\ Len(Top.list) \in Nat
  BY EraseTop
<1>2. CASE more = {}
  BY <1>1, <1>2 DEF NextListed
<1>3. CASE more # {}
  <2>1. \A a, b \in Nat : a + 1 .. b - 1 \in SUBSET Nat
    OBVIOUS
  <2>2. more \in SUBSET (Top.cnt + 1 .. Len(Top.list) - 1)
    OBVIOUS
  <2>3. NextListed = Min(more)
    BY <1>3 DEF NextListed
  <2> HIDE DEF more
  <2>4. NextListed \in Top.cnt + 1 .. Len(Top.list) - 1
    BY <1>1, <1>3, <2>1, <2>2, <2>3, LeastOf
  <2> QED BY <2>4, <1>1
<1> QED BY <1>2, <1>3

LEMMA EraseDispatchStep ==
  ASSUME DmaInv, main = "run", Still, Top.kind = "erase", NEW e \in evs["erase"], EraseDispatch(e)
  PROVE  DmaInv'
<1> DEFINE s == st["erase"]
<1> DEFINE rest == evs["erase"] \ {e}
<1>0. /\ Top = stack[Len(stack)] /\ stack # <<>> /\ stack \in Seq(Routes)
      /\ evs["erase"] \in SUBSET Events /\ rest \in SUBSET Events
      /\ Top \in EraseRoutes /\ Top.cnt \in Nat /\ Len(Top.list) \in Nat \ {0}
      /\ s \in {"cmp", "enable", "erase", "repair", "disable"} => Top.cnt < Len(Top.list)
  BY TopIs, EraseTop DEF DmaInv
<1>1. e \notin Async => rest \in SUBSET Async /\ MayOfErase(e)
  <2>1. e \notin Async => rest \subseteq Async /\ May(e)
    BY RestIsAsync DEF DmaInv
  <2> QED BY <2>1, ScriptFacts DEF May
<1>2. \A k \in Plain : [kind |-> k] \in Routes /\ [kind |-> k].kind = k
  BY DEF Routes, PlainRoutes
<1>3. s = "erase" => rest \in SUBSET Async
  BY ScriptFacts DEF DmaInv, Control, OwnEvents, OwnOk, May, MayOfErase
<1> HIDE DEF rest
<1>4. ASSUME NEW r \in EraseStates, NEW n \in Nat, NEW E \in SUBSET Async, n <= Len(Top.list),
             r = "loop", SetCnt(r, n, E)
      PROVE  DmaInv'
  <2> DEFINE q == [Top EXCEPT !.cnt = n]
  <2>1. /\ stack' = [stack EXCEPT ![Len(stack)] = q] /\ To("erase", r, E)
        /\ UNCHANGED <<main, res, dma, dataVars, faultVars>>
    BY <1>0, <1>4 DEF SetCnt
  <2>2. /\ q \in [kind : {"erase"}, list : Seq(Pages) \ {<<>>}, cnt : Nat, idx : Nat]
        /\ q.list = Top.list /\ q.cnt = n /\ q.idx = Top.idx
    BY <1>0 DEF EraseRoutes
  <2> HIDE DEF q
  <2>3. q \in EraseRoutes
    BY <1>0, <1>4, <2>2 DEF EraseRoutes
  <2>4. E \in SUBSET Events
    BY DEF Events
  <2> QED BY <1>4, <2>1, <2>2, <2>3, <2>4, EraseStayStep
<1>5. CASE s = "init" /\ e = "unblock" /\ Sub("erase", "unblock", rest, [kind |-> "unblock"])
  <2> DEFINE route == [kind |-> "unblock"]
  <2>1. route \in Routes /\ route.kind = "unblock"
    BY <1>2 DEF Plain
  <2>2. rest \in SUBSET Async
    BY <1>1, <1>5 DEF Async
  <2> HIDE DEF route
  <2>3. Sub("erase", "unblock", rest, route)
    BY <1>5 DEF route
  <2> QED BY <2>1, <2>2, <2>3, EraseSub DEF EraseStates, Waits
<1>6. CASE s \in {"init", "unblock"} /\ e = "success" /\ SetCnt("loop", 0, {})
  <2>1. 0 <= Len(Top.list) /\ {} \in SUBSET Async /\ "loop" \in EraseStates
    BY <1>0 DEF EraseStates
  <2> QED BY <1>4, <1>6, <2>1
<1>7. CASE s = "loop" /\ e = "success" /\ Succeed("erase")
  BY <1>7, SucceedOp
<1>8. CASE s = "loop" /\ e = "next" /\ Sub("erase", "cmp", rest, SectorRoute)
  <2>1. rest \in SUBSET Async /\ ~(Top.cnt >= Len(Top.list))
    BY <1>1, <1>8 DEF Async, MayOfErase
  <2>2. Top.cnt < Len(Top.list)
    BY <1>0, <2>1
  <2>3. SectorRoute \in Routes /\ SectorRoute.kind = "read"
    BY <2>2, EraseSector DEF Routes
  <2> QED BY <1>8, <2>1, <2>2, <2>3, EraseSub DEF EraseStates, Waits
<1>9. CASE s \in {"cmp", "disable"} /\ e = "success" /\ SetCnt("loop", NextListed, rest)
  <2>1. rest \in SUBSET Async /\ "loop" \in EraseStates
    BY <1>1, <1>9 DEF Async, EraseStates
  <2>2. NextListed \in Nat /\ NextListed <= Len(Top.list)
    BY NextListedType
  <2> QED BY <1>4, <1>9, <2>1, <2>2
<1>10. CASE s = "cmp" /\ e = "erase" /\ Sub("erase", "enable", rest, [kind |-> "on"])
  <2> DEFINE route == [kind |-> "on"]
  <2>1. route \in Routes /\ route.kind = "on"
    BY <1>2 DEF Plain
  <2>2. rest \in SUBSET Async
    BY <1>1, <1>10 DEF Async
  <2> HIDE DEF route
  <2>3. Sub("erase", "enable", rest, route)
    BY <1>10 DEF route
  <2> QED BY <1>0, <1>10, <2>1, <2>2, <2>3, EraseSub DEF EraseStates, Waits
<1>11. CASE /\ s = "enable" /\ e = "success"
            /\ Transfer(Tx(<<"erase", 0>>, ListSector * PagesPerSector), "erase", "erase", {})
            /\ UNCHANGED <<stack, main, dataVars>>
  <2>1. ListSector * PagesPerSector \in Pages
    BY <1>0, <1>11, EraseSector
  <2>2. Tx(<<"erase", 0>>, ListSector * PagesPerSector) \in Transfers /\ "erase" \in StatesOf("erase")
    BY <2>1, TransferTypes, ScriptFacts DEF Commands, StatesOf, EraseStates
  <2>3. buf' = buf /\ sr1' \in BOOLEAN /\ {} \in SUBSET Events
    BY <1>11 DEF dataVars, DmaInv, ChipType
  <2> QED BY <1>11, <2>2, <2>3, TransferOp, SameStack DEF DmaInv
<1>12. CASE s = "erase" /\ e = "transmit" /\ Repair(0, rest)
  <2>1. 0 <= PagesPerSector /\ 0 \in Nat
    BY FlashChipAssumption
  <2> QED BY <1>0, <1>3, <1>12, <2>1, RepairStep
<1>13. CASE s = "repair" /\ e = "write" /\ Repair(Top.idx, rest)
  <2>1. rest \in SUBSET Async
    BY <1>1, <1>13 DEF Async
  <2> QED BY <1>0, <1>13, <2>1, RepairStep, EraseTop
<1>14. CASE s = "repair" /\ e = "success" /\ Disable(rest)
  <2>1. rest \in SUBSET Async
    BY <1>1, <1>14 DEF Async
  <2>2. CASE Stay("erase", "disable", rest)
    <3>1. stack' = [stack EXCEPT ![Len(stack)] = Top]
      BY <1>0, <2>2 DEF Stay
    <3>2. "disable" \in EraseStates /\ rest \in SUBSET Events
      BY <2>1 DEF EraseStates, Events
    <3> QED BY <1>0, <1>14, <2>1, <2>2, <3>1, <3>2, EraseStayStep DEF Stay
  <2>3. CASE Sub("erase", "disable", rest, [kind |-> "off"])
    <3> DEFINE route == [kind |-> "off"]
    <3>1. route \in Routes /\ route.kind = "off"
      BY <1>2 DEF Plain
    <3> HIDE DEF route
    <3>2. Sub("erase", "disable", rest, route)
      BY <2>3 DEF route
    <3> QED BY <1>0, <1>14, <2>1, <3>1, <3>2, EraseSub DEF EraseStates, Waits
  <2> QED BY <1>14, <2>2, <2>3 DEF Disable
<1>15. CASE e = "error" /\ Fail("erase")
  BY <1>15, FailOp
<1> QED BY <1>5, <1>6, <1>7, <1>8, <1>9, <1>10, <1>11, <1>12, <1>13, <1>14, <1>15 DEF EraseDispatch, rest

-----------------------------------------------------------------------------
(* The driver                                                              *)

LEMMA RunHandlerStep ==
  ASSUME DmaInv, RunHandler
  PROVE  DmaInv'
<1>1. main = "run" /\ Still /\ evs[Top.kind] = {} /\ Handler(Top.kind)
  BY DEF RunHandler, Running, Still
<1>2. Top.kind \in Kinds
  BY <1>1, TopIs DEF DmaInv
<1>3. CASE Top.kind \in DOMAIN Script
  <2>1. ScriptHandler(Top.kind)
    BY <1>1, <1>3, ScriptFacts DEF Handler
  <2> QED BY <1>1, <1>3, <2>1, ScriptHandlerStep
<1>4. CASE Top.kind = "free"
  <2>1. FreeHandler
    BY <1>1, <1>4, ScriptFacts DEF Handler
  <2> QED BY <1>1, <1>4, <2>1, FreeHandlerStep
<1>5. CASE Top.kind = "write"
  <2>1. WriteHandler
    BY <1>1, <1>5, ScriptFacts DEF Handler
  <2> QED BY <1>1, <1>5, <2>1, WriteHandlerStep
<1>6. CASE Top.kind = "erase"
  <2>1. EraseHandler
    BY <1>1, <1>6, ScriptFacts DEF Handler
  <2> QED BY <1>1, <1>6, <2>1, EraseHandlerStep
<1> QED BY <1>2, <1>3, <1>4, <1>5, <1>6 DEF Kinds

LEMMA RunEventStep ==
  ASSUME DmaInv, RunEvent
  PROVE  DmaInv'
<1>1. main = "run" /\ Still
  BY DEF RunEvent, Running, Still
<1>2. PICK e \in evs[Top.kind] :
        IF Accepts(Top.kind, e)
        THEN Dispatch(Top.kind, e)
        ELSE To(Top.kind, st[Top.kind], evs[Top.kind] \ {e})
             /\ UNCHANGED <<stack, main, res, dma, dataVars, faultVars>>
  BY DEF RunEvent
<1>3. Top.kind \in Kinds
  BY <1>1, TopIs DEF DmaInv
<1>4. CASE ~Accepts(Top.kind, e)
  <2>1. /\ To(Top.kind, st[Top.kind], evs[Top.kind] \ {e})
        /\ UNCHANGED <<stack, main, res, dma, dataVars, faultVars>>
    BY <1>2, <1>4
  <2>2. Control'
    BY <1>1, <2>1, DropStep DEF DmaInv
  <2> QED BY <1>1, <2>1, <2>2, DataKept DEF DmaInv
<1>5. CASE Dispatch(Top.kind, e)
  <2>1. CASE Top.kind \in DOMAIN Script
    <3>1. ScriptDispatch(Top.kind, e)
      BY <1>5, <2>1, ScriptFacts DEF Dispatch
    <3> QED BY <1>1, <2>1, <3>1, ScriptDispatchStep
  <2>2. CASE Top.kind = "free"
    <3>1. FreeDispatch(e)
      BY <1>5, <2>2, ScriptFacts DEF Dispatch
    <3> QED BY <1>1, <2>2, <3>1, FreeDispatchStep
  <2>3. CASE Top.kind = "write"
    <3>1. WriteDispatch(e)
      BY <1>5, <2>3, ScriptFacts DEF Dispatch
    <3> QED BY <1>1, <2>3, <3>1, WriteDispatchStep
  <2>4. CASE Top.kind = "erase"
    <3>1. EraseDispatch(e)
      BY <1>5, <2>4, ScriptFacts DEF Dispatch
    <3> QED BY <1>1, <2>4, <3>1, EraseDispatchStep
  <2> QED BY <1>3, <2>1, <2>2, <2>3, <2>4 DEF Kinds
<1> QED BY <1>2, <1>4, <1>5

LEMMA TickStep ==
  ASSUME DmaInv, Tick
  PROVE  DmaInv'
<1>1. CASE Router
  BY <1>1, IdleStep DEF Router, DmaInv, ChipType, CountType, chipVars, dataVars, userVars, faultVars
<1>2. CASE InitState
  BY <1>2, IdleStep DEF InitState, DmaInv, ChipType, CountType, chipVars, dataVars, userVars, faultVars
<1>3. CASE Callback
  BY <1>3, CallbackStep DEF Callback, DmaInv, ChipType, CountType, chipVars, dataVars, userVars, faultVars
<1> QED BY <1>1, <1>2, <1>3, RunHandlerStep, RunEventStep DEF Tick

LEMMA RequestTypes ==
  /\ \A r \in Reads : [kind |-> "read", addr |-> r.addr, len |-> r.len, rx |-> ToUser] \in ReadRoutes
  /\ \A w \in Writes :
        /\ [kind |-> "write", addr |-> w.addr, len |-> Len(w.data), cnt |-> 0, rx |-> 0, tx |-> w.data] \in WriteRoutes
        /\ w.data # FromBuffer
  /\ \A list \in Erases : [kind |-> "erase", list |-> list, cnt |-> 0, idx |-> 0] \in EraseRoutes
<1>1. ASSUME NEW r \in Reads
      PROVE  [kind |-> "read", addr |-> r.addr, len |-> r.len, rx |-> ToUser] \in ReadRoutes
  BY DmaAssumption DEF ReadRoutes, ToUser
<1>2. ASSUME NEW w \in Writes
      PROVE  /\ [kind |-> "write", addr |-> w.addr, len |-> Len(w.data), cnt |-> 0, rx |-> 0, tx |-> w.data] \in WriteRoutes
             /\ w.data # FromBuffer
  <2>1. /\ w.addr \in Pages /\ w.data \in Seq(Content) /\ w.data # <<>>
        /\ w.addr + Len(w.data) - 1 \in Pages /\ Len(w.data) <= PagesPerSector
    BY DmaAssumption
  <2>2. PICK n \in Nat \ {0} : n = Len(w.data)
    BY <2>1
  <2>3. 0 \in Slot /\ 0 <= n
    BY FlashChipAssumption DEF Slot
  <2> QED BY <2>1, <2>2, <2>3 DEF WriteRoutes, FromBuffer
<1>3. ASSUME NEW list \in Erases
      PROVE  [kind |-> "erase", list |-> list, cnt |-> 0, idx |-> 0] \in EraseRoutes
  <2>1. list \in Seq(Pages) \ {<<>>} /\ 0 <= Len(list) /\ 0 <= PagesPerSector
    BY DmaAssumption, FlashChipAssumption
  <2> QED BY <2>1 DEF EraseRoutes
<1> QED BY <1>1, <1>2, <1>3

LEMMA TakeStep ==
  ASSUME DmaInv, NEW r \in Routes, Ready, Request(r),
         r.kind \in {"read", "write", "erase"},
         r.kind = "write" => r.tx # FromBuffer
  PROVE  DmaInv'
<1>1. Control'
  BY RequestStep DEF DmaInv
<1>2. ChipType' /\ CountType'
  BY DmaAssumption DEF DmaInv, ChipType, CountType, Request, chipVars, dataVars, faultVars
<1> QED BY <1>1, <1>2 DEF DmaInv

LEMMA RequestsStep ==
  ASSUME DmaInv, ReadDma \/ WriteDma \/ EraseAddressesDma
  PROVE  DmaInv'
<1>1. CASE ReadDma
  <2>1. PICK r \in Reads : Request([kind |-> "read", addr |-> r.addr, len |-> r.len, rx |-> ToUser])
    BY <1>1 DEF ReadDma
  <2> DEFINE route == [kind |-> "read", addr |-> r.addr, len |-> r.len, rx |-> ToUser]
  <2>2. route \in Routes /\ route.kind = "read" /\ Ready /\ Request(route)
    BY <1>1, <2>1, RequestTypes DEF Routes, ReadDma
  <2> HIDE DEF route
  <2> QED BY <2>2, TakeStep
<1>2. CASE WriteDma
  <2>1. PICK w \in Writes :
          Request([kind |-> "write", addr |-> w.addr, len |-> Len(w.data), cnt |-> 0, rx |-> 0, tx |-> w.data])
    BY <1>2 DEF WriteDma
  <2> DEFINE route == [kind |-> "write", addr |-> w.addr, len |-> Len(w.data), cnt |-> 0, rx |-> 0, tx |-> w.data]
  <2>2. route \in Routes /\ route.kind = "write" /\ route.tx # FromBuffer /\ Ready /\ Request(route)
    BY <1>2, <2>1, RequestTypes DEF Routes, WriteDma
  <2> HIDE DEF route
  <2> QED BY <2>2, TakeStep
<1>3. CASE EraseAddressesDma
  <2>1. PICK list \in Erases : Request([kind |-> "erase", list |-> list, cnt |-> 0, idx |-> 0])
    BY <1>3 DEF EraseAddressesDma
  <2> DEFINE route == [kind |-> "erase", list |-> list, cnt |-> 0, idx |-> 0]
  <2>2. route \in Routes /\ route.kind = "erase" /\ Ready /\ Request(route)
    BY <1>3, <2>1, RequestTypes DEF Routes, EraseAddressesDma
  <2> HIDE DEF route
  <2> QED BY <2>2, TakeStep
<1> QED BY <1>1, <1>2, <1>3

-----------------------------------------------------------------------------
(* The chip and the SPI                                                    *)

LEMMA ProgrammedType ==
  ASSUME NEW c \in Content, NEW data \in Content, NEW n
  PROVE  Programmed(c, data, n) \in Content
<1>1. \A i \in Offsets : c[i] \in Bytes \cup {Erased, Garbage} /\ data[i] \in Bytes \cup {Erased, Garbage}
  BY DEF Content
<1> QED BY <1>1 DEF Programmed, Burnt, Content

\* A command does what it says to pages and status, or nothing.
LEMMA EffectType ==
  ASSUME ChipType, NEW d \in TxTransfers, NEW n
  PROVE  /\ Effect(d, n)[1] \in [Pages -> Content]
         /\ Effect(d, n)[2] \in [busy : BOOLEAN, wel : BOOLEAN, locked : BOOLEAN]
<1> DEFINE blanked == [p \in Pages |-> IF p \in Neighbours(d.page) THEN Blank ELSE mem[p]]
           burnt == [mem EXCEPT ![d.page] = Programmed(@, d.data, n)]
           works == [chip EXCEPT !.busy = TRUE, !.wel = FALSE]
           on == [chip EXCEPT !.wel = TRUE]
           off == [chip EXCEPT !.wel = FALSE]
           locked == [chip EXCEPT !.locked = TRUE]
           unlocked == [chip EXCEPT !.locked = FALSE]
           Chips == [busy : BOOLEAN, wel : BOOLEAN, locked : BOOLEAN]
<1>1. mem \in [Pages -> Content] /\ chip \in Chips /\ d.page \in Pages /\ d.data \in Content
  BY DEF ChipType, TxTransfers
<1>2. blanked \in [Pages -> Content]
  <2>1. Blank \in Content
    BY DEF Blank, Content
  <2> QED BY <1>1, <2>1
<1>3. burnt \in [Pages -> Content]
  BY <1>1, ProgrammedType
<1>4. works \in Chips /\ on \in Chips /\ off \in Chips /\ locked \in Chips /\ unlocked \in Chips
  BY <1>1
<1>5. Effect(d, n) =
        CASE chip.busy -> <<mem, chip>>
          [] ~chip.busy /\ d.what = <<"on", 2>>      -> <<mem, on>>
          [] ~chip.busy /\ d.what = <<"off", 2>>     -> <<mem, off>>
          [] ~chip.busy /\ d.what = <<"unblock", 3>> -> <<mem, unlocked>>
          [] ~chip.busy /\ d.what = <<"off", 5>>     -> <<mem, locked>>
          [] ~chip.busy /\ (chip.wel /\ ~chip.locked) /\ d.what = <<"erase", 0>> -> <<blanked, works>>
          [] ~chip.busy /\ (chip.wel /\ ~chip.locked) /\ d.what = <<"data", 0>> -> <<burnt, works>>
          [] OTHER -> <<mem, chip>>
  BY DEF Effect
<1> HIDE DEF blanked, burnt, works, on, off, locked, unlocked, Chips
<1>6. \E m \in {mem, blanked, burnt}, c \in {chip, works, on, off, locked, unlocked} : Effect(d, n) = <<m, c>>
  BY <1>5
<1>7. \A m, c : <<m, c>>[1] = m /\ <<m, c>>[2] = c
  OBVIOUS
<1> QED BY <1>1, <1>2, <1>3, <1>4, <1>6, <1>7 DEF Chips

LEMMA SentType ==
  ASSUME ChipType, dma \in TxTransfers, NEW cut \in BOOLEAN, Sent(dma, cut)
  PROVE  /\ mem' \in [Pages -> Content]
         /\ chip' \in [busy : BOOLEAN, wel : BOOLEAN, locked : BOOLEAN]
         /\ sr1' = sr1 /\ buf' = buf
<1>1. PICK effect \in Effects(dma, cut) : mem' = effect[1] /\ chip' = effect[2]
  BY DEF Sent
<1>2. CASE effect = <<mem, chip>>
  BY <1>1, <1>2 DEF Sent, dataVars, ChipType
<1>3. CASE \E n : effect = Effect(dma, n)
  BY <1>1, <1>3, EffectType DEF Sent, dataVars
<1> QED BY <1>2, <1>3 DEF Effects

LEMMA ReceivedType ==
  ASSUME ChipType, dma \in RxStatuses \cup RxPages, NEW cut \in BOOLEAN, Received(dma, cut)
  PROVE  mem' = mem /\ chip' = chip /\ sr1' \in BOOLEAN /\ buf' \in [Slot -> Content]
<1>1. mem' = mem /\ chip' = chip
  BY DEF Received, chipVars
<1>2. CASE UNCHANGED dataVars
  BY <1>1, <1>2 DEF ChipType, dataVars
<1>3. CASE sr1' = chip.busy /\ UNCHANGED <<buf, got>>
  BY <1>1, <1>3 DEF ChipType
<1>4. CASE UNCHANGED <<sr1, buf>>
  BY <1>1, <1>4 DEF ChipType
<1>5. CASE /\ dma.what = <<"data", 0>> /\ dma.to # ToUser
           /\ buf' = [i \in Slot |-> IF i - dma.to \in 0 .. dma.len - 1 THEN PageRead(dma.page + i - dma.to) ELSE buf[i]]
           /\ UNCHANGED <<sr1, got>>
  <2>1. dma \in RxPages
    BY <1>5 DEF RxStatuses
  <2>2. /\ dma.page \in Pages /\ dma.len \in Nat \ {0} /\ dma.to \in Int
        /\ dma.page + dma.len - 1 \in Pages
    BY <2>1 DEF RxPages
  <2>3. Junk \in Content
    BY DEF Junk, Content
  <2>4. ASSUME NEW i \in Slot, i - dma.to \in 0 .. dma.len - 1
        PROVE  PageRead(dma.page + i - dma.to) \in Content
    <3>1. PICK z \in Nat : Pages = 0 .. z - 1
      BY PagesRange
    <3>2. \A a, n, j, to \in Int :
            a >= 0 /\ a + n - 1 <= z - 1 /\ j - to \in 0 .. n - 1 => a + j - to \in 0 .. z - 1
      BY <3>1
    <3>3. i \in Int
      BY FlashChipAssumption DEF Slot
    <3>4. /\ dma.page \in Int /\ dma.len \in Int /\ dma.to \in Int
          /\ dma.page >= 0 /\ dma.page + dma.len - 1 <= z - 1
      BY <2>2, <3>1
    <3>5. dma.page + i - dma.to \in 0 .. z - 1
      BY <2>4, <3>2, <3>3, <3>4
    <3>6. dma.page + i - dma.to \in Pages
      BY <3>1, <3>5
    <3> QED BY <2>3, <3>6 DEF PageRead, ChipType
  <2> QED BY <1>1, <1>5, <2>4 DEF ChipType
<1> QED BY <1>2, <1>3, <1>4, <1>5 DEF Received

LEMMA EndStep ==
  ASSUME DmaInv, dma # NoTransfer, NEW cut \in BOOLEAN, NEW e \in Async,
         IF dma.op = "tx" THEN Sent(dma, cut) ELSE Received(dma, cut),
         Interrupt(e), lates' = lates, faults' \in 0 .. MaxFaults
  PROVE  DmaInv'
<1>1. Control'
  BY InterruptStep DEF DmaInv
<1>2. ChipType
  BY DEF DmaInv
<1>3. dma' = NoTransfer /\ before' = before /\ requests' = requests
  BY DEF Interrupt, userVars
<1>4. CASE dma \in TxTransfers
  <2>1. Sent(dma, cut)
    BY <1>4 DEF TxTransfers
  <2> QED BY <1>1, <1>2, <1>3, <1>4, <2>1, SentType DEF DmaInv, ChipType, CountType, Transfers
<1>5. CASE dma \in RxStatuses \cup RxPages
  <2>1. Received(dma, cut)
    BY <1>5 DEF RxStatuses, RxPages
  <2> QED BY <1>1, <1>2, <1>3, <1>5, <2>1, ReceivedType DEF DmaInv, ChipType, CountType, Transfers
<1> QED BY <1>2, <1>4, <1>5 DEF ChipType, Transfers

LEMMA SpiStep ==
  ASSUME DmaInv, DmaDone \/ DmaError
  PROVE  DmaInv'
<1>1. "transmit" \in Async /\ "receive" \in Async /\ "error" \in Async
  BY DEF Async
<1>2. CASE DmaDone
  <2>1. dma # NoTransfer /\ faults' = faults /\ lates' = lates /\ faults \in 0 .. MaxFaults
    BY <1>2 DEF DmaDone, faultVars, DmaInv, CountType
  <2>2. dma.late \in BOOLEAN
    BY <2>1 DEF DmaInv, ChipType, Transfers, TxTransfers, RxStatuses, RxPages
  <2> QED BY <1>1, <1>2, <2>1, <2>2, EndStep DEF DmaDone
<1>3. CASE DmaError
  <2>1. dma # NoTransfer /\ faults' = faults + 1 /\ lates' = lates /\ faults + lates < MaxFaults
    BY <1>3 DEF DmaError
  <2>2. faults' \in 0 .. MaxFaults
    BY <2>1, DmaAssumption DEF DmaInv, CountType
  <2> QED BY <1>1, <1>3, <2>1, <2>2, EndStep DEF DmaError
<1> QED BY <1>2, <1>3

LEMMA ReadyStep ==
  ASSUME DmaInv, ChipReady
  PROVE  DmaInv'
<1>1. Control'
  BY IdleStep DEF ChipReady, fsmVars, DmaInv
<1>2. ChipType' /\ CountType'
  BY DEF ChipReady, DmaInv, ChipType, CountType, dataVars, userVars, faultVars
<1> QED BY <1>1, <1>2 DEF DmaInv

LEMMA StutterStep ==
  ASSUME DmaInv, UNCHANGED vars
  PROVE  DmaInv'
<1>1. Control'
  BY IdleStep DEF vars, fsmVars, DmaInv
<1>2. ChipType' /\ CountType'
  BY DEF vars, chipVars, DmaInv, ChipType, CountType, dataVars, userVars, faultVars
<1> QED BY <1>1, <1>2 DEF DmaInv

LEMMA DmaInit == Init => DmaInv
<1> SUFFICES ASSUME Init PROVE DmaInv
  OBVIOUS
<1>1. ChipType
  <2>1. Junk \in Content
    BY DEF Junk, Content
  <2> QED BY <2>1, DmaAssumption DEF Init, ChipType, Transfers
<1>2. CountType
  BY DmaAssumption DEF Init, CountType
<1>3. \A k \in Kinds : Start(k) \in StatesOf(k)
  BY ScriptFacts DEF Start, StatesOf, WriteStates, EraseStates
<1>4. FsmType
  BY <1>3 DEF Init, FsmType
<1>5. Shape
  BY DEF Init, Shape
<1>6. st["write"] = "init" /\ st["erase"] = "init"
  BY ScriptFacts DEF Init, Start
<1> QED BY <1>1, <1>2, <1>4, <1>5, <1>6 DEF Init, DmaInv, Control, OwnEvents, DoneState, WriteOk, EraseOk

\* The control of the driver and the types of its data, whatever transfer is
\* refused, fails or outlives its timer (w25qxx_dma.c:664-806): every route on
\* the stack but the top one waits in the state that called the next, the
\* stack never overflows, a machine has at most one event of its own, and no
\* address of a page leaves the chip, none of a slot the sector buffer.
THEOREM DmaControl == Spec => []DmaInv
<1>1. DmaInv /\ [Next]_vars => DmaInv'
  BY TickStep, RequestsStep, SpiStep, ReadyStep, StutterStep DEF Next
<1> QED BY <1>1, DmaInit, PTL DEF Spec

LEMMA InvTypes ==
  ASSUME DmaInv
  PROVE  TypeOK
<1>1. Len(stack) \in 0 .. Deepest
  <2>1. Len(stack) <= Deepest /\ Len(stack) \in Nat
    BY StackForm DEF DmaInv, Control, FsmType
  <2>2. \A m \in Nat : m <= Deepest => m \in 0 .. Deepest
    BY DEF Deepest
  <2> QED BY <2>1, <2>2
<1>2. \A i \in DOMAIN stack : stack[i].kind \in Kinds
  BY RouteKinds DEF DmaInv, Control, FsmType
<1>3. \A k \in Kinds : evs[k] \subseteq {"unblock", "success", "error", "timeout", "transmit", "receive",
                                           "next", "done", "erase", "write"}
  BY DEF DmaInv, Control, FsmType, Events, Async
<1> QED BY <1>1, <1>2, <1>3 DEF TypeOK, DmaInv, Control, FsmType, Shape, ChipType, CountType

\* The types of the driver's state, with the depth of the stack: five routes
\* at most, whatever fails (w25qxx_dma.c:701-711).
THEOREM DmaTypeOK == Spec => []TypeOK
BY DmaControl, InvTypes, PTL

-----------------------------------------------------------------------------
(* What FLASH_OK says of the neighbours.  As long as no transfer outlives  *)
(* its timer, every answer belongs to the question the machine on top has  *)
(* asked, and what it makes the machines do keeps every page they do not   *)
(* aim at, or holds it in the buffer.                                      *)

\* A route does what the route that waits for it has asked for.
Link(r, q) ==
    /\ r.kind = "write" /\ q.kind = "read" => q.addr = r.addr /\ q.len = r.len /\ q.rx = r.rx
    /\ r.kind = "write" /\ q.kind = "erase" => \A j \in DOMAIN q.list : q.list[j] \in Aimed(r)
    /\ r.kind = "erase" /\ q.kind = "read" =>
          q.addr = SectorOf(r.list[r.cnt + 1]) * PagesPerSector /\ q.len = PagesPerSector /\ q.rx = 0
    /\ r.kind = "erase" /\ q.kind = "write" =>
          /\ SectorOf(q.addr) = SectorOf(r.list[r.cnt + 1]) /\ SlotOf(q.addr) + 1 = r.idx
          /\ q.rx = SlotOf(r.list[r.cnt + 1])

Links == \A i \in 1 .. Len(stack) - 1 : Link(stack[i], stack[i + 1])

\* A transfer under way is the one that the machine on top has started.
Sync ==
    dma # NoTransfer =>
       /\ main = "run" /\ evs[Top.kind] = {} /\ dma.late = FALSE
       /\ \/ Top.kind = "free" /\ st["free"] = "free" /\ dma \in {Tx(<<"sr1", 0>>, 0), RxStatus}
          \/ /\ Top.kind \in DOMAIN Script /\ st[Top.kind] > 0 /\ Script[Top.kind][st[Top.kind]] # "free"
             /\ \/ dma = Tx(<<Top.kind, st[Top.kind]>>, 0)
                \/ Top.kind = "read" /\ dma = RxData(Top)
          \/ Top.kind = "write" /\ st["write"] = "cmd" /\ dma = Tx(<<"program", 0>>, 0)
          \/ /\ Top.kind = "write" /\ st["write"] = "data"
             /\ dma = TxData(Top.addr + Top.cnt - 1, TxPage(Top, Top.cnt - 1))
          \/ /\ Top.kind = "erase" /\ st["erase"] = "erase"
             /\ dma = Tx(<<"erase", 0>>, ListSector * PagesPerSector)

\* Only the machine that runs has an event, and only one.
Quiet ==
    \A k \in Kinds :
       /\ evs[k] # {} => main = "run" /\ Top.kind = k
       /\ \A e, f \in evs[k] : e = f

\* When FREE succeeds the chip is ready, and it stays so until READ has read.
FreeTells ==
    /\ st["free"] = "free" /\ "receive" \in evs["free"] /\ ~sr1 => ~chip.busy
    /\ st["free"] = "free" /\ "success" \in evs["free"] => ~chip.busy
    /\ main = "done" /\ Top.kind = "free" /\ res = Ok => ~chip.busy
    /\ main \in {"router", "run"} /\ stack # <<>> /\ Top.kind = "read" /\ st["read"] = 1 /\ res = Ok => ~chip.busy
    /\ st["read"] = 1 /\ "success" \in evs["read"] => ~chip.busy
    /\ st["read"] = 2 => ~chip.busy

Filled(r) == r.rx # ToUser => \A i \in 0 .. r.len - 1 : buf[r.rx + i] = mem[r.addr + i]

\* When READ succeeds the buffer holds what it was to read.
ReadTells ==
    /\ st["read"] = 2 /\ "receive" \in evs["read"] => Filled(Top)
    /\ main = "done" /\ Top.kind = "read" /\ res = Ok => Filled(Top)

Timely == Sync /\ Quiet /\ FreeTells /\ ReadTells

Others == Pages \ Aimed(stack[1])

\* The pages of the sector at which route r, an ERASE, is that the request
\* does not aim at
Beside(r) == {p \in Others : SectorOf(p) = SectorOf(r.list[r.cnt + 1])}

\* What a page that is being programmed with c can hold
Partly(c) == {x \in Content : \A i \in Offsets : x[i] \in {c[i], Erased}}

Kept(p)  == mem[p] = before[p]
Saved(p) == buf[SlotOf(p)] = before[p] /\ mem[p] \in Partly(before[p])
Whole    == \A p \in Others : Kept(p)

\* Route i erases a sector or puts its pages back: the buffer has them, and
\* those before idx are back, but for the one that is being put back.
Torn(i) ==
    /\ stack[i].kind = "erase" /\ st["erase"] \in {"erase", "repair"}
    /\ \A p \in Others \ Beside(stack[i]) : Kept(p)
    /\ \A p \in Beside(stack[i]) : Saved(p)
    /\ st["erase"] = "repair" /\ i < Len(stack) =>
          \A p \in Beside(stack[i]) : SlotOf(p) + 1 < stack[i].idx => Kept(p)
    /\ st["erase"] = "repair" /\ i = Len(stack) /\ res = Ok =>
          \A p \in Beside(stack[i]) : SlotOf(p) < stack[i].idx => Kept(p)

\* An erase has failed, and the request fails with it.
Doomed ==
    /\ res # Ok
    /\ \/ main = "done" /\ (Len(stack) = 1 \/ (Len(stack) = 2 /\ Top.kind = "erase"))
       \/ Len(stack) = 1 /\ Top.kind = "write" /\ st["write"] = "erase" /\ evs["write"] \subseteq {"error"}

Pieces ==
    stack # <<>> =>
       IF st["erase"] \in {"erase", "repair"} THEN \E i \in 1 .. Len(stack) : Torn(i) ELSE Whole \/ Doomed

\* What ERASE has read of the sector is there when it erases it, and it goes
\* on only after what has succeeded.
BufHolds(r) == \A p \in Beside(r) : buf[SlotOf(p)] = mem[p]
Looked ==
    /\ stack # <<>> /\ Top.kind = "erase" /\ st["erase"] = "cmp" /\ res = Ok => BufHolds(Top)
    /\ st["erase"] = "enable" => \A i \in 1 .. Len(stack) : stack[i].kind = "erase" => BufHolds(stack[i])
    /\ st["erase"] = "cmp" /\ "erase" \in evs["erase"] => res = Ok
    /\ st["erase"] = "repair" /\ "write" \in evs["erase"] => res = Ok
    /\ st["erase"] = "repair" /\ "success" \in evs["erase"] => Whole

\* The WRITE of a neighbour succeeds only when the page is back.
PutBack ==
    stack # <<>> /\ Nested /\ Top.kind = "write" =>
       /\ st["write"] = "cmp" => buf[Top.rx] = mem[Top.addr]
       /\ st["write"] = "cmp" /\ evs["write"] \cap {"next", "done"} # {} => mem[Top.addr] = buf[SlotOf(Top.addr)]
       /\ main = "done" /\ res = Ok => mem[Top.addr] = buf[SlotOf(Top.addr)]

Safe == Pieces /\ Looked /\ PutBack

Calm == Links /\ Timely /\ Safe

CalmInv == DmaInv /\ (lates = 0 => Calm)

-----------------------------------------------------------------------------
(* Three forms of a step of the machine on top, when nothing is late       *)

Turns(s, E) ==
    /\ main = "run" /\ dma = NoTransfer /\ UNCHANGED <<mem, chip, buf, before>>
    /\ \A k \in Kinds : st'[k] = IF k = Top.kind THEN s ELSE st[k]
    /\ \A k \in Kinds : evs'[k] = IF k = Top.kind THEN E ELSE {}
    /\ \A e, f \in E : e = f
    /\ "receive" \notin E
    /\ BelowKept

Stays(s, E) == Turns(s, E) /\ main' = "run" /\ Len(stack') = Len(stack) /\ Same(Top, Top')

Asks(s) ==
    /\ Turns(s, {}) /\ main' = "router" /\ dma' = NoTransfer /\ res' = res
    /\ Len(stack') = Len(stack) + 1 /\ Same(Top, stack'[Len(stack)])

Leaves(s) == Turns(s, {}) /\ main' = "done" /\ dma' = NoTransfer /\ stack' = stack

LEMMA Turned ==
  ASSUME DmaInv, Quiet, main = "run", Still, dma = NoTransfer, buf' = buf, BelowKept,
         NEW s, NEW E, To(Top.kind, s, E), \A e, f \in E : e = f, "receive" \notin E
  PROVE  Turns(s, E)
<1>1. Top.kind \in Kinds
  BY TopIs DEF DmaInv
<1>2. st = [k \in Kinds |-> st[k]] /\ evs \in [Kinds -> SUBSET Events]
  BY DEF DmaInv, Control, FsmType
<1> DEFINE c == Top.kind
<1>3. st' = [st EXCEPT ![c] = s] /\ evs' = [evs EXCEPT ![c] = E] /\ c \in Kinds
  BY <1>1 DEF To
<1>4. \A k \in Kinds : k # c => evs[k] = {}
  BY DEF Quiet
<1> HIDE DEF c
<1>5. \A k \in Kinds : st'[k] = IF k = c THEN s ELSE st[k]
  BY <1>2, <1>3
<1>6. \A k \in Kinds : evs'[k] = IF k = c THEN E ELSE {}
  BY <1>2, <1>3, <1>4
<1> QED BY <1>5, <1>6 DEF Turns, c, Still, chipVars, userVars

\* Handlers and transitions run when nothing is under way: their events come
\* from transfers that have ended, or from timers of which none runs out.
LEMMA NothingUnderWay ==
  ASSUME DmaInv, Sync, main = "run", lates = 0, lates' = 0,
         evs[Top.kind] # {} \/ TimedOut
  PROVE  dma = NoTransfer
<1>1. CASE evs[Top.kind] # {}
  BY <1>1 DEF Sync
<1>2. CASE TimedOut
  BY <1>2 DEF TimedOut
<1> QED BY <1>1, <1>2

LEMMA StayTimely ==
  ASSUME DmaInv, Timely, NEW s, NEW E, Stays(s, E),
         dma' # NoTransfer => Sync',
         Top.kind = "free" /\ s = "free" /\ "success" \in E => ~chip.busy,
         Top.kind = "read" /\ s = 1 /\ (res' = Ok \/ "success" \in E) => ~chip.busy,
         Top.kind = "read" /\ s = 2 => ~chip.busy
  PROVE  Timely'
<1>1. Top.kind \in Kinds /\ Len(stack) \in Nat \ {0}
  BY TopIs DEF DmaInv, Stays, Turns
<1>2. Top'.kind = Top.kind /\ main' = "run" /\ chip' = chip
  BY DEF Stays, Turns, Same
<1>3. "free" \in Kinds /\ "read" \in Kinds
  BY ScriptFacts
<1>4. Sync'
  BY DEF Sync
<1>5. Quiet'
  BY <1>2 DEF Quiet, Stays, Turns
<1>6. st["read"] = 2 => ~chip.busy
  BY DEF Timely, FreeTells
<1>7. st'["free"] = "free" /\ "success" \in evs'["free"] => ~chip.busy
  BY <1>1, <1>3 DEF Stays, Turns
<1>8. st'["read"] = 2 => ~chip.busy
  BY <1>1, <1>3, <1>6 DEF Stays, Turns
<1>9. st'["read"] = 1 /\ "success" \in evs'["read"] => ~chip.busy
  BY <1>1, <1>3 DEF Stays, Turns
<1>10. Top'.kind = "read" /\ st'["read"] = 1 /\ res' = Ok => ~chip.busy
  BY <1>1, <1>2, <1>3 DEF Stays, Turns
<1>11. "receive" \notin evs'["free"] /\ "receive" \notin evs'["read"]
  BY <1>1, <1>3 DEF Stays, Turns
<1>12. FreeTells'
  BY <1>2, <1>7, <1>8, <1>9, <1>10, <1>11 DEF FreeTells
<1>13. ReadTells'
  BY <1>2, <1>11 DEF ReadTells
<1> QED BY <1>4, <1>5, <1>12, <1>13 DEF Timely

LEMMA AskTimely ==
  ASSUME DmaInv, Timely, NEW s, Asks(s),
         Top.kind = "read" /\ s = 2 => ~chip.busy,
         Top'.kind = "read" => st'["read"] = 0
  PROVE  Timely'
<1>1. Top.kind \in Kinds
  BY TopIs DEF DmaInv, Asks, Turns
<1>2. main' = "router" /\ chip' = chip /\ dma' = NoTransfer
  BY DEF Asks, Turns
<1>3. "free" \in Kinds /\ "read" \in Kinds
  BY ScriptFacts
<1>4. \A k \in Kinds : evs'[k] = {}
  BY DEF Asks, Turns
<1>5. st["read"] = 2 => ~chip.busy
  BY DEF Timely, FreeTells
<1>6. st'["read"] = 2 => ~chip.busy
  BY <1>1, <1>3, <1>5 DEF Asks, Turns
<1>7. FreeTells'
  BY <1>2, <1>3, <1>4, <1>6 DEF FreeTells
<1>8. Sync' /\ Quiet' /\ ReadTells'
  BY <1>2, <1>3, <1>4 DEF Sync, Quiet, ReadTells
<1> QED BY <1>7, <1>8 DEF Timely

LEMMA LeaveTimely ==
  ASSUME DmaInv, Timely, NEW s, Leaves(s), s = Start(Top.kind) \/ Top.kind = "write",
         Top.kind = "free" /\ res' = Ok => ~chip.busy,
         Top.kind = "read" /\ res' = Ok => Filled(Top)
  PROVE  Timely'
<1>1. Top.kind \in Kinds
  BY TopIs DEF DmaInv, Leaves, Turns
<1>2. main' = "done" /\ chip' = chip /\ dma' = NoTransfer /\ stack' = stack /\ buf' = buf /\ mem' = mem
  BY DEF Leaves, Turns
<1>3. "free" \in Kinds /\ "read" \in Kinds /\ "read" \in DOMAIN Script
  BY ScriptFacts
<1>4. \A k \in Kinds : evs'[k] = {}
  BY DEF Leaves, Turns
<1>5. st["read"] = 2 => ~chip.busy
  BY DEF Timely, FreeTells
<1>6. Start("read") = 0
  BY <1>3 DEF Start
<1>7. st'["read"] = 2 => ~chip.busy
  BY <1>1, <1>3, <1>5, <1>6 DEF Leaves, Turns
<1>8. Top' = Top
  BY <1>2 DEF Top
<1>9. FreeTells'
  BY <1>2, <1>3, <1>4, <1>7, <1>8 DEF FreeTells
<1>10. ReadTells'
  BY <1>2, <1>3, <1>4, <1>8 DEF ReadTells, Filled
<1>11. Sync' /\ Quiet'
  BY <1>2, <1>4 DEF Sync, Quiet
<1> QED BY <1>9, <1>10, <1>11 DEF Timely

LEMMA LinkSame ==
  ASSUME NEW r, NEW q, NEW t, Link(r, q), Same(q, t)
  PROVE  Link(r, t)
BY DEF Link, Same

LEMMA StayLinks ==
  ASSUME DmaInv, Links, NEW s, NEW E, Stays(s, E)
  PROVE  Links'
<1> DEFINE n == Len(stack)
<1>1. n \in Nat \ {0} /\ Top = stack[n]
  BY TopIs DEF DmaInv, Stays, Turns
<1>2. Len(stack') = n /\ Same(stack[n], stack'[n]) /\ \A i \in 1 .. n - 1 : stack'[i] = stack[i]
  BY DEF Stays, Turns, BelowKept, Top
<1>3. \A i \in 1 .. n - 1 : Link(stack[i], stack[i + 1])
  BY DEF Links
<1> HIDE DEF n
<1>4. ASSUME NEW i \in 1 .. n - 1 PROVE Link(stack'[i], stack'[i + 1])
  <2>1. i + 1 = n \/ i + 1 \in 1 .. n - 1
    BY <1>1
  <2> QED BY <2>1, <1>2, <1>3, LinkSame
<1> QED BY <1>2, <1>4 DEF Links

LEMMA AskLinks ==
  ASSUME DmaInv, Links, NEW s, Asks(s), Link(stack'[Len(stack)], Top')
  PROVE  Links'
<1> DEFINE n == Len(stack)
<1>1. n \in Nat \ {0} /\ Top = stack[n]
  BY TopIs DEF DmaInv, Asks, Turns
<1>2. /\ Len(stack') = n + 1 /\ Same(stack[n], stack'[n]) /\ \A i \in 1 .. n - 1 : stack'[i] = stack[i]
      /\ Link(stack'[n], stack'[n + 1])
  BY <1>1 DEF Asks, Turns, BelowKept, Top
<1>3. \A i \in 1 .. n - 1 : Link(stack[i], stack[i + 1])
  BY DEF Links
<1> HIDE DEF n
<1>4. ASSUME NEW i \in 1 .. n PROVE Link(stack'[i], stack'[i + 1])
  <2>1. i = n \/ (i \in 1 .. n - 1 /\ (i + 1 = n \/ i + 1 \in 1 .. n - 1))
    BY <1>1
  <2> QED BY <2>1, <1>2, <1>3, LinkSame
<1>5. Len(stack') - 1 = n
  BY <1>1, <1>2
<1> QED BY <1>4, <1>5 DEF Links

LEMMA LeaveLinks ==
  ASSUME Links, NEW s, Leaves(s)
  PROVE  Links'
BY DEF Links, Leaves

\* Turning, a machine keeps what the request aims at, and the routes below.
LEMMA TurnKeeps ==
  ASSUME DmaInv, NEW s,
         (\E E : Stays(s, E)) \/ Asks(s) \/ Leaves(s)
  PROVE  /\ Len(stack) \in Nat \ {0} /\ Len(stack') \in {Len(stack), Len(stack) + 1} /\ stack' # <<>>
         /\ stack \in Seq(Routes) /\ Top = stack[Len(stack)] /\ Top \in Routes /\ Top.kind \in Kinds
         /\ mem' = mem /\ buf' = buf /\ before' = before
         /\ \A i \in 1 .. Len(stack) - 1 : stack'[i] = stack[i] /\ stack[i].kind \in {"read", "write", "erase", "unblock", "on", "off"}
         /\ Same(stack[Len(stack)], stack'[Len(stack)])
         /\ Others' = Others
<1> DEFINE n == Len(stack)
<1>1. /\ n \in Nat \ {0} /\ n \in 1 .. n /\ Top = stack[n] /\ stack \in Seq(Routes)
      /\ Top \in Routes /\ Top.kind \in Kinds
  BY TopIs DEF DmaInv, Stays, Asks, Leaves, Turns
<1>2. Len(stack') \in {n, n + 1} /\ mem' = mem /\ buf' = buf /\ before' = before
  BY DEF Stays, Asks, Leaves, Turns
<1>3. \A i \in 1 .. n - 1 : stack'[i] = stack[i]
  BY DEF Stays, Asks, Leaves, Turns, BelowKept
<1>4. Same(stack[n], stack'[n])
  <2>1. CASE \E E : Stays(s, E)
    BY <2>1, <1>1 DEF Stays, Top
  <2>2. CASE Asks(s)
    BY <2>2, <1>1 DEF Asks
  <2>3. CASE Leaves(s)
    BY <2>3 DEF Leaves, Same
  <2> QED BY <2>1, <2>2, <2>3
<1>5. \A i \in 1 .. n - 1 : stack[i].kind \in {"read", "write", "erase", "unblock", "on", "off"}
  BY StackForm, ScriptFacts DEF DmaInv, Control, FsmType
<1>6. stack[1].kind \in {"read", "write", "erase"}
  BY <1>1 DEF DmaInv, Control, Shape
<1> HIDE DEF n
<1>7. stack' # <<>>
  BY <1>1, <1>2
<1>8. stack'[1] = stack[1] \/ Same(stack[1], stack'[1])
  <2>1. n = 1 \/ 1 \in 1 .. n - 1
    BY <1>1
  <2> QED BY <2>1, <1>3, <1>4
<1>9. Aimed(stack'[1]) = Aimed(stack[1])
  BY <1>6, <1>8 DEF Same, Aimed
<1>10. Others' = Others
  BY <1>9 DEF Others
<1> QED BY <1>1, <1>2, <1>3, <1>4, <1>5, <1>7, <1>10 DEF n

\* A page is partly programmed with c when it holds c or nothing yet; with
\* nothing but erased bytes it is blank.
LEMMA PartlyFacts ==
  /\ \A c \in Content : c \in Partly(c) /\ Blank \in Partly(c)
  /\ \A x \in Partly(Blank) : x = Blank
<1>1. Blank \in Content
  BY DEF Blank, Content
<1>2. ASSUME NEW c \in Content
      PROVE  c \in Partly(c) /\ Blank \in Partly(c)
  <2>1. \A i \in Offsets : Blank[i] = Erased
    BY DEF Blank
  <2> QED BY <1>1, <2>1 DEF Partly
<1>3. ASSUME NEW x \in Partly(Blank)
      PROVE  x = Blank
  <2>1. x \in Content /\ \A i \in Offsets : x[i] = Erased
    BY DEF Partly, Blank
  <2>2. x = [i \in Offsets |-> x[i]]
    BY <2>1 DEF Content
  <2> QED BY <2>1, <2>2 DEF Blank
<1> QED BY <1>2, <1>3

\* What is kept is saved once the buffer has it.
LEMMA KeptIsSaved ==
  ASSUME ChipType, NEW p \in Pages, Kept(p)
  PROVE  mem[p] \in Partly(before[p])
BY PartlyFacts DEF Kept, ChipType

\* Two routes on the stack are of a kind only if they are WRITEs.
LEMMA OneErase ==
  ASSUME Control, NEW i \in 1 .. Len(stack), NEW j \in 1 .. Len(stack),
         stack[i].kind = "erase", stack[j].kind = "erase"
  PROVE  i = j
<1>1. \A a, b \in 1 .. Len(stack) : a < b /\ stack[a].kind = stack[b].kind => a = 1 /\ b = 3 /\ Twice
  BY StackForm DEF Control, FsmType
<1>2. ~(i < j) /\ ~(j < i)
  BY <1>1 DEF Twice
<1>3. i \in Nat /\ j \in Nat
  OBVIOUS
<1> QED BY <1>2, <1>3

\* A route below the top stays as torn as it is while another machine turns.
LEMMA TornBelow ==
  ASSUME NEW i \in Nat, Torn(i), i < Len(stack), i < Len(stack'), stack'[i] = stack[i],
         mem' = mem, buf' = buf, before' = before, Others' = Others, st'["erase"] = st["erase"]
  PROVE  Torn(i)'
<1>1. \A p : p \in Beside(stack[i])' <=> p \in Beside(stack[i])
  BY DEF Beside
<1>2. \A p : (Kept(p)' <=> Kept(p)) /\ (Saved(p)' <=> Saved(p))
  BY DEF Kept, Saved
<1>3. i # Len(stack') /\ i \in Nat
  OBVIOUS
<1>4. \A p : p \in Others' <=> p \in Others
  OBVIOUS
<1> QED BY <1>1, <1>2, <1>3, <1>4 DEF Torn, Beside, Kept, Saved

\* The turn of a machine that is neither WRITE nor ERASE
LEMMA InnerSafe ==
  ASSUME DmaInv, Safe, NEW s, Top.kind \notin {"write", "erase"}, main = "run",
         \/ \E E : Stays(s, E)
         \/ Asks(s) /\ Top'.kind = "free"
         \/ Leaves(s)
  PROVE  Safe'
<1> DEFINE n == Len(stack)
<1>1. /\ n \in Nat \ {0} /\ Len(stack') \in {n, n + 1} /\ stack # <<>> /\ stack' # <<>> /\ Top = stack[n]
      /\ mem' = mem /\ buf' = buf /\ before' = before /\ Others' = Others
      /\ \A i \in 1 .. n - 1 : stack'[i] = stack[i]
  BY TurnKeeps, TopIs DEF DmaInv
<1>2. Top'.kind \notin {"write", "erase"}
  BY DEF Stays, Leaves, Same, Top
<1>3. st'["erase"] = st["erase"] /\ evs'["erase"] = {} /\ evs'["write"] = {}
  BY ScriptFacts DEF Stays, Asks, Leaves, Turns
<1> HIDE DEF n
<1>4. \A i \in 1 .. Len(stack') : stack'[i].kind = "erase" => i \in 1 .. n - 1 /\ stack[i].kind = "erase"
  <2> SUFFICES ASSUME NEW i \in 1 .. Len(stack'), stack'[i].kind = "erase"
               PROVE  i \in 1 .. n - 1 /\ stack[i].kind = "erase"
    OBVIOUS
  <2>1. i # Len(stack')
    BY <1>2 DEF Top
  <2>2. Len(stack') = n => i \in 1 .. n - 1
    BY <1>1, <2>1
  <2>3. Len(stack') = n + 1 => i \in 1 .. n - 1
    <3>1. SUFFICES ASSUME Len(stack') = n + 1 PROVE i # n
      BY <1>1, <2>1
    <3>2. Same(stack[n], stack'[n])
      BY TurnKeeps DEF n
    <3> QED BY <3>2, <1>1 DEF Same
  <2> QED BY <1>1, <2>2, <2>3
<1>5. \A i \in 1 .. n - 1 : i < Len(stack) /\ i < Len(stack') /\ i \in 1 .. Len(stack')
  BY <1>1 DEF n
<1>6. ASSUME NEW i \in 1 .. n, Torn(i) PROVE i \in 1 .. n - 1 /\ Torn(i)'
  <2>1. i \in 1 .. n - 1
    BY <1>1, <1>6 DEF Torn
  <2>2. stack'[i] = stack[i] /\ i < Len(stack) /\ i < Len(stack')
    BY <2>1, <1>1, <1>5
  <2> QED BY <1>1, <1>3, <1>6, <2>1, <2>2, TornBelow
<1>7. Pieces'
  <2>1. CASE st["erase"] \in {"erase", "repair"}
    <3>1. PICK i \in 1 .. n : Torn(i)
      BY <2>1, <1>1 DEF Safe, Pieces, n
    <3> QED BY <3>1, <1>3, <1>5, <1>6, <2>1 DEF Pieces
  <2>2. CASE st["erase"] \notin {"erase", "repair"}
    <3>1. Whole \/ Doomed
      BY <2>2, <1>1 DEF Safe, Pieces
    <3>2. Whole
      BY <3>1 DEF Doomed
    <3>3. Whole'
      BY <3>2, <1>1 DEF Whole, Kept
    <3> QED BY <3>3, <2>2, <1>3 DEF Pieces
  <2> QED BY <2>1, <2>2
<1>8. Looked'
  <2>1. ASSUME st["erase"] = "enable", NEW i \in 1 .. Len(stack'), stack'[i].kind = "erase"
        PROVE  BufHolds(stack[i])'
    <3>1. i \in 1 .. n - 1 /\ stack[i].kind = "erase" /\ i \in 1 .. Len(stack)
      BY <1>1, <1>4, <2>1 DEF n
    <3>2. BufHolds(stack[i])
      BY <2>1, <3>1 DEF Safe, Looked
    <3> QED BY <3>1, <3>2, <1>1 DEF BufHolds, Beside
  <2> QED BY <2>1, <1>2, <1>3 DEF Looked
<1>9. PutBack'
  BY <1>2 DEF PutBack
<1> QED BY <1>7, <1>8, <1>9 DEF Safe

\* The turn of WRITE's machine.  Below a WRITE that puts a neighbour back an
\* ERASE waits; the WRITE of a request may wait for an ERASE that has failed.
LEMMA WriteSafe ==
  ASSUME DmaInv, Safe, NEW s, Top.kind = "write", main = "run",
         \/ \E E : /\ Stays(s, E)
                   /\ Doomed => s = "erase" /\ E \subseteq {"error"} /\ res' # Ok
                   /\ Nested /\ s = "cmp" =>
                         /\ st["write"] = "cmp"
                         /\ E \cap {"next", "done"} # {} => mem[Top.addr] = buf[SlotOf(Top.addr)]
         \/ Asks(s) /\ ~Doomed /\ Top'.kind # "write" /\ (Top'.kind = "erase" => ~Nested)
         \/ /\ Leaves(s) /\ s # "cmp" /\ (Doomed => res' # Ok)
            /\ Nested /\ res' = Ok => mem[Top.addr] = buf[SlotOf(Top.addr)]
  PROVE  Safe'
<1> DEFINE n == Len(stack)
<1>1. /\ n \in Nat \ {0} /\ Len(stack') \in {n, n + 1} /\ stack # <<>> /\ stack' # <<>> /\ Top = stack[n]
      /\ mem' = mem /\ buf' = buf /\ before' = before /\ Others' = Others
      /\ Same(stack[n], stack'[n])
      /\ \A i \in 1 .. n - 1 : stack'[i] = stack[i]
  BY TurnKeeps, TopIs DEF DmaInv
<1>2. st'["erase"] = st["erase"] /\ evs'["erase"] = {} /\ st'["write"] = s
  BY ScriptFacts DEF Stays, Asks, Leaves, Turns
<1>3. Asks(s) <=> Len(stack') = n + 1
  BY <1>1 DEF Stays, Asks, Leaves
<1>4. \A i \in 1 .. n - 1 : i < Len(stack) /\ i < Len(stack') /\ i \in 1 .. Len(stack') /\ i \in 1 .. Len(stack)
  BY <1>1
<1>5. Len(stack') = n + 1 /\ Top'.kind = "erase" => st["erase"] = "init"
  <2> SUFFICES ASSUME Asks(s), Top'.kind = "erase" PROVE st["erase"] = "init"
    BY <1>3
  <2>0. ~Nested
    BY <1>1 DEF Stays, Leaves, Asks
  <2>1. Len(stack) = 1
    <3>1. \A m \in Nat \ {0} : ~(m > 1) => m = 1
      OBVIOUS
    <3>2. ~(Len(stack) > 1)
      BY <2>0 DEF Nested
    <3> QED BY <1>1, <3>1, <3>2
  <2>2. ~OnStack("erase")
    BY <1>1, <2>1 DEF OnStack, Top
  <2> QED BY <2>2, ScriptFacts DEF DmaInv, Control, Shape, Start
<1>6. ASSUME NEW i \in 1 .. Len(stack'), stack'[i].kind = "erase"
      PROVE  \/ i \in 1 .. n - 1 /\ stack'[i] = stack[i]
             \/ st["erase"] = "init"
  <2>1. i # n
    BY <1>1, <1>6 DEF Same
  <2>2. i \in 1 .. n - 1 \/ (i = n + 1 /\ Len(stack') = n + 1)
    BY <1>1, <2>1
  <2>3. i = n + 1 /\ Len(stack') = n + 1 => Top'.kind = "erase"
    BY <1>6 DEF Top
  <2> QED BY <1>1, <1>5, <2>2, <2>3
<1>7. Top'.kind = "erase" => st["erase"] = "init"
  <2>1. Len(stack') = n => Top'.kind = "write"
    BY <1>1 DEF Top, Same
  <2> QED BY <1>1, <1>5, <2>1
<1>8. Pieces'
  <2>1. CASE st["erase"] \in {"erase", "repair"}
    <3>1. PICK i \in 1 .. n : Torn(i)
      BY <2>1, <1>1 DEF Safe, Pieces
    <3>2. i \in 1 .. n - 1
      BY <3>1, <1>1 DEF Torn
    <3>3. Torn(i)'
      BY <3>1, <3>2, <1>1, <1>2, <1>4, TornBelow
    <3> QED BY <3>2, <3>3, <1>2, <1>4, <2>1 DEF Pieces
  <2>2. CASE st["erase"] \notin {"erase", "repair"}
    <3>1. Whole \/ Doomed
      BY <2>2, <1>1 DEF Safe, Pieces
    <3>2. CASE Whole
      <4>1. Whole'
        BY <3>2, <1>1 DEF Whole, Kept
      <4> QED BY <4>1, <2>2, <1>2 DEF Pieces
    <3>3. CASE Doomed
      <4>1. n = 1
        BY <3>3 DEF Doomed
      <4>2. CASE \E E : Stays(s, E) /\ s = "erase" /\ E \subseteq {"error"} /\ res' # Ok
        <5>1. Len(stack') = 1 /\ Top'.kind = "write" /\ evs'["write"] \subseteq {"error"}
          BY <4>1, <4>2, ScriptFacts DEF Stays, Turns, Same
        <5>2. Doomed'
          BY <5>1, <4>2, <1>2 DEF Doomed
        <5> QED BY <5>2, <2>2, <1>2 DEF Pieces
      <4>3. CASE Leaves(s) /\ res' # Ok
        <5>1. Doomed'
          BY <4>1, <4>3 DEF Doomed, Leaves
        <5> QED BY <5>1, <2>2, <1>2 DEF Pieces
      <4> QED BY <3>3, <4>2, <4>3
    <3> QED BY <3>1, <3>2, <3>3
  <2> QED BY <2>1, <2>2
<1>9. Looked'
  <2>1. ASSUME st["erase"] = "enable", NEW i \in 1 .. Len(stack'), stack'[i].kind = "erase"
        PROVE  BufHolds(stack'[i])
    <3>1. i \in 1 .. n - 1 /\ stack'[i] = stack[i] /\ i \in 1 .. Len(stack)
      BY <1>4, <1>6, <2>1
    <3>2. BufHolds(stack[i])
      BY <2>1, <3>1 DEF Safe, Looked
    <3> QED BY <3>1, <3>2
  <2>2. \A r : (\A p \in Beside(r) : buf[SlotOf(p)] = mem[p]) => (\A p \in Others' : SectorOf(p) = SectorOf(r.list[r.cnt + 1]) => buf'[SlotOf(p)] = mem'[p])
    BY <1>1 DEF Beside
  <2>3. st["erase"] = "enable" => \A i \in 1 .. Len(stack') : stack'[i].kind = "erase" =>
           \A p \in Others' : SectorOf(p) = SectorOf(stack'[i].list[stack'[i].cnt + 1]) => buf'[SlotOf(p)] = mem'[p]
    BY <2>1, <2>2 DEF BufHolds
  <2> QED BY <2>3, <1>2, <1>7 DEF Looked, BufHolds, Beside
<1>10. PutBack'
  <2> SUFFICES ASSUME Nested', Top'.kind = "write"
               PROVE  /\ s = "cmp" => buf'[Top'.rx] = mem'[Top'.addr]
                      /\ s = "cmp" /\ evs'["write"] \cap {"next", "done"} # {} => mem'[Top'.addr] = buf'[SlotOf(Top'.addr)]
                      /\ main' = "done" /\ res' = Ok => mem'[Top'.addr] = buf'[SlotOf(Top'.addr)]
    BY <1>2 DEF PutBack
  <2>1. ~Asks(s)
    BY <1>1 DEF Stays, Leaves, Asks
  <2>2. Len(stack') = n
    BY <1>1, <1>3, <2>1
  <2>3. Nested /\ Top'.rx = Top.rx /\ Top'.addr = Top.addr
    BY <1>1, <2>2 DEF Nested, Top, Same
  <2>4. st["write"] = "cmp" => buf[Top.rx] = mem[Top.addr]
    BY <1>1, <2>3 DEF Safe, PutBack
  <2>5. CASE \E E : Stays(s, E) /\ (s = "cmp" => st["write"] = "cmp"
                                       /\ (E \cap {"next", "done"} # {} => mem[Top.addr] = buf[SlotOf(Top.addr)]))
    <3>1. PICK E : Stays(s, E) /\ (s = "cmp" => st["write"] = "cmp"
                                       /\ (E \cap {"next", "done"} # {} => mem[Top.addr] = buf[SlotOf(Top.addr)]))
      BY <2>5
    <3>2. evs'["write"] = E /\ main' = "run"
      BY <3>1, ScriptFacts DEF Stays, Turns
    <3> QED BY <1>1, <2>3, <2>4, <3>1, <3>2
  <2>6. CASE s # "cmp" /\ (res' = Ok => mem[Top.addr] = buf[SlotOf(Top.addr)])
    BY <1>1, <2>3, <2>6
  <2> QED BY <2>1, <2>3, <2>5, <2>6
<1> QED BY <1>8, <1>9, <1>10 DEF Safe

\* Where ERASE is on the stack, and what the machine of WRITE does meanwhile
LEMMA EraseTopForm ==
  ASSUME Control, main = "run", Top.kind = "erase"
  PROVE  /\ Len(stack) \in {1, 2} /\ (Len(stack) = 2 => stack[1].kind = "write")
         /\ st["write"] \in {"init", "erase"}
         /\ Len(stack) = 2 => st["write"] = "erase"
         /\ \A i \in 1 .. Len(stack) : stack[i].kind = "erase" => i = Len(stack)
<1> DEFINE n == Len(stack)
<1>1. n \in Nat \ {0} /\ n \in 1 .. n /\ stack # <<>> /\ Top = stack[n]
  BY TopIs
<1>2. \A i \in 2 .. n : stack[i].kind = "erase" => i = 2 /\ stack[1].kind = "write"
  BY DEF Control, Shape
<1>3. \A i \in 1 .. n : stack[i].kind = "erase" => i = n
  BY <1>1, OneErase
<1> HIDE DEF n
<1>4. n \in {1, 2} /\ (n = 2 => stack[1].kind = "write")
  <2>1. n = 1 \/ n \in 2 .. n
    BY <1>1
  <2> QED BY <2>1, <1>1, <1>2
<1>5. CASE n = 1
  <2>1. ~OnStack("write")
    BY <1>1, <1>5 DEF OnStack, n
  <2> QED BY <2>1, <1>3, <1>4, <1>5, ScriptFacts DEF Control, Shape, Start, n
<1>6. CASE n = 2
  <2>1. Waits(stack[1].kind, st[stack[1].kind], stack[2].kind)
    <3>1. Len(stack) = 2 /\ 1 \in 1 .. Len(stack) - 1 /\ ~Twice
      BY <1>6 DEF n, Twice
    <3> QED BY <3>1 DEF Control, Shape
  <2>2. st["write"] = "erase"
    BY <2>1, <1>1, <1>4, <1>6, ScriptFacts DEF Waits
  <2> QED BY <2>2, <1>3, <1>4, <1>6 DEF n
<1> QED BY <1>4, <1>5, <1>6

\* The turn of ERASE's machine
LEMMA EraseSafe ==
  ASSUME DmaInv, Safe, NEW s, Top.kind = "erase", main = "run",
         \/ \E E : /\ Stays(s, E)
                   /\ s = "cmp" /\ res' = Ok => BufHolds(stack'[Len(stack)])
                   /\ s = "cmp" /\ "erase" \in E => res' = Ok
                   /\ s = "repair" /\ "write" \in E => res' = Ok
                   /\ s = "repair" /\ "success" \in E => Whole
         \/ Asks(s) /\ Top'.kind # "erase"
         \/ Leaves(s) /\ s = "init",
         s = "enable" => BufHolds(stack'[Len(stack)]),
         Pieces'
  PROVE  Safe'
<1> DEFINE n == Len(stack)
<1>1. /\ n \in {1, 2} /\ Len(stack') \in {n, n + 1} /\ stack # <<>> /\ stack' # <<>> /\ Top = stack[n]
      /\ mem' = mem /\ buf' = buf /\ before' = before /\ Others' = Others
      /\ Same(stack[n], stack'[n])
      /\ \A i \in 1 .. n - 1 : stack'[i] = stack[i]
  BY TurnKeeps, TopIs, EraseTopForm DEF DmaInv
<1>2. st'["erase"] = s /\ evs'["write"] = {} /\ st'["write"] = st["write"]
  BY ScriptFacts DEF Stays, Asks, Leaves, Turns
<1>3. st["write"] # "cmp" /\ \A i \in 1 .. n : stack[i].kind = "erase" => i = n
  BY EraseTopForm DEF DmaInv
<1>4. Asks(s) <=> Len(stack') = n + 1
  BY <1>1 DEF Stays, Asks, Leaves
<1>5. Len(stack') = n => Top' = stack'[n] /\ Top'.kind = "erase"
  BY <1>1 DEF Top, Same
<1>6. \A i \in 1 .. Len(stack') : stack'[i].kind = "erase" => i = n
  <2> SUFFICES ASSUME NEW i \in 1 .. Len(stack'), stack'[i].kind = "erase" PROVE i = n
    OBVIOUS
  <2>1. i \in 1 .. n \/ (i = n + 1 /\ Len(stack') = n + 1)
    BY <1>1
  <2>2. i = n + 1 /\ Len(stack') = n + 1 => stack'[i] = Top' /\ Top'.kind # "erase"
    <3>1. Asks(s) => Top'.kind # "erase"
      BY <1>1 DEF Stays, Leaves, Asks
    <3> QED BY <3>1, <1>4 DEF Top
  <2>3. i \in 1 .. n - 1 => stack[i].kind = "erase" /\ i \in 1 .. n /\ i # n
    BY <1>1
  <2> QED BY <1>1, <1>3, <2>1, <2>2, <2>3
<1>7. \A r : BufHolds(r) => \A p \in Others' : SectorOf(p) = SectorOf(r.list[r.cnt + 1]) => buf'[SlotOf(p)] = mem'[p]
  BY <1>1 DEF BufHolds, Beside
<1>8. Whole => Whole'
  BY <1>1 DEF Whole, Kept
<1>9. Looked'
  <2>1. s = "enable" => \A i \in 1 .. Len(stack') : stack'[i].kind = "erase" =>
           \A p \in Others' : SectorOf(p) = SectorOf(stack'[i].list[stack'[i].cnt + 1]) => buf'[SlotOf(p)] = mem'[p]
    BY <1>6, <1>7
  <2>2. CASE Asks(s)
    <3>1. Top'.kind # "erase" /\ evs'["erase"] = {}
      BY <2>2, <1>1, ScriptFacts DEF Stays, Leaves, Asks, Turns
    <3> QED BY <2>1, <3>1, <1>2 DEF Looked, BufHolds, Beside
  <2>3. CASE Leaves(s) /\ s = "init"
    <3>1. evs'["erase"] = {}
      BY <2>3, ScriptFacts DEF Leaves, Turns
    <3> QED BY <3>1, <2>3, <1>2 DEF Looked
  <2>4. ASSUME NEW E, Stays(s, E), s = "cmp" /\ res' = Ok => BufHolds(stack'[n]),
               s = "cmp" /\ "erase" \in E => res' = Ok,
               s = "repair" /\ "write" \in E => res' = Ok,
               s = "repair" /\ "success" \in E => Whole
        PROVE  Looked'
    <3>1. evs'["erase"] = E /\ Top' = stack'[n]
      BY <2>4, ScriptFacts DEF Stays, Turns, Top
    <3>2. s = "cmp" /\ res' = Ok =>
             \A p \in Others' : SectorOf(p) = SectorOf(Top'.list[Top'.cnt + 1]) => buf'[SlotOf(p)] = mem'[p]
      BY <3>1, <2>4, <1>7
    <3>3. s = "repair" /\ "success" \in E => Whole'
      BY <2>4, <1>8
    <3> QED BY <2>1, <2>4, <3>1, <3>2, <3>3, <1>2 DEF Looked, BufHolds, Beside
  <2> QED BY <2>2, <2>3, <2>4
<1>10. PutBack'
  <2> SUFFICES ASSUME Top'.kind = "write" PROVE main' # "done"
    BY <1>2, <1>3 DEF PutBack
  <2>1. Len(stack') = n + 1
    BY <1>1, <1>5
  <2> QED BY <2>1, <1>4 DEF Asks
<1> QED BY <1>9, <1>10 DEF Safe

AtWork == DmaInv /\ Calm /\ main = "run" /\ dma = NoTransfer /\ Still

LEMMA OneEvent ==
  ASSUME AtWork, NEW e \in evs[Top.kind]
  PROVE  evs[Top.kind] = {e} /\ evs[Top.kind] \ {e} = {}
BY TopIs DEF AtWork, Calm, Timely, Quiet, DmaInv

LEMMA QueueForm ==
  ASSUME AtWork, NEW e, e # "receive", evs[Top.kind] = {},
         Queue(Top.kind, e) \/ (QueueOnTimeout(Top.kind, e) /\ lates' = lates)
  PROVE  Stays(st[Top.kind], {e}) /\ dma' = NoTransfer /\ res' = res /\ stack' = stack /\ sr1' = sr1
<1>1. Top.kind \in Kinds
  BY TopIs DEF AtWork, DmaInv
<1>2. /\ UNCHANGED <<stack, main, st, res, buf, sr1>> /\ dma' = NoTransfer
      /\ evs' = [evs EXCEPT ![Top.kind] = @ \cup {e}]
  BY DEF Queue, QueueOnTimeout, TimedOut, AtWork, dataVars
<1>3. To(Top.kind, st[Top.kind], {e})
  <2>1. st = [k \in Kinds |-> st[k]] /\ evs \in [Kinds -> SUBSET Events]
    BY DEF AtWork, DmaInv, Control, FsmType
  <2>2. st' = [st EXCEPT ![Top.kind] = st[Top.kind]]
    BY <1>1, <1>2, <2>1
  <2>3. evs' = [evs EXCEPT ![Top.kind] = {e}]
    BY <1>1, <1>2, <2>1
  <2> QED BY <2>2, <2>3 DEF To
<1>4. BelowKept /\ Same(Top, Top')
  BY <1>2 DEF BelowKept, Same, Top
<1>5. \A x, y \in {e} : x = y
  OBVIOUS
<1>6. Turns(st[Top.kind], {e})
  BY <1>2, <1>3, <1>4, <1>5, Turned DEF AtWork, Calm, Timely
<1> QED BY <1>2, <1>4, <1>6 DEF Stays, AtWork

LEMMA StayForm ==
  ASSUME AtWork, NEW s, NEW E, "receive" \notin E, \A x, y \in E : x = y,
         To(Top.kind, s, E), main' = main, buf' = buf,
         Len(stack') = Len(stack), BelowKept, Same(Top, Top')
  PROVE  Stays(s, E)
BY Turned DEF AtWork, Calm, Timely, Stays

LEMMA TransferForm ==
  ASSUME AtWork, NEW cmd, NEW s, Transfer(cmd, Top.kind, s, {}), main' = main, buf' = buf,
         Len(stack') = Len(stack), BelowKept, Same(Top, Top')
  PROVE  \/ Stays(s, {}) /\ dma' = cmd /\ res' = res
         \/ Stays(s, {"error"}) /\ dma' = NoTransfer /\ (res' = IF Top.kind = "free" THEN Error ELSE res)
<1>1. CASE dma' = cmd /\ To(Top.kind, s, {}) /\ res' = res
  BY <1>1, StayForm
<1>2. CASE To(Top.kind, s, {} \cup {"error"}) /\ dma' = dma /\ (res' = IF Top.kind = "free" THEN Error ELSE res)
  <2>1. To(Top.kind, s, {"error"}) /\ (\A x, y \in {"error"} : x = y)
    BY <1>2
  <2> QED BY <1>2, <2>1, StayForm DEF AtWork
<1> QED BY <1>1, <1>2 DEF Transfer

LEMMA LeaveForm ==
  ASSUME AtWork, NEW s, NEW r, Leave(Top.kind, s, r)
  PROVE  Leaves(s) /\ res' = r /\ stack' = stack
<1>1. BelowKept /\ buf' = buf /\ To(Top.kind, s, {})
  BY DEF Leave, BelowKept, dataVars
<1>2. Turns(s, {})
  BY <1>1, Turned DEF AtWork, Calm, Timely
<1> QED BY <1>2 DEF Leave, Leaves, AtWork

LEMMA PushForm ==
  ASSUME AtWork, NEW s, To(Top.kind, s, {}), UNCHANGED <<dma, dataVars>>,
         NEW base \in Seq(Routes), Len(base) = Len(stack),
         \A i \in 1 .. Len(stack) - 1 : base[i] = stack[i], Same(Top, base[Len(stack)]),
         NEW route \in Routes, PushOn(base, route)
  PROVE  Asks(s) /\ Top' = route /\ stack'[Len(stack)] = base[Len(stack)]
<1> DEFINE n == Len(stack)
<1>1. n \in Nat \ {0} /\ n \in 1 .. n /\ stack \in Seq(Routes)
  BY TopIs DEF AtWork, DmaInv
<1>2. Len(base) # Slots
  BY StackForm, DmaAssumption DEF AtWork, DmaInv, Control, FsmType, Deepest
<1>3. stack' = Append(base, route) /\ main' = "router" /\ res' = res
  BY <1>2 DEF PushOn
<1>4. /\ Len(stack') = n + 1 /\ \A i \in 1 .. n : stack'[i] = base[i]
      /\ stack'[n + 1] = route
  BY <1>1, <1>3
<1>5. BelowKept /\ Top' = route /\ stack'[n] = base[n]
  <2>1. \A i \in 1 .. n - 1 : i \in 1 .. n
    BY <1>1
  <2> QED BY <2>1, <1>1, <1>4 DEF BelowKept, Top
<1>6. buf' = buf /\ dma' = NoTransfer
  BY DEF dataVars, AtWork
<1>7. Turns(s, {})
  BY <1>5, <1>6, Turned DEF AtWork, Calm, Timely
<1> QED BY <1>3, <1>4, <1>5, <1>6, <1>7 DEF Asks

LEMMA PushTopForm ==
  ASSUME AtWork, NEW s, To(Top.kind, s, {}), UNCHANGED <<dma, dataVars>>,
         NEW route \in Routes, Push(route)
  PROVE  Asks(s) /\ Top' = route /\ stack'[Len(stack)] = Top
<1>1. stack \in Seq(Routes) /\ Top = stack[Len(stack)]
  BY TopIs DEF AtWork, DmaInv
<1>2. Same(Top, stack[Len(stack)]) /\ \A i \in 1 .. Len(stack) - 1 : stack[i] = stack[i]
  BY <1>1 DEF Same
<1> QED BY <1>1, <1>2, PushForm DEF Push

\* What is left to show of the machines that neither erase nor write
LEMMA InnerStay ==
  ASSUME AtWork, Top.kind \notin {"write", "erase"}, NEW s, NEW E, Stays(s, E),
         dma' # NoTransfer => Sync',
         Top.kind = "free" /\ s = "free" /\ "success" \in E => ~chip.busy,
         Top.kind = "read" /\ s = 1 /\ (res' = Ok \/ "success" \in E) => ~chip.busy,
         Top.kind = "read" /\ s = 2 => ~chip.busy
  PROVE  Calm'
BY StayLinks, StayTimely, InnerSafe DEF AtWork, Calm

LEMMA InnerLeave ==
  ASSUME AtWork, Top.kind \notin {"write", "erase"}, NEW r, Leave(Top.kind, Start(Top.kind), r),
         Top.kind = "free" /\ r = Ok => ~chip.busy,
         Top.kind = "read" /\ r = Ok => Filled(Top)
  PROVE  Calm'
<1> DEFINE s == Start(Top.kind)
<1>1. Leaves(s) /\ res' = r
  BY LeaveForm
<1> HIDE DEF s
<1> QED BY <1>1, LeaveLinks, LeaveTimely, InnerSafe DEF AtWork, Calm, s

LEMMA FreeHandlerCalm ==
  ASSUME AtWork, Top.kind = "free", evs["free"] = {}, FreeHandler, lates' = lates
  PROVE  Calm'
<1>1. CASE st["free"] = "free" /\ QueueOnTimeout("free", "timeout")
  <2>1. Stays("free", {"timeout"}) /\ dma' = NoTransfer
    BY <1>1, QueueForm
  <2> QED BY <2>1, InnerStay
<1>2. CASE /\ st["free"] = "init"
           /\ stack' = [stack EXCEPT ![Len(stack)].cnt = 0]
           /\ evs' = [evs EXCEPT !["free"] = {"success"}]
           /\ UNCHANGED <<main, st, res, dma, dataVars, faultVars>>
  <2>0. Top \in FreeRoutes /\ Top = stack[Len(stack)]
    BY TopIs, RouteKinds DEF AtWork, DmaInv
  <2> DEFINE q == [Top EXCEPT !.cnt = 0]
  <2>1. q \in FreeRoutes /\ q.kind = "free" /\ stack' = [stack EXCEPT ![Len(stack)] = q]
    BY <2>0, <1>2 DEF FreeRoutes
  <2>2. q \in Routes /\ Same(Top, q)
    BY <2>1 DEF Routes, Same
  <2> HIDE DEF q
  <2>3. Len(stack') = Len(stack) /\ BelowKept /\ Same(Top, Top')
    BY <2>1, <2>2, CountTop DEF AtWork, DmaInv
  <2>4. To("free", "init", {"success"}) /\ main' = main /\ buf' = buf /\ dma' = NoTransfer
    BY <1>2 DEF To, AtWork, DmaInv, Control, FsmType, dataVars
  <2>5. Stays("init", {"success"})
    BY <2>3, <2>4, StayForm
  <2> QED BY <2>4, <2>5, InnerStay
<1> QED BY <1>1, <1>2 DEF FreeHandler

LEMMA FreeDispatchCalm ==
  ASSUME AtWork, Top.kind = "free", NEW e \in evs["free"], FreeDispatch(e)
  PROVE  Calm'
<1> DEFINE rest == evs["free"] \ {e}
<1>1. rest = {} /\ Top \in FreeRoutes /\ Top = stack[Len(stack)] /\ stack \in Seq(Routes)
  BY OneEvent, TopIs, RouteKinds DEF AtWork, DmaInv
<1> HIDE DEF rest
<1>2. ASSUME NEW cmd \in {Tx(<<"sr1", 0>>, 0), RxStatus}, Transfer(cmd, "free", "free", rest),
             main' = main, buf' = buf, Len(stack') = Len(stack), BelowKept, Same(Top, Top')
      PROVE  Calm'
  <2>1. \/ Stays("free", {}) /\ dma' = cmd
        \/ Stays("free", {"error"}) /\ dma' = NoTransfer
    BY <1>1, <1>2, TransferForm
  <2>2. CASE Stays("free", {}) /\ dma' = cmd
    <3>1. Top'.kind = "free" /\ st'["free"] = "free" /\ evs'["free"] = {} /\ main' = "run"
      BY <2>2, ScriptFacts DEF Stays, Turns, Same
    <3>2. dma'.late = FALSE
      BY <2>2 DEF Tx, RxStatus
    <3>3. Sync'
      BY <2>2, <3>1, <3>2 DEF Sync
    <3> QED BY <2>2, <3>3, InnerStay
  <2>3. CASE Stays("free", {"error"}) /\ dma' = NoTransfer
    BY <2>3, InnerStay
  <2> QED BY <2>1, <2>2, <2>3
<1>3. ASSUME AskStatus(rest), Len(stack') = Len(stack), BelowKept, Same(Top, Top')
      PROVE  Calm'
  BY <1>2, <1>3 DEF AskStatus
<1>4. CASE st["free"] = "init" /\ e = "success" /\ AskStatus(rest) /\ UNCHANGED stack
  BY <1>3, <1>4, SameStack DEF AtWork, DmaInv
<1>5. CASE st["free"] = "free" /\ e = "success" /\ Succeed("free")
  <2>1. ~chip.busy
    BY <1>5 DEF AtWork, Calm, Timely, FreeTells
  <2> QED BY <1>5, <2>1, InnerLeave DEF Succeed
<1>6. CASE e = "error" /\ Fail("free")
  <2> DEFINE r == IF res = Ok THEN Error ELSE res
  <2>1. r # Ok
    BY DEF Ok, Error
  <2>2. Leave(Top.kind, Start(Top.kind), r)
    BY <1>6 DEF Fail
  <2> HIDE DEF r
  <2> QED BY <2>1, <2>2, InnerLeave
<1>7. CASE /\ res' = Busy /\ To("free", "free", rest \cup {"error"})
           /\ UNCHANGED <<stack, main, dma, dataVars, faultVars>>
  <2>1. To(Top.kind, "free", {"error"}) /\ main' = main /\ buf' = buf /\ dma' = NoTransfer
    BY <1>1, <1>7 DEF AtWork, dataVars
  <2>2. Stays("free", {"error"})
    BY <2>1, <1>7, SameStack, StayForm DEF AtWork, DmaInv
  <2> QED BY <2>1, <2>2, InnerStay
<1>8. CASE /\ stack' = [stack EXCEPT ![Len(stack)].cnt = @ + 1]
           /\ AskStatus(rest)
  <2> DEFINE q == [Top EXCEPT !.cnt = @ + 1]
  <2>1. q \in FreeRoutes /\ q.kind = "free" /\ stack' = [stack EXCEPT ![Len(stack)] = q]
    BY <1>1, <1>8 DEF FreeRoutes
  <2>2. q \in Routes /\ Same(Top, q)
    BY <2>1 DEF Routes, Same
  <2> HIDE DEF q
  <2> QED BY <1>3, <1>8, <2>1, <2>2, CountTop DEF AtWork, DmaInv
<1>9. CASE Transfer(RxStatus, "free", "free", rest) /\ UNCHANGED <<stack, main, dataVars>>
  BY <1>2, <1>9, SameStack DEF AtWork, DmaInv, dataVars
<1>10. CASE /\ st["free"] = "free" /\ e = "receive"
            /\ To("free", "free", IF sr1 THEN rest ELSE rest \cup {"success"})
            /\ UNCHANGED <<stack, main, res, dma, dataVars, faultVars>>
  <2>1. ~sr1 => ~chip.busy
    BY <1>10 DEF AtWork, Calm, Timely, FreeTells
  <2>2. PICK E : To(Top.kind, "free", E) /\ (E = {} \/ (E = {"success"} /\ ~chip.busy))
    BY <1>1, <1>10, <2>1
  <2>3. main' = main /\ buf' = buf /\ dma' = NoTransfer
    BY <1>10 DEF AtWork, dataVars
  <2>4. Stays("free", E)
    BY <1>10, <2>2, <2>3, SameStack, StayForm DEF AtWork, DmaInv
  <2> QED BY <2>2, <2>3, <2>4, InnerStay
<1> QED BY <1>4, <1>5, <1>6, <1>7, <1>8, <1>9, <1>10 DEF FreeDispatch, rest

LEMMA ScriptHandlerCalm ==
  ASSUME AtWork, Top.kind \in DOMAIN Script, evs[Top.kind] = {}, ScriptHandler(Top.kind), lates' = lates
  PROVE  Calm'
<1> DEFINE i == st[Top.kind]
<1>1. PICK e : /\ Stays(i, {e}) /\ dma' = NoTransfer /\ res' = res
               /\ e = "success" => i = 0 \/ (Script[Top.kind][i] = "free" /\ res = Ok)
  <2>1. CASE i = 0 /\ Queue(Top.kind, "success")
    BY <2>1, QueueForm
  <2>2. CASE Script[Top.kind][i] = "free" /\ Queue(Top.kind, RouteRes)
    <3>1. RouteRes # "receive" /\ (RouteRes = "success" => res = Ok)
      BY DEF RouteRes
    <3>2. Stays(i, {RouteRes}) /\ dma' = NoTransfer /\ res' = res
      BY <2>2, <3>1, QueueForm
    <3> QED BY <2>2, <3>1, <3>2
  <2>3. CASE QueueOnTimeout(Top.kind, "error")
    <3>1. Stays(i, {"error"}) /\ dma' = NoTransfer /\ res' = res
      BY <2>3, QueueForm
    <3>2. "error" # "success"
      OBVIOUS
    <3> WITNESS "error"
    <3> QED BY <3>1, <3>2
  <2> QED BY <2>1, <2>2, <2>3 DEF ScriptHandler
<1>2. Top.kind \notin {"write", "erase", "free"}
  BY ScriptFacts
<1>3. Top.kind = "read" /\ i = 1 /\ res = Ok => ~chip.busy
  BY TopIs DEF AtWork, DmaInv, Calm, Timely, FreeTells
<1>4. Top.kind = "read" /\ i = 2 => ~chip.busy
  BY DEF AtWork, Calm, Timely, FreeTells
<1> HIDE DEF i
<1>5. Top.kind = "read" /\ i = 1 /\ (res' = Ok \/ "success" \in {e}) => ~chip.busy
  BY <1>1, <1>3
<1> QED BY <1>1, <1>2, <1>4, <1>5, InnerStay

LEMMA EnterCalm ==
  ASSUME AtWork, Top.kind \in DOMAIN Script, NEW i \in 1 .. Len(Script[Top.kind]),
         Enter(Top.kind, i, {}), Top.kind = "read" /\ i = 2 => ~chip.busy
  PROVE  Calm'
<1> DEFINE k == Top.kind
<1>0. k \in {"unblock", "on", "off", "read"} /\ i \in Nat /\ i > 0
  BY ScriptFacts
<1>1. CASE Script[k][i] = "free"
  <2> DEFINE route == [kind |-> "free", cnt |-> 0]
  <2>1. route \in Routes /\ route.kind = "free"
    BY DEF Routes, FreeRoutes
  <2>2. To(k, i, {}) /\ Push(route) /\ UNCHANGED <<dma, dataVars>>
    BY <1>1 DEF Enter
  <2> HIDE DEF route
  <2>3. Asks(i) /\ Top' = route /\ stack'[Len(stack)] = Top
    BY <2>1, <2>2, PushTopForm
  <2>4. Link(stack'[Len(stack)], Top')
    BY <2>1, <2>3, <1>0 DEF Link
  <2> QED BY <1>0, <2>1, <2>3, <2>4, AskLinks, AskTimely, InnerSafe DEF AtWork, Calm
<1>2. CASE Script[k][i] # "free"
  <2>1. Transfer(Tx(<<k, i>>, 0), k, i, {}) /\ UNCHANGED <<stack, main, dataVars>>
    BY <1>2 DEF Enter
  <2> DEFINE cmd == Tx(<<k, i>>, 0)
  <2> HIDE DEF cmd
  <2>2. \/ Stays(i, {}) /\ dma' = cmd
        \/ Stays(i, {"error"}) /\ dma' = NoTransfer
    BY <2>1, <1>0, SameStack, TransferForm DEF AtWork, DmaInv, dataVars, cmd
  <2>3. k = "read" /\ i = 1 => FALSE
    BY <1>2, ScriptFacts
  <2>4. CASE Stays(i, {}) /\ dma' = cmd
    <3>1. Top'.kind = k /\ st'[k] = i /\ evs'[k] = {} /\ main' = "run"
      BY <2>4, <1>0, ScriptFacts DEF Stays, Turns, Same
    <3>2. dma' = Tx(<<Top'.kind, st'[Top'.kind]>>, 0)
      BY <2>4, <3>1 DEF cmd
    <3>3. dma'.late = FALSE
      BY <3>2 DEF Tx
    <3>4. Top'.kind \in DOMAIN Script /\ st'[Top'.kind] > 0 /\ Script[Top'.kind][st'[Top'.kind]] # "free"
      BY <1>2, <1>0, <3>1
    <3>5. Sync'
      BY <3>1, <3>2, <3>3, <3>4 DEF Sync
    <3> QED BY <1>0, <2>3, <2>4, <3>5, InnerStay
  <2>5. CASE Stays(i, {"error"}) /\ dma' = NoTransfer
    BY <1>0, <2>3, <2>5, InnerStay
  <2> QED BY <2>2, <2>4, <2>5
<1> QED BY <1>1, <1>2

LEMMA FailCalm ==
  ASSUME AtWork, Top.kind \notin {"write", "erase"}, Fail(Top.kind)
  PROVE  Calm'
<1> DEFINE r == IF res = Ok THEN Error ELSE res
<1>1. r # Ok
  BY DEF Ok, Error
<1>2. Leave(Top.kind, Start(Top.kind), r)
  BY DEF Fail
<1> HIDE DEF r
<1> QED BY <1>1, <1>2, InnerLeave

LEMMA ScriptDispatchCalm ==
  ASSUME AtWork, Top.kind \in DOMAIN Script, NEW e \in evs[Top.kind],
         ScriptDispatch(Top.kind, e)
  PROVE  Calm'
<1> DEFINE k == Top.kind
<1> DEFINE i == st[k]
<1> DEFINE rest == evs[k] \ {e}
<1>0. rest = {}
  BY OneEvent
<1>1. k \in {"unblock", "on", "off", "read"} /\ i \in 0 .. Len(Script[k]) /\ Len(Script[k]) \in 2 .. 5
  <2>1. i \in StatesOf(k)
    BY TopIs DEF AtWork, DmaInv
  <2>2. Len(Script[k]) \in 2 .. 5
    BY ScriptFacts
  <2>3. k # "free" /\ k # "write" /\ k # "erase"
    BY ScriptFacts
  <2> QED BY <2>1, <2>2, <2>3, ScriptFacts DEF StatesOf
<1>2. k = "read" /\ i = 1 /\ e = "success" => ~chip.busy
  BY DEF AtWork, Calm, Timely, FreeTells
<1>3. k = "read" /\ i = 2 => ~chip.busy
  BY DEF AtWork, Calm, Timely, FreeTells
<1>4. k = "read" /\ i = 2 /\ e = "receive" => Filled(Top)
  BY DEF AtWork, Calm, Timely, ReadTells
<1>5. k = "read" => Script[k][1] = "free" /\ Script[k][2] = "send" /\ Len(Script[k]) = 2
  BY ScriptFacts
<1>6. CASE i = 0 /\ e = "success" /\ Enter(k, 1, rest)
  <2>1. \A m \in 2 .. 5 : 1 \in 1 .. m
    OBVIOUS
  <2>2. 1 \in 1 .. Len(Script[k]) /\ 1 # 2
    BY ScriptFacts
  <2>3. Enter(k, 1, {})
    BY <1>0, <1>6
  <2> QED BY <2>2, <2>3, EnterCalm
<1>7. CASE e = "error" /\ Fail(k)
  BY <1>1, <1>7, FailCalm
<1>8. CASE /\ i > 0
           /\ \/ Script[k][i] = "free" /\ e = "success"
              \/ Script[k][i] = "tx" /\ e = "transmit"
           /\ IF i = Len(Script[k]) THEN Succeed(k) ELSE Enter(k, i + 1, rest)
  <2>0. k = "read" => i = 1 /\ e = "success"
    <3>1. k = "read" => i \in 1 .. 2 /\ i # 2
      BY <1>1, <1>5, <1>8
    <3> QED BY <3>1, <1>5, <1>8
  <2>1. CASE i = Len(Script[k]) /\ Succeed(k)
    <3>1. k # "read"
      BY <2>0, <2>1, <1>5
    <3> QED BY <1>1, <2>1, <3>1, InnerLeave DEF Succeed
  <2>2. CASE i # Len(Script[k]) /\ Enter(k, i + 1, rest)
    <3>1. k = "read" /\ i + 1 = 2 => ~chip.busy
      BY <2>0, <1>2
    <3> HIDE DEF rest, i
    <3>2. i + 1 \in 1 .. Len(Script[k])
      BY <1>1, <2>2
    <3> QED BY <1>0, <2>2, <3>1, <3>2, EnterCalm
  <2> QED BY <1>8, <2>1, <2>2
<1>9. CASE /\ i > 0 /\ Script[k][i] = "send" /\ e = "transmit"
           /\ Transfer(RxData(Top), k, i, {}) /\ UNCHANGED <<stack, main, dataVars>>
  <2>1. k = "read" /\ i = 2
    BY <1>1, <1>9, ScriptFacts
  <2>2. \/ Stays(2, {}) /\ dma' = RxData(Top)
        \/ Stays(2, {"error"}) /\ dma' = NoTransfer
    BY <1>9, <2>1, SameStack, TransferForm DEF AtWork, DmaInv, dataVars
  <2>3. CASE Stays(2, {}) /\ dma' = RxData(Top)
    <3>1. Top' = Top /\ st'["read"] = 2 /\ evs'["read"] = {} /\ main' = "run"
      BY <1>9, <2>1, <2>3, ScriptFacts DEF Stays, Turns, Top
    <3>2. dma'.late = FALSE
      BY <2>3 DEF RxData
    <3>3. Top'.kind \in DOMAIN Script /\ st'[Top'.kind] > 0 /\ Script[Top'.kind][st'[Top'.kind]] # "free"
      BY <3>1, <2>1, <1>5
    <3>4. Sync'
      BY <2>1, <2>3, <3>1, <3>2, <3>3 DEF Sync, RxData
    <3> QED BY <2>1, <2>3, <3>4, <1>3, InnerStay
  <2>4. CASE Stays(2, {"error"}) /\ dma' = NoTransfer
    BY <2>1, <2>4, <1>3, InnerStay
  <2> QED BY <2>2, <2>3, <2>4
<1>10. CASE i > 0 /\ Script[k][i] = "send" /\ e = "receive" /\ Succeed(k)
  <2>1. k = "read" /\ i = 2
    BY <1>1, <1>10, ScriptFacts
  <2> QED BY <2>1, <1>4, <1>10, InnerLeave DEF Succeed
<1> QED BY <1>6, <1>7, <1>8, <1>9, <1>10 DEF ScriptDispatch

\* Under WRITE and ERASE lie only WRITE and ERASE.
LEMMA UnderWork ==
  ASSUME Control, main = "run", Top.kind \in {"write", "erase"}
  PROVE  st["read"] = 0 /\ st["free"] = "init"
<1> DEFINE n == Len(stack)
<1>1. n \in Nat \ {0} /\ n \in 1 .. n /\ Top = stack[n]
  BY TopIs
<1>2. \A i \in 1 .. n - 1 :
         \/ stack[i].kind \in {"write", "erase"}
         \/ stack[i].kind \in DOMAIN Script /\ stack[i + 1].kind = "free" /\ i + 1 = n
  BY StackForm DEF Control, FsmType
<1>3. \A i \in 1 .. n : i \in 1 .. n - 1 \/ i = n
  BY <1>1
<1>4. ~OnStack("read") /\ ~OnStack("free")
  BY <1>1, <1>2, <1>3, ScriptFacts DEF OnStack
<1> QED BY <1>4, ScriptFacts DEF Control, Shape, Start

LEMMA WriteStayCalm ==
  ASSUME AtWork, Top.kind = "write", NEW s, NEW E, Stays(s, E),
         dma' # NoTransfer => Sync',
         Doomed => s = "erase" /\ E \subseteq {"error"} /\ res' # Ok,
         Nested /\ s = "cmp" =>
            /\ st["write"] = "cmp"
            /\ E \cap {"next", "done"} # {} => mem[Top.addr] = buf[SlotOf(Top.addr)]
  PROVE  Calm'
<1>1. Links'
  BY StayLinks DEF AtWork, Calm
<1>2. Timely'
  BY StayTimely DEF AtWork, Calm
<1>3. Safe'
  BY WriteSafe DEF AtWork, Calm
<1> QED BY <1>1, <1>2, <1>3 DEF Calm

LEMMA WriteAskCalm ==
  ASSUME AtWork, Top.kind = "write", ~Doomed, NEW s, NEW route \in Routes,
         route.kind # "write", route.kind = "erase" => ~Nested, Link(Top, route),
         Sub("write", s, {}, route)
  PROVE  Calm'
<1>1. To("write", s, {}) /\ Push(route) /\ UNCHANGED <<dma, dataVars>>
  BY DEF Sub
<1>2. Asks(s) /\ Top' = route /\ stack'[Len(stack)] = Top
  BY <1>1, PushTopForm
<1>3. Links'
  BY <1>2, AskLinks DEF AtWork, Calm
<1>4. st'["read"] = 0
  BY <1>2, UnderWork, ScriptFacts DEF AtWork, DmaInv, Asks, Turns
<1>5. Timely'
  BY <1>2, <1>4, AskTimely DEF AtWork, Calm
<1>6. Safe'
  BY <1>2, WriteSafe DEF AtWork, Calm
<1> QED BY <1>3, <1>5, <1>6 DEF Calm

LEMMA WriteLeaveCalm ==
  ASSUME AtWork, Top.kind = "write", NEW s, s # "cmp", NEW r, Leave("write", s, r),
         Doomed => r # Ok,
         Nested /\ r = Ok => mem[Top.addr] = buf[SlotOf(Top.addr)]
  PROVE  Calm'
<1>1. Leaves(s) /\ res' = r
  BY LeaveForm
<1>2. Links'
  BY <1>1, LeaveLinks DEF AtWork, Calm
<1>3. Timely'
  BY <1>1, LeaveTimely DEF AtWork, Calm
<1>4. Safe'
  BY <1>1, WriteSafe DEF AtWork, Calm
<1> QED BY <1>2, <1>3, <1>4 DEF Calm

\* The WRITE of a neighbour has one page, which it takes from the buffer.
LEMMA NeighbourWrite ==
  ASSUME Control, main = "run", Top.kind = "write", Nested
  PROVE  Top.tx = FromBuffer /\ Top.len = 1
<1>1. Len(stack) \in 2 .. Len(stack) /\ Top = stack[Len(stack)]
  BY TopIs DEF Nested
<1> QED BY <1>1 DEF Control, Shape

LEMMA WriteHandlerCalm ==
  ASSUME AtWork, Top.kind = "write", evs["write"] = {}, WriteHandler, lates' = lates
  PROVE  Calm'
<1> DEFINE s == st["write"]
<1>1. \A m \in Nat : m = 1 => ~(m > 1)
  OBVIOUS
<1>2. Doomed => s = "erase" /\ ~Nested /\ res # Ok
  <2>1. Doomed => Len(stack) = 1 /\ s = "erase" /\ res # Ok
    BY DEF Doomed, AtWork
  <2> QED BY <1>1, <2>1 DEF Nested
<1>3. CASE /\ s = "init"
           /\ evs' = [evs EXCEPT !["erase"] = {}, !["write"] = {IF Nested THEN "success" ELSE "unblock"}]
           /\ UNCHANGED <<stack, main, st, res, dma, dataVars, faultVars>>
  <2>1. PICK e : e = (IF Nested THEN "success" ELSE "unblock") /\ e # "receive"
    OBVIOUS
  <2>2. \A k \in Kinds : evs'[k] = IF k = "write" THEN {e} ELSE {}
    BY <1>3, <2>1, ScriptFacts DEF AtWork, DmaInv, Control, FsmType, Calm, Timely, Quiet
  <2>3. Turns("init", {e})
    BY <1>3, <2>1, <2>2 DEF Turns, AtWork, Still, chipVars, userVars, dataVars, BelowKept
  <2>4. Stays("init", {e}) /\ dma' = NoTransfer
    BY <1>3, <2>3, SameStack DEF Stays, AtWork, DmaInv
  <2> QED BY <1>2, <1>3, <2>4, WriteStayCalm
<1>4. CASE s \in {"unblock", "disable"} /\ Queue("write", RouteRes)
  <2>1. RouteRes # "receive"
    BY DEF RouteRes
  <2>2. Stays(s, {RouteRes}) /\ dma' = NoTransfer
    BY <1>4, <2>1, QueueForm
  <2> QED BY <1>2, <1>4, <2>2, WriteStayCalm
<1>5. CASE s = "cmp" /\ Queue("write", CmpEvent)
  <2>1. CmpEvent # "receive"
    BY DEF CmpEvent
  <2>2. Stays(s, {CmpEvent}) /\ dma' = NoTransfer
    BY <1>5, <2>1, QueueForm
  <2>3. ASSUME Nested, CmpEvent \in {"next", "done"} PROVE mem[Top.addr] = buf[SlotOf(Top.addr)]
    <3>1. Top.tx = FromBuffer /\ Top.len = 1
      BY <2>3, NeighbourWrite DEF AtWork, DmaInv
    <3>2. \A i \in 0 .. Top.len - 1 : RxPage(Top, i) = TxPage(Top, i)
      BY <2>3 DEF CmpEvent
    <3>3. RxPage(Top, 0) = TxPage(Top, 0)
      BY <3>1, <3>2
    <3>4. Top.rx + 0 = Top.rx
      BY WriteTop DEF AtWork, Slot
    <3>5. buf[Top.rx] = mem[Top.addr]
      BY <1>5, <2>3, TopIs DEF AtWork, DmaInv, Calm, Safe, PutBack
    <3> QED BY <3>1, <3>3, <3>4, <3>5 DEF RxPage, TxPage
  <2> QED BY <1>2, <1>5, <2>2, <2>3, WriteStayCalm
<1>6. CASE s = "erase" /\ Queue("write", IF Nested THEN "success" ELSE RouteRes)
  <2>1. PICK e : e = (IF Nested THEN "success" ELSE RouteRes) /\ e # "receive"
    BY DEF RouteRes
  <2>2. Stays(s, {e}) /\ dma' = NoTransfer /\ res' = res
    BY <1>6, <2>1, QueueForm
  <2>3. Doomed => e = "error"
    BY <1>2, <2>1 DEF RouteRes
  <2> QED BY <1>2, <1>6, <2>2, <2>3, WriteStayCalm
<1>7. CASE s = "enable" /\ Queue("write", IF Top.cnt >= Top.len THEN "done" ELSE RouteRes)
  <2>1. PICK e : e = (IF Top.cnt >= Top.len THEN "done" ELSE RouteRes) /\ e # "receive"
    BY DEF RouteRes
  <2>2. Stays(s, {e}) /\ dma' = NoTransfer
    BY <1>7, <2>1, QueueForm
  <2> QED BY <1>2, <1>7, <2>2, WriteStayCalm
<1>8. CASE s \in {"cmd", "data"} /\ QueueOnTimeout("write", "error")
  <2>1. Stays(s, {"error"}) /\ dma' = NoTransfer
    BY <1>8, QueueForm
  <2> QED BY <1>2, <1>8, <2>1, WriteStayCalm
<1> QED BY <1>3, <1>4, <1>5, <1>6, <1>7, <1>8 DEF WriteHandler

LEMMA EnableCalm ==
  ASSUME AtWork, Top.kind = "write", ~Doomed, Enable({})
  PROVE  Calm'
<1>1. CASE Stay("write", "enable", {})
  <2>1. To(Top.kind, "enable", {}) /\ main' = main /\ buf' = buf /\ dma' = NoTransfer /\ stack' = stack
    BY <1>1 DEF Stay, AtWork, dataVars
  <2>2. Stays("enable", {})
    BY <2>1, SameStack, StayForm DEF AtWork, DmaInv
  <2> QED BY <2>1, <2>2, WriteStayCalm
<1>2. CASE Sub("write", "enable", {}, [kind |-> "on"])
  <2> DEFINE route == [kind |-> "on"]
  <2>1. route \in Routes /\ route.kind = "on"
    BY DEF Routes, PlainRoutes, Plain
  <2>2. Sub("write", "enable", {}, route)
    BY <1>2
  <2> HIDE DEF route
  <2>3. Link(Top, route)
    BY <2>1 DEF Link
  <2> QED BY <2>1, <2>2, <2>3, WriteAskCalm
<1> QED BY <1>1, <1>2 DEF Enable

\* The ERASE of a WRITE's own pages
LEMMA EraseRouteLink ==
  ASSUME DmaInv, main = "run", Top.kind = "write"
  PROVE  Link(Top, EraseRoute)
<1> DEFINE list == [i \in 1 .. Top.len |-> Top.addr + i - 1]
<1>1. Top.len \in Nat /\ Top.addr \in Nat
  BY WriteTop, PagesRange
<1>2. \A j \in 1 .. Top.len : Top.addr + j - 1 \in Top.addr .. Top.addr + Top.len - 1
  BY <1>1
<1>3. \A j \in DOMAIN list : list[j] \in Top.addr .. Top.addr + Top.len - 1
  BY <1>2
<1>4. EraseRoute.kind = "erase" /\ EraseRoute.list = list
  BY DEF EraseRoute
<1> HIDE DEF list
<1> QED BY <1>3, <1>4 DEF Link, Aimed

LEMMA WriteDispatchCalm ==
  ASSUME AtWork, Top.kind = "write", NEW e \in evs["write"], WriteDispatch(e)
  PROVE  Calm'
<1> DEFINE s == st["write"]
<1> DEFINE rest == evs["write"] \ {e}
<1>0. rest = {} /\ evs["write"] = {e}
  BY OneEvent
<1>1. e \notin Async => MayOfWrite(e)
  <2>1. e \notin Async => May(e)
    BY RestIsAsync DEF AtWork, DmaInv
  <2> QED BY <2>1, ScriptFacts DEF May
<1>2. Doomed => s = "erase" /\ e = "error"
  BY <1>0 DEF Doomed, AtWork
<1>3. Nested => s \in {"cmp", "enable", "cmd", "data"} \/ (s = "init" /\ ~Front("write")) \/ (s = "erase" /\ Front("write"))
  BY TopIs DEF AtWork, DmaInv, Control, WriteOk
<1>4. /\ CompareRoute \in Routes /\ CompareRoute.kind = "read"
      /\ EraseRoute \in Routes /\ EraseRoute.kind = "erase"
  BY WriteRouteTypes DEF AtWork, Routes
<1>5. \A k \in Plain : [kind |-> k] \in Routes /\ [kind |-> k].kind = k /\ Link(Top, [kind |-> k])
  BY DEF Routes, PlainRoutes, Link, Plain
<1>6. ASSUME NEW k \in Plain, NEW t, Sub("write", t, {}, [kind |-> k]), ~Doomed PROVE Calm'
  <2> DEFINE route == [kind |-> k]
  <2>1. route \in Routes /\ route.kind = k /\ Link(Top, route)
    BY <1>5
  <2>2. k # "write" /\ k # "erase" /\ Sub("write", t, {}, route)
    BY <1>6 DEF Plain
  <2> HIDE DEF route
  <2> QED BY <1>6, <2>1, <2>2, WriteAskCalm
<1>7. s = "cmp" /\ e \in {"done", "next"} /\ Nested => mem[Top.addr] = buf[SlotOf(Top.addr)]
  BY <1>0, TopIs DEF AtWork, DmaInv, Calm, Safe, PutBack
<1> HIDE DEF rest
<1>8. CASE s = "init" /\ e = "unblock" /\ Sub("write", "unblock", rest, [kind |-> "unblock"])
  BY <1>0, <1>2, <1>6, <1>8 DEF Plain
<1>9. CASE /\ <<s, e>> \in {<<"init", "success">>, <<"unblock", "success">>, <<"enable", "done">>}
           /\ Sub("write", "cmp", rest, CompareRoute)
  <2>1. ~Doomed
    BY <1>2, <1>9
  <2>2. Link(Top, CompareRoute)
    BY DEF Link, CompareRoute
  <2> QED BY <1>0, <1>4, <1>9, <2>1, <2>2, WriteAskCalm
<1>10. CASE s = "cmp" /\ e = "success" /\ Sub("write", "disable", rest, [kind |-> "off"])
  BY <1>0, <1>2, <1>6, <1>10 DEF Plain
<1>11. CASE s = "cmp" /\ e = "done" /\ Leave("write", "init", Ok)
  BY <1>2, <1>7, <1>11, WriteLeaveCalm
<1>12. CASE s = "cmp" /\ e = "next" /\ Leave("write", "erase", Ok)
  BY <1>2, <1>7, <1>12, WriteLeaveCalm
<1>13. CASE s = "cmp" /\ e = "erase" /\ Sub("write", "erase", rest, EraseRoute)
  <2>1. ~Nested /\ ~Doomed
    BY <1>1, <1>2, <1>13 DEF Async, MayOfWrite
  <2>2. Link(Top, EraseRoute)
    BY EraseRouteLink DEF AtWork
  <2> QED BY <1>0, <1>4, <1>13, <2>1, <2>2, WriteAskCalm
<1>14. CASE /\ <<s, e>> \in {<<"cmp", "write">>, <<"erase", "success">>, <<"data", "transmit">>}
            /\ Enable(rest)
  <2>1. ~Doomed
    BY <1>2, <1>14
  <2> QED BY <1>0, <1>14, <2>1, EnableCalm
<1>15. CASE /\ s = "enable" /\ e = "success"
            /\ Transfer(Tx(<<"program", 0>>, 0), "write", "cmd", {})
            /\ UNCHANGED <<stack, main, dataVars>>
  <2>1. \/ Stays("cmd", {}) /\ dma' = Tx(<<"program", 0>>, 0)
        \/ Stays("cmd", {"error"}) /\ dma' = NoTransfer
    BY <1>15, SameStack, TransferForm DEF AtWork, DmaInv, dataVars
  <2>2. dma' # NoTransfer => Sync'
    <3>1. SUFFICES ASSUME Stays("cmd", {}), dma' = Tx(<<"program", 0>>, 0) PROVE Sync'
      BY <2>1
    <3>2. Top'.kind = "write" /\ st'["write"] = "cmd" /\ evs'["write"] = {} /\ main' = "run"
      BY <3>1, ScriptFacts DEF Stays, Turns, Same
    <3>3. dma'.late = FALSE
      BY <3>1 DEF Tx
    <3> QED BY <3>1, <3>2, <3>3 DEF Sync
  <2> QED BY <1>2, <1>15, <2>1, <2>2, WriteStayCalm
<1>16. CASE /\ s = "cmd" /\ e = "transmit"
            /\ Transfer(TxData(Top.addr + Top.cnt, TxPage(Top, Top.cnt)), "write", "data", {})
            /\ stack' = [stack EXCEPT ![Len(stack)].cnt = @ + 1]
            /\ UNCHANGED <<main, dataVars>>
  <2>0. Top \in WriteRoutes /\ Top.cnt \in 0 .. Top.len - 1 /\ Top.cnt \in Nat /\ Top.len \in Nat /\ Top.addr \in Nat
    BY <1>16, WriteTop, PagesRange DEF AtWork, DmaInv, Control, WriteOk
  <2> DEFINE q == [Top EXCEPT !.cnt = @ + 1]
  <2>1. /\ q.kind = "write" /\ q.cnt = Top.cnt + 1 /\ q.tx = Top.tx /\ q.len = Top.len
        /\ q.addr = Top.addr /\ q.rx = Top.rx /\ q \in Routes
        /\ stack' = [stack EXCEPT ![Len(stack)] = q]
    <3>1. Top.cnt + 1 \in Nat /\ Top.cnt + 1 <= Top.len
      BY <2>0
    <3>2. /\ q \in [kind : {"write"}, addr : Pages, len : Nat \ {0}, cnt : Nat, rx : Slot, tx : Seq(Content)]
          /\ q.cnt = Top.cnt + 1 /\ q.len = Top.len /\ q.tx = Top.tx /\ q.addr = Top.addr /\ q.rx = Top.rx
          /\ q.kind = "write"
      BY <2>0, <3>1 DEF WriteRoutes
    <3>3. stack' = [stack EXCEPT ![Len(stack)] = q]
      BY <1>16, TopIs DEF AtWork, DmaInv
    <3> HIDE DEF q
    <3>4. q \in WriteRoutes
      BY <2>0, <3>1, <3>2 DEF WriteRoutes
    <3> QED BY <3>2, <3>3, <3>4 DEF Routes
  <2> HIDE DEF q
  <2>2. Same(Top, q)
    BY <2>1, <1>16 DEF Same
  <2>3. Len(stack') = Len(stack) /\ BelowKept /\ Same(Top, Top') /\ Top' = q
    BY <2>1, <2>2, CountTop DEF AtWork, DmaInv
  <2> DEFINE cmd == TxData(Top.addr + Top.cnt, TxPage(Top, Top.cnt))
  <2>4. \/ Stays("data", {}) /\ dma' = cmd
        \/ Stays("data", {"error"}) /\ dma' = NoTransfer
    <3>1. Transfer(cmd, Top.kind, "data", {}) /\ main' = main /\ buf' = buf
      BY <1>16 DEF dataVars
    <3> HIDE DEF cmd
    <3> QED BY <3>1, <2>3, TransferForm
  <2>5. dma' # NoTransfer => Sync'
    <3>1. SUFFICES ASSUME Stays("data", {}), dma' = cmd PROVE Sync'
      BY <2>4
    <3>2. Top'.kind = "write" /\ st'["write"] = "data" /\ evs'["write"] = {} /\ main' = "run" /\ buf' = buf
      BY <3>1, ScriptFacts DEF Stays, Turns, Same
    <3>3. dma'.late = FALSE
      BY <3>1 DEF TxData
    <3>4. Top'.addr + Top'.cnt - 1 = Top.addr + Top.cnt /\ Top'.cnt - 1 = Top.cnt
      BY <2>0, <2>1, <2>3
    <3>5. TxPage(Top, Top.cnt - 1)' = TxPage(Top, Top.cnt)
      <4>1. Top'.tx = Top.tx /\ Top'.addr = Top.addr /\ (Top'.cnt - 1) + 1 = Top.cnt + 1
        BY <2>0, <2>1, <2>3
      <4> QED BY <4>1, <3>2 DEF TxPage
    <3>6. dma' = TxData(Top'.addr + Top'.cnt - 1, TxPage(Top, Top.cnt))
      BY <3>1, <3>4
    <3> QED BY <3>2, <3>3, <3>5, <3>6 DEF Sync
  <2> QED BY <1>2, <1>16, <2>4, <2>5, WriteStayCalm
<1>17. CASE s = "disable" /\ e = "success" /\ Succeed("write")
  <2>1. ~Nested /\ ~Doomed
    BY <1>2, <1>3, <1>17
  <2>2. Leave("write", "init", Ok)
    BY <1>17, ScriptFacts DEF Succeed, Start
  <2> QED BY <2>1, <2>2, WriteLeaveCalm
<1>18. CASE e = "error" /\ Fail("write")
  <2> DEFINE r == IF res = Ok THEN Error ELSE res
  <2>1. r # Ok
    BY DEF Ok, Error
  <2>2. Leave("write", "init", r)
    BY <1>18, ScriptFacts DEF Fail, Start
  <2> HIDE DEF r
  <2> QED BY <2>1, <2>2, WriteLeaveCalm
<1> QED BY <1>8, <1>9, <1>10, <1>11, <1>12, <1>13, <1>14, <1>15, <1>16, <1>17, <1>18 DEF WriteDispatch, rest

\* While ERASE's machine runs no other ERASE is torn, and nothing has failed.
LEMMA ErasePieces ==
  ASSUME DmaInv, Safe, main = "run", Top.kind = "erase"
  PROVE  /\ st["erase"] \in {"erase", "repair"} => Torn(Len(stack))
         /\ st["erase"] \notin {"erase", "repair"} => Whole
<1>1. stack # <<>>
  BY TopIs DEF DmaInv
<1>2. CASE st["erase"] \in {"erase", "repair"}
  <2>1. PICK i \in 1 .. Len(stack) : Torn(i)
    BY <1>1, <1>2 DEF Safe, Pieces
  <2>2. i = Len(stack)
    BY <2>1, EraseTopForm DEF Torn, DmaInv
  <2> QED BY <1>2, <2>1, <2>2
<1>3. CASE st["erase"] \notin {"erase", "repair"}
  <2>1. ~Doomed
    BY DEF Doomed
  <2> QED BY <1>1, <1>3, <2>1 DEF Safe, Pieces
<1> QED BY <1>2, <1>3

LEMMA WholePieces ==
  ASSUME DmaInv, Whole, Top.kind = "erase", NEW s, s \notin {"erase", "repair"},
         (\E E : Stays(s, E)) \/ Asks(s) \/ Leaves(s)
  PROVE  Pieces'
<1>1. st'["erase"] = s
  BY ScriptFacts DEF Stays, Asks, Leaves, Turns
<1>2. Whole'
  BY TurnKeeps DEF Whole, Kept
<1> QED BY <1>1, <1>2 DEF Pieces

LEMMA EraseStayCalm ==
  ASSUME AtWork, Top.kind = "erase", NEW s, NEW E, Stays(s, E),
         dma' # NoTransfer => Sync',
         s = "cmp" /\ res' = Ok => BufHolds(stack'[Len(stack)]),
         s = "cmp" /\ "erase" \in E => res' = Ok,
         s = "repair" /\ "write" \in E => res' = Ok,
         s = "repair" /\ "success" \in E => Whole,
         s = "enable" => BufHolds(stack'[Len(stack)]),
         Pieces'
  PROVE  Calm'
<1>1. Links'
  BY StayLinks DEF AtWork, Calm
<1>2. Timely'
  BY StayTimely DEF AtWork, Calm
<1>3. Safe'
  BY EraseSafe DEF AtWork, Calm
<1> QED BY <1>1, <1>2, <1>3 DEF Calm

LEMMA EraseAskCalm ==
  ASSUME AtWork, Top.kind = "erase", NEW s, Asks(s), Top'.kind # "erase",
         Link(stack'[Len(stack)], Top'),
         s = "enable" => BufHolds(stack'[Len(stack)]),
         Pieces'
  PROVE  Calm'
<1>1. Links'
  BY AskLinks DEF AtWork, Calm
<1>2. st'["read"] = 0
  BY UnderWork, ScriptFacts DEF AtWork, DmaInv, Asks, Turns
<1>3. Timely'
  BY <1>2, AskTimely DEF AtWork, Calm
<1>4. Safe'
  BY EraseSafe DEF AtWork, Calm
<1> QED BY <1>1, <1>3, <1>4 DEF Calm

LEMMA EraseSubCalm ==
  ASSUME AtWork, Top.kind = "erase", Whole, NEW s, s \notin {"erase", "repair"},
         NEW route \in Routes, route.kind # "erase", Link(Top, route),
         s = "enable" => BufHolds(Top), Sub("erase", s, {}, route)
  PROVE  Calm'
<1>1. To("erase", s, {}) /\ Push(route) /\ UNCHANGED <<dma, dataVars>>
  BY DEF Sub
<1>2. Asks(s) /\ Top' = route /\ stack'[Len(stack)] = Top
  BY <1>1, PushTopForm
<1>3. Pieces'
  BY <1>2, WholePieces DEF AtWork
<1> QED BY <1>2, <1>3, EraseAskCalm

LEMMA EraseLeaveCalm ==
  ASSUME AtWork, Top.kind = "erase", NEW r, Leave("erase", "init", r), Whole \/ r # Ok
  PROVE  Calm'
<1>1. Leaves("init") /\ res' = r
  BY LeaveForm
<1>2. Pieces'
  <2>1. CASE Whole
    BY <1>1, <2>1, WholePieces DEF AtWork
  <2>2. CASE r # Ok
    <3>1. main' = "done" /\ stack' = stack /\ st'["erase"] = "init"
      BY <1>1, ScriptFacts DEF Leaves, Turns
    <3>2. Len(stack) \in {1, 2}
      BY EraseTopForm DEF AtWork, DmaInv
    <3>3. Doomed'
      BY <1>1, <2>2, <3>1, <3>2 DEF Doomed, Top
    <3> QED BY <3>1, <3>3 DEF Pieces
  <2> QED BY <2>1, <2>2
<1>3. Links'
  BY <1>1, LeaveLinks DEF AtWork, Calm
<1>4. Timely'
  <2>1. "init" = Start(Top.kind)
    BY ScriptFacts DEF Start
  <2> QED BY <1>1, <2>1, LeaveTimely DEF AtWork, Calm
<1>5. Safe'
  BY <1>1, <1>2, EraseSafe DEF AtWork, Calm
<1> QED BY <1>3, <1>4, <1>5 DEF Calm

LEMMA EraseSameCalm ==
  ASSUME AtWork, Top.kind = "erase", NEW E, Stays(st["erase"], E),
         dma' = NoTransfer, res' = res, stack' = stack,
         st["erase"] = "cmp" => "erase" \notin E,
         st["erase"] = "repair" => "success" \notin E /\ ("write" \in E => res = Ok)
  PROVE  Calm'
<1> DEFINE s == st["erase"]
<1>1. Stays(s, E)
  OBVIOUS
<1>2. /\ mem' = mem /\ buf' = buf /\ before' = before /\ st'["erase"] = s /\ Others' = Others
      /\ Top = stack[Len(stack)] /\ Len(stack) \in 1 .. Len(stack)
  <2>1. st'["erase"] = s
    BY <1>1, ScriptFacts DEF Stays, Turns
  <2>2. DmaInv /\ \E F : Stays(s, F)
    BY <1>1 DEF AtWork
  <2>3. /\ mem' = mem /\ buf' = buf /\ before' = before /\ Others' = Others
        /\ Top = stack[Len(stack)] /\ Len(stack) \in Nat \ {0}
    BY <2>2, TurnKeeps
  <2>4. Len(stack) \in 1 .. Len(stack)
    BY <2>3
  <2> QED BY <2>1, <2>3, <2>4
<1>3. Pieces'
  <2>1. CASE s \in {"erase", "repair"}
    <3>1. Torn(Len(stack))
      BY <2>1, ErasePieces DEF AtWork, Calm
    <3>2. Torn(Len(stack))'
      BY <3>1, <1>2 DEF Torn, Beside, Kept, Saved
    <3> QED BY <3>2, <2>1, <1>2 DEF Pieces
  <2>2. CASE s \notin {"erase", "repair"}
    BY <2>2, <1>1, ErasePieces, WholePieces DEF AtWork, Calm
  <2> QED BY <2>1, <2>2
<1>4. /\ s = "enable" => BufHolds(Top)
      /\ s = "cmp" /\ res = Ok => BufHolds(Top)
  BY <1>2, TopIs DEF AtWork, DmaInv, Calm, Safe, Looked
<1> QED BY <1>1, <1>2, <1>3, <1>4, EraseStayCalm

LEMMA EraseQueueCalm ==
  ASSUME AtWork, Top.kind = "erase", NEW e, e # "receive", evs["erase"] = {},
         Queue("erase", e) \/ (QueueOnTimeout("erase", e) /\ lates' = lates),
         st["erase"] # "cmp",
         st["erase"] = "repair" => e # "success" /\ (e = "write" => res = Ok)
  PROVE  Calm'
<1>1. Stays(st["erase"], {e}) /\ dma' = NoTransfer /\ res' = res /\ stack' = stack
  BY QueueForm
<1> QED BY <1>1, EraseSameCalm

\* The pages that the search finds lie in the sector that the buffer holds.
LEMMA EraseCmpCalm ==
  ASSUME AtWork, Top.kind = "erase", evs["erase"] = {}, st["erase"] = "cmp", EraseCmp
  PROVE  Calm'
<1>0. PICK e \in {"error", "erase", "success"} :
        /\ e = IF res # Ok THEN "error" ELSE IF Written # {} THEN "erase" ELSE "success"
        /\ evs' = [evs EXCEPT !["erase"] = {e}]
        /\ stack' = IF e = "erase" THEN [stack EXCEPT ![Len(stack)].cnt = Min(Written)] ELSE stack
        /\ UNCHANGED <<main, st, res, dma, dataVars, faultVars>>
  BY DEF EraseCmp
<1>1. To("erase", "cmp", {e}) /\ main' = main /\ buf' = buf /\ dma' = NoTransfer /\ e # "receive"
  BY <1>0 DEF To, AtWork, DmaInv, Control, FsmType, dataVars
<1>2. Whole /\ (res = Ok => BufHolds(Top))
  BY ErasePieces, TopIs DEF AtWork, Calm, Safe, Looked, DmaInv
<1>3. CASE e # "erase"
  <2>1. stack' = stack
    BY <1>0, <1>3
  <2>2. Stays("cmp", {e})
    BY <1>1, <2>1, SameStack, StayForm DEF AtWork, DmaInv
  <2>3. Pieces'
    BY <2>2, <1>2, WholePieces DEF AtWork
  <2>4. stack'[Len(stack)] = Top /\ res' = res
    BY <2>1, <1>0, TopIs DEF AtWork, DmaInv
  <2> QED BY <1>1, <1>2, <1>3, <2>2, <2>3, <2>4, EraseStayCalm
<1>4. CASE e = "erase"
  <2>1. /\ Top \in EraseRoutes /\ Top = stack[Len(stack)] /\ stack \in Seq(Routes) /\ stack # <<>>
        /\ Top.cnt \in Nat /\ Len(Top.list) \in Nat
    BY EraseTop, TopIs DEF AtWork, DmaInv
  <2> DEFINE c == Min(Written)
  <2>2. Written # {} /\ res = Ok
    BY <1>0, <1>4
  <2>3. Written \in SUBSET (Top.cnt .. Len(Top.list) - 1)
    BY DEF Written
  <2>4. \A a, b \in Nat : a .. b - 1 \in SUBSET Nat
    OBVIOUS
  <2>5. Written \in SUBSET Nat
    BY <2>1, <2>3, <2>4
  <2>6. c \in Written
    BY <2>2, <2>5, LeastOf
  <2>7. c \in Top.cnt .. Len(Top.list) - 1 /\ \A j \in Top.cnt .. c : SectorOf(Top.list[j + 1]) = ListSector
    BY <2>6 DEF Written
  <2>8. stack' = [stack EXCEPT ![Len(stack)].cnt = c]
    BY <1>0, <1>4
  <2> HIDE DEF c
  <2>9. c \in Nat /\ c < Len(Top.list) /\ SectorOf(Top.list[c + 1]) = ListSector
    BY <2>1, <2>7
  <2> DEFINE q == [Top EXCEPT !.cnt = c]
  <2>10. stack' = [stack EXCEPT ![Len(stack)] = q]
    BY <2>1, <2>8
  <2>11. /\ q \in [kind : {"erase"}, list : Seq(Pages) \ {<<>>}, cnt : Nat, idx : Nat]
         /\ q.kind = "erase" /\ q.list = Top.list /\ q.cnt = c /\ q.idx = Top.idx
    BY <2>1, <2>9 DEF EraseRoutes
  <2> HIDE DEF q
  <2>12. q \in Routes /\ Same(Top, q)
    <3>1. q \in EraseRoutes
      BY <2>1, <2>9, <2>11 DEF EraseRoutes
    <3> QED BY <2>11, <3>1 DEF Routes, Same
  <2>13. Len(stack') = Len(stack) /\ BelowKept /\ Same(Top, Top') /\ stack'[Len(stack)] = q
    BY <2>10, <2>11, <2>12, CountTop DEF AtWork, DmaInv
  <2>14. Stays("cmp", {e})
    BY <1>1, <2>13, StayForm
  <2>15. Pieces'
    BY <2>14, <1>2, WholePieces DEF AtWork
  <2>16. BufHolds(q)
    BY <2>2, <2>9, <2>11, <1>2 DEF BufHolds, Beside, ListSector
  <2>17. res' = res
    BY <1>0
  <2> QED BY <1>1, <2>2, <2>13, <2>14, <2>15, <2>16, <2>17, EraseStayCalm
<1> QED BY <1>3, <1>4

LEMMA EraseHandlerCalm ==
  ASSUME AtWork, Top.kind = "erase", evs["erase"] = {}, EraseHandler, lates' = lates
  PROVE  Calm'
<1> DEFINE s == st["erase"]
<1>1. ASSUME NEW e \in {"success", "unblock", "next", RouteRes}, s \notin {"cmp", "repair"}, Queue("erase", e)
      PROVE  Calm'
  <2>1. e # "receive"
    BY DEF RouteRes
  <2> QED BY <1>1, <2>1, EraseQueueCalm
<1>2. CASE s = "init" /\ Queue("erase", IF Nested THEN "success" ELSE "unblock")
  <2>1. PICK e \in {"success", "unblock"} : Queue("erase", e)
    BY <1>2
  <2> QED BY <1>1, <1>2, <2>1
<1>3. CASE s \in {"unblock", "enable"} /\ Queue("erase", RouteRes)
  BY <1>1, <1>3
<1>4. CASE s = "loop" /\ Queue("erase", IF Top.cnt >= Len(Top.list) THEN "success" ELSE "next")
  <2>1. PICK e \in {"success", "next"} : Queue("erase", e)
    BY <1>4
  <2> QED BY <1>1, <1>4, <2>1
<1>5. CASE s = "cmp" /\ EraseCmp
  BY <1>5, EraseCmpCalm
<1>6. CASE s = "erase" /\ QueueOnTimeout("erase", "error")
  BY <1>6, EraseQueueCalm
<1>7. CASE s = "repair" /\ Queue("erase", IF res = Ok THEN "write" ELSE "error")
  <2>1. PICK e : e = (IF res = Ok THEN "write" ELSE "error") /\ Queue("erase", e)
    BY <1>7
  <2>2. e # "receive" /\ e # "success" /\ (e = "write" => res = Ok)
    BY <2>1
  <2> QED BY <1>7, <2>1, <2>2, EraseQueueCalm
<1>8. CASE s = "disable" /\ Queue("erase", IF Nested THEN "success" ELSE RouteRes)
  <2>1. PICK e \in {"success", RouteRes} : Queue("erase", e)
    BY <1>8
  <2> QED BY <1>1, <1>8, <2>1
<1> QED BY <1>2, <1>3, <1>4, <1>5, <1>6, <1>7, <1>8 DEF EraseHandler

\* An ERASE aims at no page that the request does not aim at.
LEMMA ListedAimed ==
  ASSUME DmaInv, Links, main = "run", Top.kind = "erase", Top.cnt < Len(Top.list)
  PROVE  Listed \subseteq Aimed(stack[1])
<1>1. Top.cnt \in Nat /\ Len(Top.list) \in Nat /\ Top.list \in Seq(Pages)
  BY EraseTop
<1>2. \A j \in Top.cnt + 1 .. Len(Top.list) : j \in DOMAIN Top.list
  BY <1>1
<1>3. \A j \in DOMAIN Top.list : Top.list[j] \in Aimed(stack[1])
  <2>1. CASE Len(stack) = 1
    <3>1. Top = stack[1]
      BY <2>1, TopIs DEF DmaInv
    <3> QED BY <3>1 DEF Aimed
  <2>2. CASE Len(stack) = 2
    <3>1. Top = stack[2] /\ stack[1].kind = "write"
      BY <2>2, TopIs, EraseTopForm DEF DmaInv
    <3>2. 1 \in 1 .. Len(stack) - 1 /\ 1 + 1 = 2
      BY <2>2
    <3>3. Link(stack[1], stack[2])
      BY <3>2 DEF Links
    <3> QED BY <3>1, <3>3 DEF Link
  <2> QED BY <2>1, <2>2, EraseTopForm DEF DmaInv
<1> QED BY <1>2, <1>3 DEF Listed

\* What the search for the next page to put back passes over is as it was: a
\* page aimed at does not count, a blank one is blank.
LEMMA RepairSkips ==
  ASSUME DmaInv, Links, main = "run", Top.kind = "erase", Top.cnt < Len(Top.list),
         Torn(Len(stack)),
         NEW idx \in Nat, \A p \in Beside(Top) : SlotOf(p) < idx => Kept(p),
         NEW n \in Nat,
         \A i \in idx .. n - 1 : ListSector * PagesPerSector + i \in Listed \/ buf[i] = Blank
  PROVE  \A p \in Beside(Top) : SlotOf(p) < n => Kept(p)
<1> SUFFICES ASSUME NEW p \in Beside(Top), SlotOf(p) < n PROVE Kept(p)
  OBVIOUS
<1>1. p \in Pages /\ p \notin Aimed(stack[1]) /\ SectorOf(p) = ListSector
  BY DEF Beside, Others, ListSector
<1>2. SlotOf(p) \in Nat /\ p = ListSector * PagesPerSector + SlotOf(p)
  BY <1>1, SectorPages DEF Slot
<1>3. CASE SlotOf(p) < idx
  BY <1>3
<1>4. CASE ~(SlotOf(p) < idx)
  <2>1. SlotOf(p) \in idx .. n - 1
    BY <1>2, <1>4
  <2>2. p \in Listed \/ buf[SlotOf(p)] = Blank
    BY <2>1, <1>2
  <2>3. buf[SlotOf(p)] = Blank
    BY <2>2, <1>1, ListedAimed
  <2>4. Saved(p)
    BY TopIs DEF Torn, DmaInv
  <2> QED BY <2>3, <2>4, PartlyFacts DEF Saved, Kept
<1> QED BY <1>3, <1>4

LEMMA RepairCalm ==
  ASSUME AtWork, Top.kind = "erase", st["erase"] \in {"erase", "repair"},
         NEW idx \in Nat, idx <= PagesPerSector, Repair(idx, {}),
         \A p \in Beside(Top) : SlotOf(p) < idx => Kept(p)
  PROVE  Calm'
<1> DEFINE first == ListSector * PagesPerSector
<1> DEFINE wanted == {i \in idx .. PagesPerSector - 1 : first + i \notin Listed /\ buf[i] # Blank}
<1>m. PICK m \in Nat \ {0} : m = Len(stack)
  BY TopIs DEF AtWork, DmaInv
<1>0. /\ Top \in EraseRoutes /\ Top = stack[m] /\ stack \in Seq(Routes) /\ stack # <<>>
      /\ m = Len(stack) /\ m \in 1 .. m /\ Top.cnt < Len(Top.list)
  BY <1>m, EraseTop, TopIs DEF AtWork, DmaInv
<1>1. Torn(m)
  BY <1>m, ErasePieces DEF AtWork, Calm
<1>2. PagesPerSector \in Nat
  BY FlashChipAssumption
<1>3. ASSUME NEW n \in Nat, \A i \in idx .. n - 1 : first + i \in Listed \/ buf[i] = Blank
      PROVE  \A p \in Beside(Top) : SlotOf(p) < n => Kept(p)
  BY <1>0, <1>1, <1>3, RepairSkips DEF AtWork, Calm
<1>4. ASSUME (\E E : Stays("repair", E)) \/ Asks("repair"),
             Same(Top, stack'[m]), stack'[m].cnt = Top.cnt,
             m < Len(stack') => \A p \in Beside(Top) : SlotOf(p) + 1 < stack'[m].idx => Kept(p),
             m = Len(stack') => \A p \in Beside(Top) : SlotOf(p) < stack'[m].idx => Kept(p)
      PROVE  Pieces'
  <2>1. st'["erase"] = "repair" /\ stack'[m].kind = "erase" /\ stack'[m].list = Top.list
    BY <1>4, <1>0, ScriptFacts DEF Stays, Asks, Turns, Same
  <2>2. mem' = mem /\ buf' = buf /\ before' = before /\ Others' = Others /\ Len(stack') \in {m, m + 1}
    BY <1>0, <1>4, TurnKeeps DEF AtWork
  <2>3. /\ \A p \in Others \ Beside(Top) : Kept(p)
        /\ \A p \in Beside(Top) : Saved(p)
    BY <1>0, <1>1 DEF Torn
  <2>4. \A p : p \in Beside(Top) <=> p \in Others' /\ SectorOf(p) = SectorOf(stack'[m].list[stack'[m].cnt + 1])
    BY <2>1, <2>2, <1>4 DEF Beside
  <2> DEFINE B == {p \in Others' : SectorOf(p) = SectorOf(stack'[m].list[stack'[m].cnt + 1])}
  <2>5. /\ \A p \in Others' \ B : mem'[p] = before'[p]
        /\ \A p \in B : buf'[SlotOf(p)] = before'[p] /\ mem'[p] \in Partly(before'[p])
        /\ m < Len(stack') => \A p \in B : SlotOf(p) + 1 < stack'[m].idx => mem'[p] = before'[p]
        /\ m = Len(stack') => \A p \in B : SlotOf(p) < stack'[m].idx => mem'[p] = before'[p]
    BY <2>2, <2>3, <2>4, <1>4 DEF Kept, Saved
  <2>6. m \in 1 .. Len(stack')
    BY <1>0, <2>2
  <2>7. Torn(m)'
    BY <2>1, <2>5 DEF Torn, Beside, Kept, Saved
  <2> QED BY <2>1, <2>6, <2>7 DEF Pieces
<1>5. CASE wanted = {}
  <2> DEFINE q == [Top EXCEPT !.idx = idx]
  <2>1. /\ To("erase", "repair", {"success"}) /\ stack' = [stack EXCEPT ![Len(stack)] = q]
        /\ UNCHANGED <<main, res, dma, dataVars, faultVars>>
    BY <1>0, <1>5 DEF Repair
  <2>2. /\ q \in [kind : {"erase"}, list : Seq(Pages) \ {<<>>}, cnt : Nat, idx : Nat]
        /\ q.list = Top.list /\ q.cnt = Top.cnt /\ q.idx = idx /\ q.kind = "erase"
    BY <1>0 DEF EraseRoutes
  <2> HIDE DEF q
  <2>3. q \in EraseRoutes
    BY <1>0, <2>2 DEF EraseRoutes
  <2>4. q \in Routes /\ Same(Top, q)
    BY <2>2, <2>3 DEF Routes, Same
  <2>5. Len(stack') = Len(stack) /\ BelowKept /\ Same(Top, Top') /\ stack'[Len(stack)] = q
    BY <2>1, <2>2, <2>4, CountTop DEF AtWork, DmaInv
  <2>6. Stays("repair", {"success"})
    BY <2>1, <2>5, StayForm DEF dataVars, AtWork
  <2>7. \A i \in idx .. PagesPerSector - 1 : first + i \in Listed \/ buf[i] = Blank
    BY <1>5
  <2>8. \A p \in Beside(Top) : SlotOf(p) < PagesPerSector => Kept(p)
    BY <2>7, <1>2, <1>3
  <2>9. Whole
    <3> SUFFICES ASSUME NEW p \in Others PROVE Kept(p)
      BY DEF Whole
    <3>1. SlotOf(p) < PagesPerSector
      BY SectorPages, <1>2 DEF Others, Slot
    <3> QED BY <3>1, <2>8, <1>0, <1>1 DEF Torn
  <2>10. Pieces'
    BY <1>0, <1>4, <2>2, <2>4, <2>5, <2>6
  <2>11. dma' = NoTransfer
    BY <2>1 DEF AtWork
  <2> QED BY <2>5, <2>6, <2>9, <2>10, <2>11, EraseStayCalm
<1>6. CASE wanted # {}
  <2> DEFINE i == Min(wanted)
  <2>1. wanted \in SUBSET Nat
    OBVIOUS
  <2>2. i \in wanted /\ \A j \in wanted : i <= j
    BY <1>6, <2>1, LeastOf
  <2>3. i \in idx .. PagesPerSector - 1
    BY <2>2
  <2> DEFINE q == [Top EXCEPT !.idx = i + 1]
  <2> DEFINE base == [stack EXCEPT ![Len(stack)] = q]
  <2>4. /\ To("erase", "repair", {}) /\ PushOn(base, RepairRoute(i))
        /\ UNCHANGED <<dma, dataVars, faultVars>>
    <3>1. PushOn([stack EXCEPT ![Len(stack)].idx = i + 1], RepairRoute(i))
      BY <1>6 DEF Repair, RepairRoute
    <3>2. [stack EXCEPT ![Len(stack)].idx = i + 1] = base
      BY <1>0
    <3>3. To("erase", "repair", {}) /\ UNCHANGED <<dma, dataVars, faultVars>>
      BY <1>6 DEF Repair
    <3> HIDE DEF base
    <3> QED BY <3>1, <3>2, <3>3
  <2>5. \A j \in idx .. i - 1 : first + j \in Listed \/ buf[j] = Blank
    <3> SUFFICES ASSUME NEW j \in idx .. i - 1 PROVE j \notin wanted /\ j \in idx .. PagesPerSector - 1
      OBVIOUS
    <3> HIDE DEF i, wanted
    <3>1. ~(i <= j) /\ j \in idx .. PagesPerSector - 1
      BY <1>2, <2>3
    <3> QED BY <3>1, <2>2
  <2> HIDE DEF i, wanted
  <2>6. i \in Slot /\ i \in Nat /\ i + 1 \in Nat /\ i + 1 <= PagesPerSector
    BY <2>3, <1>2 DEF Slot
  <2>7. /\ q \in [kind : {"erase"}, list : Seq(Pages) \ {<<>>}, cnt : Nat, idx : Nat]
        /\ q.kind = "erase" /\ q.list = Top.list /\ q.cnt = Top.cnt /\ q.idx = i + 1
    BY <1>0, <2>6 DEF EraseRoutes
  <2> HIDE DEF q
  <2>8. q \in EraseRoutes
    BY <1>0, <2>6, <2>7 DEF EraseRoutes
  <2>9. q \in Routes /\ Same(Top, q)
    BY <2>7, <2>8 DEF Routes, Same
  <2>10. /\ base \in Seq(Routes) /\ Len(base) = Len(stack) /\ base[Len(stack)] = q
         /\ \A j \in 1 .. Len(stack) - 1 : base[j] = stack[j]
    BY <1>0, <2>9
  <2> HIDE DEF base
  <2>11. RepairRoute(i) \in Routes
    BY <1>0, <2>6, RepairRouteType DEF Routes, AtWork
  <2> DEFINE route == RepairRoute(i)
  <2>12. Link(q, route) /\ route.kind = "write" /\ route \in Routes
    <3>1. PICK z \in Nat : /\ z = ListSector * PagesPerSector
                           /\ SectorOf(z + i) = ListSector /\ SlotOf(z + i) = i
      BY <1>0, <2>6, EraseSector DEF AtWork
    <3>2. route.addr = z + i /\ route.rx = SlotOf(Top.list[Top.cnt + 1]) /\ route.kind = "write"
      BY <3>1 DEF RepairRoute
    <3> HIDE DEF route
    <3>3. ListSector = SectorOf(Top.list[Top.cnt + 1])
      BY DEF ListSector
    <3>4. route \in Routes
      BY <2>11 DEF route
    <3> QED BY <3>1, <3>2, <3>3, <3>4, <2>7 DEF Link
  <2>13. To(Top.kind, "repair", {}) /\ PushOn(base, route)
    BY <2>4
  <2> HIDE DEF route
  <2>14. Asks("repair") /\ Top' = route /\ stack'[Len(stack)] = q
    BY <2>4, <2>9, <2>10, <2>12, <2>13, PushForm
  <2>15. \A p \in Beside(Top) : SlotOf(p) < i => Kept(p)
    BY <1>3, <2>5, <2>6
  <2>16. \A p \in Beside(Top) : SlotOf(p) + 1 < i + 1 => Kept(p)
    <3>1. \A p \in Beside(Top) : SlotOf(p) \in Nat
      BY SectorPages DEF Beside, Others, Slot
    <3> QED BY <3>1, <2>6, <2>15
  <2>17. Len(stack') = m + 1
    BY <2>14, <1>0 DEF Asks
  <2>18. m # Len(stack')
    BY <2>17, <1>0
  <2>19. Pieces'
    BY <2>7, <2>9, <2>14, <2>16, <2>18, <1>0, <1>4
  <2> QED BY <2>12, <2>14, <2>19, EraseAskCalm
<1> QED BY <1>5, <1>6

LEMMA EraseDispatchCalm ==
  ASSUME AtWork, Top.kind = "erase", NEW e \in evs["erase"], EraseDispatch(e)
  PROVE  Calm'
<1> DEFINE s == st["erase"]
<1> DEFINE rest == evs["erase"] \ {e}
<1>0. rest = {} /\ evs["erase"] = {e}
  BY OneEvent
<1>1. e \notin Async => MayOfErase(e)
  <2>1. e \notin Async => May(e)
    BY RestIsAsync DEF AtWork, DmaInv
  <2> QED BY <2>1, ScriptFacts DEF May
<1>2. /\ Top = stack[Len(stack)] /\ stack # <<>> /\ stack \in Seq(Routes)
      /\ Len(stack) \in Nat \ {0} /\ Len(stack) \in 1 .. Len(stack)
      /\ Top \in EraseRoutes /\ Top.cnt \in Nat /\ Len(Top.list) \in Nat \ {0}
      /\ s \in {"cmp", "enable", "erase", "repair", "disable"} => Top.cnt < Len(Top.list)
  BY TopIs, EraseTop DEF AtWork, DmaInv
<1>3. s \notin {"erase", "repair"} => Whole
  BY ErasePieces DEF AtWork, Calm
<1>4. \A k \in Plain : [kind |-> k] \in Routes /\ [kind |-> k].kind = k /\ Link(Top, [kind |-> k])
  BY DEF Routes, PlainRoutes, Link, Plain
<1>5. ASSUME NEW k \in Plain, NEW t, t \notin {"erase", "repair"}, Whole, t = "enable" => BufHolds(Top),
             Sub("erase", t, {}, [kind |-> k])
      PROVE  Calm'
  <2> DEFINE route == [kind |-> k]
  <2>1. route \in Routes /\ route.kind = k /\ Link(Top, route)
    BY <1>4
  <2>2. k # "erase" /\ Sub("erase", t, {}, route)
    BY <1>5 DEF Plain
  <2> HIDE DEF route
  <2> QED BY <1>5, <2>1, <2>2, EraseSubCalm
<1>6. ASSUME NEW n \in Nat, n <= Len(Top.list), Whole, SetCnt("loop", n, {})
      PROVE  Calm'
  <2> DEFINE q == [Top EXCEPT !.cnt = n]
  <2>1. /\ stack' = [stack EXCEPT ![Len(stack)] = q] /\ To("erase", "loop", {})
        /\ UNCHANGED <<main, res, dma, dataVars, faultVars>>
    BY <1>2, <1>6 DEF SetCnt
  <2>2. /\ q \in [kind : {"erase"}, list : Seq(Pages) \ {<<>>}, cnt : Nat, idx : Nat]
        /\ q.list = Top.list /\ q.cnt = n /\ q.idx = Top.idx /\ q.kind = "erase"
    BY <1>2 DEF EraseRoutes
  <2> HIDE DEF q
  <2>3. q \in EraseRoutes
    BY <1>2, <1>6, <2>2 DEF EraseRoutes
  <2>4. q \in Routes /\ Same(Top, q)
    BY <2>2, <2>3 DEF Routes, Same
  <2>5. Len(stack') = Len(stack) /\ BelowKept /\ Same(Top, Top')
    BY <2>1, <2>2, <2>4, CountTop DEF AtWork, DmaInv
  <2>6. Stays("loop", {}) /\ dma' = NoTransfer
    BY <2>1, <2>5, StayForm DEF dataVars, AtWork
  <2>7. Pieces'
    <3>1. \E E : Stays("loop", E)
      BY <2>6
    <3>2. "loop" \notin {"erase", "repair"}
      OBVIOUS
    <3> QED BY <1>6, <3>1, <3>2, WholePieces DEF AtWork
  <2> QED BY <2>6, <2>7, EraseStayCalm
<1> HIDE DEF rest
<1>7. CASE s = "init" /\ e = "unblock" /\ Sub("erase", "unblock", rest, [kind |-> "unblock"])
  BY <1>0, <1>3, <1>5, <1>7 DEF Plain
<1>8. CASE s \in {"init", "unblock"} /\ e = "success" /\ SetCnt("loop", 0, {})
  <2>1. 0 <= Len(Top.list)
    BY <1>2
  <2> QED BY <1>3, <1>6, <1>8, <2>1
<1>9. CASE s = "loop" /\ e = "success" /\ Succeed("erase")
  <2>1. Leave("erase", "init", Ok)
    BY <1>9, ScriptFacts DEF Succeed, Start
  <2> QED BY <1>3, <1>9, <2>1, EraseLeaveCalm
<1>10. CASE s = "loop" /\ e = "next" /\ Sub("erase", "cmp", rest, SectorRoute)
  <2>1. ~(Top.cnt >= Len(Top.list))
    BY <1>1, <1>10 DEF Async, MayOfErase
  <2>2. Top.cnt < Len(Top.list)
    BY <1>2, <2>1
  <2>3. SectorRoute \in Routes /\ SectorRoute.kind = "read"
    BY <2>2, EraseSector DEF Routes, AtWork
  <2>4. Link(Top, SectorRoute)
    BY DEF Link, SectorRoute, ListSector
  <2> QED BY <1>0, <1>3, <1>10, <2>3, <2>4, EraseSubCalm
<1>11. CASE s \in {"cmp", "disable"} /\ e = "success" /\ SetCnt("loop", NextListed, rest)
  <2>1. NextListed \in Nat /\ NextListed <= Len(Top.list)
    BY NextListedType DEF AtWork
  <2> QED BY <1>0, <1>3, <1>6, <1>11, <2>1
<1>12. CASE s = "cmp" /\ e = "erase" /\ Sub("erase", "enable", rest, [kind |-> "on"])
  <2>1. BufHolds(Top)
    BY <1>0, <1>2, <1>12 DEF AtWork, Calm, Safe, Looked
  <2> QED BY <1>0, <1>3, <1>5, <1>12, <2>1 DEF Plain
<1>13. CASE /\ s = "enable" /\ e = "success"
            /\ Transfer(Tx(<<"erase", 0>>, ListSector * PagesPerSector), "erase", "erase", {})
            /\ UNCHANGED <<stack, main, dataVars>>
  <2> DEFINE cmd == Tx(<<"erase", 0>>, ListSector * PagesPerSector)
  <2>1. \/ Stays("erase", {}) /\ dma' = cmd
        \/ Stays("erase", {"error"}) /\ dma' = NoTransfer
    BY <1>13, SameStack, TransferForm DEF AtWork, DmaInv, dataVars
  <2>2. PICK E : Stays("erase", E) /\ (dma' # NoTransfer => E = {} /\ dma' = cmd)
    BY <2>1
  <2>3. /\ mem' = mem /\ buf' = buf /\ before' = before /\ Others' = Others /\ stack' = stack
        /\ st'["erase"] = "erase" /\ evs'["erase"] = E /\ main' = "run"
    BY <1>13, <2>2, TurnKeeps, ScriptFacts DEF AtWork, Stays, Turns
  <2>4. dma' # NoTransfer => Sync'
    <3>1. SUFFICES ASSUME dma' = cmd, E = {} PROVE Sync'
      BY <2>2
    <3>2. dma'.late = FALSE
      BY <3>1 DEF Tx
    <3>3. Top' = Top /\ ListSector' = ListSector
      BY <2>3 DEF Top, ListSector
    <3> QED BY <2>3, <3>1, <3>2, <3>3 DEF Sync
  <2>5. Whole /\ BufHolds(Top)
    BY <1>2, <1>3, <1>13 DEF AtWork, Calm, Safe, Looked
  <2>6. Pieces'
    <3>1. PICK i : i = Len(stack) /\ i \in 1 .. Len(stack) /\ Top = stack[i] /\ Len(stack') = Len(stack)
      BY <1>2, <2>3
    <3>2. /\ \A p \in Others : Kept(p)
          /\ \A p \in Beside(Top) : Saved(p)
      <4>1. \A p \in Others : Kept(p) /\ p \in Pages
        BY <2>5 DEF Whole, Others
      <4>2. \A p \in Beside(Top) : p \in Others /\ buf[SlotOf(p)] = mem[p]
        BY <2>5 DEF BufHolds, Beside
      <4>3. \A p \in Beside(Top) : mem[p] \in Partly(before[p])
        BY <1>0, <4>1, <4>2, KeptIsSaved DEF AtWork, DmaInv
      <4> QED BY <4>1, <4>2, <4>3 DEF Saved, Kept
    <3>3. Torn(i)'
      BY <2>3, <3>1, <3>2 DEF Torn, Beside, Kept, Saved
    <3> QED BY <2>3, <3>1, <3>3 DEF Pieces
  <2> QED BY <2>2, <2>4, <2>6, EraseStayCalm
<1>14. CASE s = "erase" /\ e = "transmit" /\ Repair(0, rest)
  <2>1. 0 <= PagesPerSector /\ 0 \in Nat
    BY FlashChipAssumption
  <2>2. \A p \in Beside(Top) : ~(SlotOf(p) < 0)
    BY SectorPages, FlashChipAssumption DEF Beside, Others, Slot
  <2> QED BY <1>0, <1>14, <2>1, <2>2, RepairCalm
<1>15. CASE s = "repair" /\ e = "write" /\ Repair(Top.idx, rest)
  <2>1. res = Ok
    BY <1>0, <1>15 DEF AtWork, Calm, Safe, Looked
  <2>2. Torn(Len(stack))
    BY <1>15, ErasePieces DEF AtWork, Calm
  <2>3. \A p \in Beside(Top) : SlotOf(p) < Top.idx => Kept(p)
    BY <1>2, <1>15, <2>1, <2>2 DEF Torn
  <2> QED BY <1>0, <1>15, <2>3, RepairCalm, EraseTop DEF AtWork
<1>16. CASE s = "repair" /\ e = "success" /\ Disable(rest)
  <2>1. Whole
    BY <1>0, <1>16 DEF AtWork, Calm, Safe, Looked
  <2>2. CASE Stay("erase", "disable", {})
    <3>1. To(Top.kind, "disable", {}) /\ main' = main /\ buf' = buf /\ dma' = NoTransfer /\ stack' = stack
      BY <2>2 DEF Stay, AtWork, dataVars
    <3>2. Stays("disable", {})
      BY <3>1, SameStack, StayForm DEF AtWork, DmaInv
    <3>3. Pieces'
      BY <2>1, <3>2, WholePieces DEF AtWork
    <3> QED BY <3>1, <3>2, <3>3, EraseStayCalm
  <2>3. CASE Sub("erase", "disable", {}, [kind |-> "off"])
    BY <1>5, <2>1, <2>3 DEF Plain
  <2> QED BY <1>0, <1>16, <2>2, <2>3 DEF Disable
<1>17. CASE e = "error" /\ Fail("erase")
  <2> DEFINE r == IF res = Ok THEN Error ELSE res
  <2>1. r # Ok
    BY DEF Ok, Error
  <2>2. Leave("erase", "init", r)
    BY <1>17, ScriptFacts DEF Fail, Start
  <2> HIDE DEF r
  <2> QED BY <2>1, <2>2, EraseLeaveCalm
<1> QED BY <1>7, <1>8, <1>9, <1>10, <1>11, <1>12, <1>13, <1>14, <1>15, <1>16, <1>17 DEF EraseDispatch, rest

\* A handler that runs while a transfer is under way can only wait for it.
LEMMA RunHandlerCalm ==
  ASSUME DmaInv, Calm, lates = 0, lates' = 0, RunHandler
  PROVE  Calm'
<1>1. main = "run" /\ Still /\ evs[Top.kind] = {} /\ Handler(Top.kind)
  BY DEF RunHandler, Running, Still
<1>2. Top.kind \in Kinds
  BY <1>1, TopIs DEF DmaInv
<1>3. /\ Top.kind \in DOMAIN Script => ScriptHandler(Top.kind)
      /\ Top.kind = "free" => FreeHandler
      /\ Top.kind = "write" => WriteHandler
      /\ Top.kind = "erase" => EraseHandler
  BY <1>1, ScriptFacts DEF Handler
<1>4. ASSUME dma # NoTransfer PROVE TimedOut
  <2>1. CASE Top.kind = "free" /\ st["free"] = "free"
    BY <2>1, <1>3 DEF FreeHandler, QueueOnTimeout
  <2>2. CASE Top.kind \in DOMAIN Script /\ st[Top.kind] > 0 /\ Script[Top.kind][st[Top.kind]] # "free"
    BY <2>2, <1>3 DEF ScriptHandler, QueueOnTimeout
  <2>3. CASE Top.kind = "write" /\ st["write"] \in {"cmd", "data"}
    BY <2>3, <1>3 DEF WriteHandler, QueueOnTimeout
  <2>4. CASE Top.kind = "erase" /\ st["erase"] = "erase"
    BY <2>4, <1>3 DEF EraseHandler, QueueOnTimeout
  <2> QED BY <1>4, <2>1, <2>2, <2>3, <2>4 DEF Calm, Timely, Sync
<1>5. dma = NoTransfer
  BY <1>1, <1>4, NothingUnderWay DEF Calm, Timely
<1>6. AtWork /\ lates' = lates
  BY <1>1, <1>5 DEF AtWork
<1>7. CASE Top.kind \in DOMAIN Script
  BY <1>1, <1>3, <1>6, <1>7, ScriptHandlerCalm
<1>8. CASE Top.kind = "free"
  BY <1>1, <1>3, <1>6, <1>8, FreeHandlerCalm
<1>9. CASE Top.kind = "write"
  BY <1>1, <1>3, <1>6, <1>9, WriteHandlerCalm
<1>10. CASE Top.kind = "erase"
  BY <1>1, <1>3, <1>6, <1>10, EraseHandlerCalm
<1> QED BY <1>2, <1>7, <1>8, <1>9, <1>10 DEF Kinds

LEMMA DropCalm ==
  ASSUME AtWork, NEW e \in evs[Top.kind],
         To(Top.kind, st[Top.kind], evs[Top.kind] \ {e}),
         UNCHANGED <<stack, main, res, dma, dataVars>>
  PROVE  Calm'
<1> DEFINE s == st[Top.kind]
<1>1. /\ To(Top.kind, s, {}) /\ main' = main /\ buf' = buf /\ dma' = NoTransfer
      /\ stack' = stack /\ res' = res
  BY OneEvent DEF AtWork, dataVars
<1>2. Stays(s, {})
  BY <1>1, SameStack, StayForm DEF AtWork, DmaInv
<1>3. CASE Top.kind = "write"
  <2>1. Doomed => s = "erase" /\ res # Ok
    BY <1>3 DEF Doomed, AtWork
  <2> QED BY <1>1, <1>2, <1>3, <2>1, WriteStayCalm
<1>4. CASE Top.kind = "erase"
  BY <1>1, <1>2, <1>4, EraseSameCalm
<1>5. CASE Top.kind \notin {"write", "erase"}
  <2>1. /\ Top.kind = "read" /\ s = 1 /\ res = Ok => ~chip.busy
        /\ Top.kind = "read" /\ s = 2 => ~chip.busy
    BY TopIs DEF AtWork, DmaInv, Calm, Timely, FreeTells
  <2> QED BY <1>1, <1>2, <1>5, <2>1, InnerStay
<1> QED BY <1>3, <1>4, <1>5

LEMMA RunEventCalm ==
  ASSUME DmaInv, Calm, lates = 0, lates' = 0, RunEvent
  PROVE  Calm'
<1>1. main = "run" /\ Still
  BY DEF RunEvent, Running, Still
<1>2. PICK e \in evs[Top.kind] :
        IF Accepts(Top.kind, e)
        THEN Dispatch(Top.kind, e)
        ELSE To(Top.kind, st[Top.kind], evs[Top.kind] \ {e})
             /\ UNCHANGED <<stack, main, res, dma, dataVars, faultVars>>
  BY DEF RunEvent
<1>3. Top.kind \in Kinds
  BY <1>1, TopIs DEF DmaInv
<1>4. AtWork
  <2>1. evs[Top.kind] # {}
    BY <1>2
  <2> QED BY <1>1, <2>1, NothingUnderWay DEF AtWork, Calm, Timely
<1>5. CASE ~Accepts(Top.kind, e)
  BY <1>2, <1>4, <1>5, DropCalm
<1>6. CASE Dispatch(Top.kind, e)
  <2>1. /\ Top.kind \in DOMAIN Script => ScriptDispatch(Top.kind, e)
        /\ Top.kind = "free" => FreeDispatch(e)
        /\ Top.kind = "write" => WriteDispatch(e)
        /\ Top.kind = "erase" => EraseDispatch(e)
    BY <1>6, ScriptFacts DEF Dispatch
  <2>2. CASE Top.kind \in DOMAIN Script
    BY <1>2, <1>4, <2>1, <2>2, ScriptDispatchCalm
  <2>3. CASE Top.kind = "free"
    BY <1>2, <1>4, <2>1, <2>3, FreeDispatchCalm
  <2>4. CASE Top.kind = "write"
    BY <1>2, <1>4, <2>1, <2>4, WriteDispatchCalm
  <2>5. CASE Top.kind = "erase"
    BY <1>2, <1>4, <2>1, <2>5, EraseDispatchCalm
  <2> QED BY <1>3, <2>2, <2>3, <2>4, <2>5 DEF Kinds
<1> QED BY <1>2, <1>5, <1>6

-----------------------------------------------------------------------------
(* A transfer ends, in time                                                *)

\* The event of a transfer goes to the machine that has started it.
Ends(e) ==
    /\ main = "run" /\ stack # <<>> /\ stack' = stack /\ Top' = Top /\ main' = main /\ st' = st
    /\ res' = res /\ before' = before /\ dma' = NoTransfer
    /\ Top.kind \in Kinds /\ evs[Top.kind] = {} /\ dma.late = FALSE
    /\ \A k \in Kinds : evs'[k] = IF k = Top.kind THEN {e} ELSE {}

LEMMA EndForm ==
  ASSUME DmaInv, Calm, dma # NoTransfer, NEW e \in Async, Interrupt(e)
  PROVE  Ends(e)
<1>1. main = "run" /\ evs[Top.kind] = {} /\ dma.late = FALSE
  BY DEF Calm, Timely, Sync
<1>2. stack # <<>> /\ Top.kind \in Kinds /\ evs \in [Kinds -> SUBSET Events]
  BY <1>1, TopIs DEF DmaInv, Control, FsmType
<1>3. /\ stack' = stack /\ main' = main /\ st' = st /\ res' = res /\ before' = before /\ dma' = NoTransfer
      /\ evs' = [evs EXCEPT ![Top.kind] = @ \cup {e}]
  BY <1>2 DEF Interrupt, userVars
<1> DEFINE c == Top.kind
<1>4. \A k \in Kinds : k # c => evs[k] = {}
  BY DEF Calm, Timely, Quiet
<1>5. c \in Kinds /\ evs[c] = {} /\ evs' = [evs EXCEPT ![c] = @ \cup {e}]
  BY <1>1, <1>2, <1>3
<1> HIDE DEF c
<1>6. \A k \in Kinds : evs'[k] = IF k = c THEN {e} ELSE {}
  BY <1>2, <1>4, <1>5
<1> QED BY <1>1, <1>2, <1>3, <1>6 DEF c, Top, Ends

LEMMA EndTimely ==
  ASSUME DmaInv, Calm, dma # NoTransfer, NEW e \in Async, Interrupt(e),
         chip'.busy = chip.busy \/ Top.kind \in {"write", "erase"},
         Top.kind = "free" /\ e = "receive" => sr1' = chip.busy,
         Top.kind = "read" /\ e = "receive" => Filled(Top)'
  PROVE  Links' /\ Timely'
<1>0. Ends(e)
  BY EndForm
<1>1. Links'
  BY <1>0 DEF Calm, Links, Ends
<1>2. Sync' /\ Quiet'
  BY <1>0 DEF Sync, Quiet, Ends
<1>3. "free" \in Kinds /\ "read" \in Kinds
  BY ScriptFacts
<1>4. e # "success"
  BY DEF Async
<1>5. Top.kind \in {"write", "erase"} => st["read"] = 0
  BY <1>0, UnderWork DEF DmaInv, Ends
<1>6. Top.kind = "read" => st["read"] # 1
  BY ScriptFacts DEF Calm, Timely, Sync
<1>7. FreeTells'
  BY <1>0, <1>3, <1>4, <1>5, <1>6 DEF FreeTells, Calm, Timely, Ends
<1>8. ReadTells'
  BY <1>0, <1>3 DEF ReadTells, Ends
<1> QED BY <1>1, <1>2, <1>7, <1>8 DEF Timely

LEMMA EndSafe ==
  ASSUME DmaInv, Calm, dma # NoTransfer, NEW e \in Async, Interrupt(e),
         Pieces', st["erase"] = "enable" => mem' = mem /\ buf' = buf
  PROVE  Safe'
<1>0. Ends(e)
  BY EndForm
<1>1. "erase" \in Kinds /\ "write" \in Kinds
  BY ScriptFacts
<1>2. \A k \in Kinds : "erase" \notin evs'[k] /\ "write" \notin evs'[k] /\ "success" \notin evs'[k]
  BY <1>0 DEF Async, Ends
<1>3. /\ Top.kind = "erase" => st["erase"] # "cmp"
      /\ Top.kind = "write" => st["write"] # "cmp"
  BY ScriptFacts DEF Calm, Timely, Sync
<1>4. Others' = Others
  BY <1>0 DEF Others, Ends
<1>5. Looked'
  BY <1>0, <1>1, <1>2, <1>3, <1>4 DEF Looked, Calm, Safe, BufHolds, Beside, Ends
<1>6. PutBack'
  BY <1>0, <1>1, <1>3 DEF PutBack, Ends
<1> QED BY <1>5, <1>6 DEF Safe

\* Nothing but the buffer of the user or a bit of the chip has changed.
LEMMA HarmlessCalm ==
  ASSUME DmaInv, Calm, dma # NoTransfer, NEW e \in Async, Interrupt(e),
         mem' = mem, buf' = buf, chip'.busy = chip.busy,
         Top.kind = "free" /\ e = "receive" => sr1' = chip.busy,
         Top.kind = "read" /\ e = "receive" => Filled(Top)'
  PROVE  Calm'
<1>0. Ends(e)
  BY EndForm
<1>1. Others' = Others
  BY <1>0 DEF Others, Ends
<1>2. ~Doomed
  BY <1>0, ScriptFacts DEF Doomed, Calm, Timely, Sync, Ends
<1>3. Pieces'
  <2>1. CASE st["erase"] \in {"erase", "repair"}
    <3>1. PICK i \in 1 .. Len(stack) : Torn(i)
      BY <2>1, <1>0 DEF Calm, Safe, Pieces, Ends
    <3>2. Torn(i)'
      BY <3>1, <1>1, <1>0 DEF Torn, Beside, Kept, Saved, Ends
    <3> QED BY <3>2, <2>1, <1>0 DEF Pieces, Ends
  <2>2. CASE st["erase"] \notin {"erase", "repair"}
    <3>1. Whole'
      BY <2>2, <1>1, <1>2, <1>0 DEF Calm, Safe, Pieces, Whole, Kept, Ends
    <3> QED BY <3>1, <2>2, <1>0 DEF Pieces, Ends
  <2> QED BY <2>1, <2>2
<1>4. Links' /\ Timely'
  BY EndTimely
<1>5. Safe'
  BY <1>3, EndSafe
<1> QED BY <1>4, <1>5 DEF Calm

LEMMA SentForm ==
  ASSUME ChipType, NEW cut \in BOOLEAN, Sent(dma, cut)
  PROVE  /\ buf' = buf /\ sr1' = sr1
         /\ \/ mem' = mem /\ chip'.busy = chip.busy
            \/ /\ dma.what = <<"erase", 0>>
               /\ mem' = [p \in Pages |-> IF p \in Neighbours(dma.page) THEN Blank ELSE mem[p]]
            \/ /\ dma.what = <<"data", 0>>
               /\ \E n \in 1 .. PageSize : mem' = [mem EXCEPT ![dma.page] = Programmed(@, dma.data, n)]
<1> DEFINE blanked == [p \in Pages |-> IF p \in Neighbours(dma.page) THEN Blank ELSE mem[p]]
           works == [chip EXCEPT !.busy = TRUE, !.wel = FALSE]
           on == [chip EXCEPT !.wel = TRUE]
           off == [chip EXCEPT !.wel = FALSE]
           locked == [chip EXCEPT !.locked = TRUE]
           unlocked == [chip EXCEPT !.locked = FALSE]
<1>1. PICK effect \in Effects(dma, cut) : mem' = effect[1] /\ chip' = effect[2]
  BY DEF Sent
<1>2. buf' = buf /\ sr1' = sr1
  BY DEF Sent, dataVars
<1>3. \A m, c : <<m, c>>[1] = m /\ <<m, c>>[2] = c
  OBVIOUS
<1>4. \A c \in {chip, on, off, locked, unlocked} : c.busy = chip.busy
  BY DEF ChipType
<1>5. CASE effect = <<mem, chip>>
  BY <1>1, <1>2, <1>3, <1>5
<1>6. CASE \E n \in 1 .. PageSize : effect = Effect(dma, n)
  <2>n. PICK n \in 1 .. PageSize : effect = Effect(dma, n)
    BY <1>6
  <2> DEFINE burnt == [mem EXCEPT ![dma.page] = Programmed(@, dma.data, n)]
  <2>1. Effect(dma, n) =
          CASE chip.busy -> <<mem, chip>>
            [] ~chip.busy /\ dma.what = <<"on", 2>>      -> <<mem, on>>
            [] ~chip.busy /\ dma.what = <<"off", 2>>     -> <<mem, off>>
            [] ~chip.busy /\ dma.what = <<"unblock", 3>> -> <<mem, unlocked>>
            [] ~chip.busy /\ dma.what = <<"off", 5>>     -> <<mem, locked>>
            [] ~chip.busy /\ (chip.wel /\ ~chip.locked) /\ dma.what = <<"erase", 0>> -> <<blanked, works>>
            [] ~chip.busy /\ (chip.wel /\ ~chip.locked) /\ dma.what = <<"data", 0>> -> <<burnt, works>>
            [] OTHER -> <<mem, chip>>
    BY DEF Effect
  <2> HIDE DEF blanked, burnt, works, on, off, locked, unlocked
  <2>2. \/ \E c \in {chip, on, off, locked, unlocked} : Effect(dma, n) = <<mem, c>>
        \/ dma.what = <<"erase", 0>> /\ Effect(dma, n) = <<blanked, works>>
        \/ dma.what = <<"data", 0>> /\ Effect(dma, n) = <<burnt, works>>
    BY <2>1
  <2>3. CASE \E c \in {chip, on, off, locked, unlocked} : Effect(dma, n) = <<mem, c>>
    <3>1. PICK c \in {chip, on, off, locked, unlocked} : Effect(dma, n) = <<mem, c>>
      BY <2>3
    <3>2. mem' = mem /\ chip' = c
      BY <1>1, <1>3, <2>n, <3>1
    <3> QED BY <1>2, <1>4, <3>2
  <2>4. CASE dma.what = <<"erase", 0>> /\ Effect(dma, n) = <<blanked, works>>
    <3>1. mem' = blanked
      BY <1>1, <1>3, <2>n, <2>4
    <3> QED BY <1>2, <2>4, <3>1 DEF blanked
  <2>5. CASE dma.what = <<"data", 0>> /\ Effect(dma, n) = <<burnt, works>>
    <3>1. mem' = burnt
      BY <1>1, <1>3, <2>n, <2>5
    <3> QED BY <1>2, <2>5, <3>1 DEF burnt
  <2> QED BY <2>2, <2>3, <2>4, <2>5
<1>7. PageSize \in 1 .. PageSize
  BY FlashChipAssumption
<1> QED BY <1>1, <1>5, <1>6, <1>7 DEF Effects

\* Whose transfer changes a page, or brings something in
LEMMA WhoseTransfer ==
  ASSUME DmaInv, Calm, dma # NoTransfer
  PROVE  /\ dma.op = "tx" /\ dma.what = <<"erase", 0>> =>
              /\ Top.kind = "erase" /\ st["erase"] = "erase"
              /\ dma.page = ListSector * PagesPerSector
         /\ dma.op = "tx" /\ dma.what = <<"data", 0>> =>
              /\ Top.kind = "write" /\ st["write"] = "data"
              /\ dma.page = Top.addr + Top.cnt - 1 /\ dma.data = TxPage(Top, Top.cnt - 1)
         /\ dma.op = "rx" =>
              \/ Top.kind = "free" /\ dma = RxStatus
              \/ Top.kind = "read" /\ st["read"] = 2 /\ dma = RxData(Top)
<1>1. CASE Top.kind = "free" /\ dma \in {Tx(<<"sr1", 0>>, 0), RxStatus}
  BY <1>1 DEF Tx, RxStatus
<1>2. CASE Top.kind \in DOMAIN Script /\ dma = Tx(<<Top.kind, st[Top.kind]>>, 0)
  BY <1>2, ScriptFacts DEF Tx
<1>3. CASE Top.kind = "read" /\ st["read"] > 0 /\ Script["read"][st["read"]] # "free" /\ dma = RxData(Top)
  <2>1. st["read"] \in StatesOf("read") /\ StatesOf("read") = 0 .. 2
    BY ScriptFacts DEF DmaInv, Control, FsmType, StatesOf
  <2>2. st["read"] = 2
    BY <1>3, <2>1, ScriptFacts
  <2> QED BY <1>3, <2>2 DEF RxData
<1>4. CASE Top.kind = "write" /\ dma = Tx(<<"program", 0>>, 0)
  BY <1>4 DEF Tx
<1>5. CASE Top.kind = "write" /\ st["write"] = "data" /\ dma = TxData(Top.addr + Top.cnt - 1, TxPage(Top, Top.cnt - 1))
  BY <1>5 DEF TxData
<1>6. CASE Top.kind = "erase" /\ st["erase"] = "erase" /\ dma = Tx(<<"erase", 0>>, ListSector * PagesPerSector)
  BY <1>6 DEF Tx
<1> QED BY <1>1, <1>2, <1>3, <1>4, <1>5, <1>6 DEF Calm, Timely, Sync

\* The sector is erased: the buffer has what the request does not aim at.
LEMMA ErasedCalm ==
  ASSUME DmaInv, Calm, dma # NoTransfer, NEW e \in {"transmit", "error"}, Interrupt(e),
         Top.kind = "erase", st["erase"] = "erase", buf' = buf,
         mem' = [p \in Pages |-> IF p \in Neighbours(ListSector * PagesPerSector) THEN Blank ELSE mem[p]]
  PROVE  Calm'
<1>0. Ends(e) /\ e \in Async
  BY EndForm DEF Async
<1>1. Links' /\ Timely'
  BY <1>0, EndTimely
<1>2. PICK n \in Nat : n = Len(stack) /\ n \in 1 .. Len(stack) /\ Top = stack[n]
  BY <1>0, TopIs DEF Ends, DmaInv
<1>3. Torn(n)
  BY <1>0, <1>2, ErasePieces DEF Ends, Calm
<1>4. SectorOf(ListSector * PagesPerSector) = ListSector
  <2>1. Top.cnt < Len(Top.list) /\ 0 \in Slot
    BY <1>0, EraseTop, FlashChipAssumption DEF Ends, Slot
  <2>2. PICK z \in Nat : z = ListSector * PagesPerSector /\ SectorOf(z + 0) = ListSector
    BY <1>0, <2>1, EraseSector DEF Ends
  <2>3. z + 0 = z
    OBVIOUS
  <2> QED BY <2>2, <2>3
<1>5. ListSector = SectorOf(stack[n].list[stack[n].cnt + 1])
  BY <1>2 DEF ListSector
<1>6. \A p \in Others : mem'[p] = IF p \in Beside(stack[n]) THEN Blank ELSE mem[p]
  BY <1>4, <1>5 DEF Others, Beside, Neighbours
<1>7. Others' = Others
  BY <1>0 DEF Ends, Others
<1>8. \A p \in Beside(stack[n]) : p \in Others
  BY DEF Beside
<1>9. /\ \A p \in Others \ Beside(stack[n]) : mem'[p] = before'[p]
      /\ \A p \in Beside(stack[n]) : buf'[SlotOf(p)] = before'[p] /\ mem'[p] \in Partly(before'[p])
  <2>1. \A p \in Beside(stack[n]) : Blank \in Partly(before[p])
    BY <1>8, PartlyFacts DEF Others, DmaInv, ChipType
  <2> QED BY <1>0, <1>3, <1>6, <1>8, <2>1 DEF Ends, Torn, Kept, Saved
<1>10. Torn(n)'
  BY <1>0, <1>3, <1>7, <1>9 DEF Ends, Torn, Beside, Kept, Saved
<1>11. Pieces'
  BY <1>0, <1>2, <1>10 DEF Ends, Pieces
<1>12. Safe'
  BY <1>0, <1>11, EndSafe
<1> QED BY <1>1, <1>12 DEF Calm

\* What lies under a route of WRITE and what it waits for
LEMMA UnderWrite ==
  ASSUME Control, NEW m \in 1 .. Len(stack), stack[m].kind = "write"
  PROVE  \/ m = 1
         \/ m \in {2, 3} /\ stack[m - 1].kind = "erase" /\ st["erase"] = "repair"
<1>1. stack \in Seq(Routes) /\ Len(stack) \in Nat /\ m \in Nat \ {0} /\ m <= Len(stack)
  BY DEF Control, FsmType
<1>2. m > 1 => \/ m = 2 /\ stack[1].kind = "erase"
               \/ m = 3 /\ stack[2].kind = "erase" /\ stack[1].kind = "write"
  BY StackForm DEF Control, FsmType
<1>3. m = 2 /\ stack[1].kind = "erase" => Waits("erase", st["erase"], "write")
  <2> SUFFICES ASSUME m = 2, stack[1].kind = "erase" PROVE Waits("erase", st["erase"], "write")
    OBVIOUS
  <2>1. 1 \in 1 .. Len(stack) - 1 /\ ~Twice /\ stack[1 + 1].kind = "write"
    BY <1>1 DEF Twice
  <2> QED BY <2>1 DEF Control, Shape
<1>4. m = 3 /\ stack[2].kind = "erase" => Waits("erase", st["erase"], "write")
  <2> SUFFICES ASSUME m = 3, stack[2].kind = "erase" PROVE Waits("erase", st["erase"], "write")
    OBVIOUS
  <2>1. 2 \in 1 .. Len(stack) - 1 /\ stack[2 + 1].kind = "write"
    BY <1>1
  <2> QED BY <2>1 DEF Control, Shape
<1>5. Waits("erase", st["erase"], "write") => st["erase"] = "repair"
  BY ScriptFacts DEF Waits
<1>6. m > 1 \/ m = 1
  BY <1>1
<1>7. m = 2 => m - 1 = 1
  OBVIOUS
<1>8. m = 3 => m - 1 = 2
  OBVIOUS
<1> QED BY <1>2, <1>3, <1>4, <1>5, <1>6, <1>7, <1>8

\* With a WRITE or a READ of a request on top, no ERASE is on the stack.
LEMMA NoErase ==
  ASSUME Control, main = "run",
         \/ Len(stack) = 1 /\ Top.kind # "erase"
         \/ Len(stack) = 2 /\ stack[1].kind = "write" /\ Top.kind # "erase"
  PROVE  st["erase"] = "init"
<1>1. ~OnStack("erase")
  BY TopIs DEF OnStack
<1> QED BY <1>1, ScriptFacts DEF Control, Shape, Start

LEMMA ErasesAimed ==
  ASSUME Control, Links, NEW i \in 1 .. Len(stack), stack[i].kind = "erase"
  PROVE  \A j \in DOMAIN stack[i].list : stack[i].list[j] \in Aimed(stack[1])
<1>1. Len(stack) \in Nat
  BY DEF Control, FsmType
<1>2. CASE i = 1
  BY <1>2 DEF Aimed
<1>3. CASE i # 1
  <2>1. i \in 2 .. Len(stack)
    BY <1>1, <1>3
  <2>2. i = 2 /\ stack[1].kind = "write"
    BY <2>1 DEF Control, Shape
  <2>3. 1 \in 1 .. Len(stack) - 1 /\ 1 + 1 = 2
    BY <1>1, <2>2
  <2>4. Link(stack[1], stack[2])
    BY <2>3 DEF Links
  <2> QED BY <2>2, <2>4 DEF Link
<1> QED BY <1>2, <1>3

\* The page of the list at which ERASE is lends its slot to the WRITEs that
\* put the others back; no other page of the sector uses it.
LEMMA LentSlot ==
  ASSUME Control, Links, NEW i \in 1 .. Len(stack), stack[i].kind = "erase", st["erase"] = "repair",
         NEW p \in Beside(stack[i])
  PROVE  SlotOf(p) # SlotOf(stack[i].list[stack[i].cnt + 1])
<1> DEFINE r == stack[i]
<1>1. r \in EraseRoutes
  BY RouteKinds DEF Control, FsmType
<1>2. r.cnt < Len(r.list)
  BY DEF Control, EraseOk
<1>3. r.list \in Seq(Pages) /\ r.cnt \in Nat /\ Len(r.list) \in Nat
  BY <1>1 DEF EraseRoutes
<1>4. r.cnt + 1 \in DOMAIN r.list
  BY <1>2, <1>3
<1>5. r.list[r.cnt + 1] \in Aimed(stack[1]) /\ r.list[r.cnt + 1] \in Pages
  BY <1>3, <1>4, ErasesAimed
<1>6. p \in Pages /\ p \notin Aimed(stack[1]) /\ SectorOf(p) = SectorOf(r.list[r.cnt + 1])
  BY DEF Beside, Others
<1> DEFINE q == r.list[r.cnt + 1]
<1>7. q \in Pages /\ p \in Pages /\ p # q /\ SectorOf(p) = SectorOf(q)
  BY <1>5, <1>6
<1> HIDE DEF q
<1>8. PICK y \in Nat : y = SectorOf(p) * PagesPerSector /\ p = y + SlotOf(p)
  BY <1>7, SectorPages
<1>9. PICK z \in Nat : z = SectorOf(q) * PagesPerSector /\ q = z + SlotOf(q)
  BY <1>7, SectorPages
<1>10. y = z
  BY <1>7, <1>8, <1>9
<1>11. SlotOf(p) # SlotOf(q)
  BY <1>7, <1>8, <1>9, <1>10
<1> QED BY <1>11 DEF q

\* Over what a cut programming of c has left, c is programmed again without
\* a wrong bit, however far it comes.
LEMMA Reprogrammed ==
  ASSUME NEW c \in Content, NEW x \in Partly(c), NEW n
  PROVE  Programmed(x, c, n) \in Partly(c)
<1>1. x \in Content /\ \A i \in Offsets : x[i] \in {c[i], Erased}
  BY DEF Partly
<1>2. \A i \in Offsets : Burnt(x[i], c[i]) = c[i]
  BY <1>1 DEF Burnt
<1>3. \A i \in Offsets : Programmed(x, c, n)[i] \in {c[i], x[i]}
  BY <1>2 DEF Programmed
<1> QED BY <1>1, <1>3, ProgrammedType DEF Partly

\* A page is programmed: one that the request aims at, or one that is put
\* back from the buffer.
LEMMA ProgrammedCalm ==
  ASSUME DmaInv, Calm, dma # NoTransfer, NEW e \in {"transmit", "error"}, Interrupt(e),
         Top.kind = "write", st["write"] = "data", buf' = buf, NEW size \in 1 .. PageSize,
         mem' = [mem EXCEPT ![Top.addr + Top.cnt - 1] = Programmed(@, TxPage(Top, Top.cnt - 1), size)]
  PROVE  Calm'
<1>0. Ends(e) /\ e \in Async
  BY EndForm DEF Async
<1>1. Links' /\ Timely'
  BY <1>0, EndTimely
<1>2. PICK n \in Nat : n = Len(stack) /\ n \in 1 .. Len(stack) /\ Top = stack[n] /\ n > 0
  BY <1>0, TopIs DEF Ends, DmaInv
<1>3. /\ Top.addr \in Nat /\ Top.len \in Nat \ {0} /\ Top.cnt \in Nat /\ Top.cnt <= Top.len /\ Top.cnt > 0
      /\ \A i \in 0 .. Top.len - 1 : Top.addr + i \in Pages
  BY <1>0, WriteTop, PagesRange DEF Ends, DmaInv, Control, WriteOk
<1>4. PICK a \in Pages : a = Top.addr + Top.cnt - 1 /\ a \in Top.addr .. Top.addr + Top.len - 1
  <2>1. Top.cnt - 1 \in 0 .. Top.len - 1 /\ Top.addr + (Top.cnt - 1) = Top.addr + Top.cnt - 1
    BY <1>3
  <2>2. Top.addr + Top.cnt - 1 \in Top.addr .. Top.addr + Top.len - 1
    BY <1>3
  <2> QED BY <1>3, <2>1, <2>2
<1>5. /\ \A p \in Pages : p # a => mem'[p] = mem[p]
      /\ mem'[a] = Programmed(mem[a], TxPage(Top, Top.cnt - 1), size)
  BY <1>4 DEF DmaInv, ChipType
<1>6. Others' = Others
  BY <1>0 DEF Ends, Others
<1>7. Pieces'
  <2>1. CASE n = 1
    <3>1. a \in Aimed(stack[1])
      BY <1>2, <1>4, <2>1 DEF Aimed
    <3>2. st["erase"] = "init"
      BY <1>0, <1>2, <2>1, NoErase DEF Ends, DmaInv
    <3>3. ~Doomed
      BY <1>0 DEF Ends, Doomed
    <3>4. Whole
      BY <1>0, <3>2, <3>3 DEF Ends, Calm, Safe, Pieces
    <3>5. Whole'
      BY <1>0, <1>5, <1>6, <3>1, <3>4 DEF Ends, Whole, Kept, Others
    <3> QED BY <1>0, <3>2, <3>5 DEF Ends, Pieces
  <2>2. CASE n # 1
    <3>1. n \in {2, 3} /\ stack[n - 1].kind = "erase" /\ st["erase"] = "repair"
      BY <1>2, <2>2, UnderWrite DEF DmaInv
    <3>2. PICK i \in Nat : i = n - 1 /\ i + 1 = n /\ i < n /\ i \in 1 .. Len(stack) /\ i \in 1 .. Len(stack) - 1
      BY <1>2, <3>1
    <3>3. Torn(i)
      <4>1. PICK j \in 1 .. Len(stack) : Torn(j)
        BY <1>0, <3>1 DEF Ends, Calm, Safe, Pieces
      <4>2. j = i
        BY <3>1, <3>2, <4>1, OneErase DEF Torn, DmaInv
      <4> QED BY <4>1, <4>2
    <3>4. Top.tx = FromBuffer /\ Top.len = 1
      BY <1>0, <1>2, <2>2, NeighbourWrite DEF Ends, DmaInv, Nested
    <3>5. Top.cnt = 1 /\ a = Top.addr
      BY <1>3, <1>4, <3>4
    <3>6. TxPage(Top, Top.cnt - 1) = buf[SlotOf(a)]
      BY <3>4, <3>5 DEF TxPage
    <3>7. SectorOf(a) = SectorOf(stack[i].list[stack[i].cnt + 1])
      <4>1. Link(stack[i], stack[i + 1])
        BY <3>2 DEF Calm, Links
      <4> QED BY <1>2, <3>1, <3>2, <3>5, <4>1 DEF Link
    <3>8. a \in Others => a \in Beside(stack[i]) /\ mem'[a] \in Partly(before[a])
      <4> SUFFICES ASSUME a \in Others PROVE a \in Beside(stack[i]) /\ mem'[a] \in Partly(before[a])
        OBVIOUS
      <4>1. a \in Beside(stack[i])
        BY <3>7 DEF Beside
      <4>2. buf[SlotOf(a)] = before[a] /\ mem[a] \in Partly(before[a]) /\ before[a] \in Content
        BY <3>3, <4>1 DEF Torn, Saved, DmaInv, ChipType
      <4> QED BY <1>5, <3>6, <4>1, <4>2, Reprogrammed
    <3>b. ~(SlotOf(a) + 1 < stack[i].idx)
      <4>1. Link(stack[i], stack[i + 1]) /\ stack[i + 1] = Top
        BY <1>2, <3>2 DEF Calm, Links
      <4>2. SlotOf(a) + 1 = stack[i].idx
        BY <1>2, <3>1, <3>2, <3>5, <4>1 DEF Link
      <4>3. SlotOf(a) \in Nat
        BY SectorPages DEF Slot
      <4> QED BY <4>2, <4>3
    <3>9. /\ \A p \in Others : mem'[p] = mem[p] \/ (p = a /\ mem'[p] \in Partly(before[p]) /\ ~(SlotOf(p) + 1 < stack[i].idx))
          /\ \A p \in Beside(stack[i]) : p \in Others
      BY <1>5, <3>8, <3>b DEF Others, Beside
    <3>10. /\ \A p \in Others \ Beside(stack[i]) : mem'[p] = before[p]
           /\ \A p \in Beside(stack[i]) : buf'[SlotOf(p)] = before[p] /\ mem'[p] \in Partly(before[p])
           /\ \A p \in Beside(stack[i]) : SlotOf(p) + 1 < stack[i].idx => mem'[p] = before[p]
      BY <1>2, <3>1, <3>2, <3>3, <3>8, <3>9 DEF Torn, Kept, Saved
    <3>11. i < Len(stack') /\ i # Len(stack') /\ i \in 1 .. Len(stack')
      BY <1>0, <1>2, <3>2 DEF Ends
    <3>12. Torn(i)'
      BY <1>0, <1>6, <3>3, <3>10, <3>11 DEF Ends, Torn, Beside, Kept, Saved
    <3> QED BY <1>0, <3>1, <3>11, <3>12 DEF Ends, Pieces
  <2> QED BY <2>1, <2>2
<1>8. Safe'
  <2>1. st["erase"] # "enable"
    <3>1. n = 1 => st["erase"] = "init"
      BY <1>0, <1>2, NoErase DEF Ends, DmaInv
    <3>2. n # 1 => st["erase"] = "repair"
      BY <1>2, UnderWrite DEF DmaInv
    <3> QED BY <3>1, <3>2
  <2> QED BY <1>0, <1>7, <2>1, EndSafe
<1> QED BY <1>1, <1>8 DEF Calm

LEMMA SentCalm ==
  ASSUME DmaInv, Calm, dma # NoTransfer, dma.op = "tx", NEW cut \in BOOLEAN, Sent(dma, cut),
         NEW e \in {"transmit", "error"}, Interrupt(e)
  PROVE  Calm'
<1>1. ChipType /\ e # "receive" /\ e \in Async
  BY DEF DmaInv, Async
<1>2. /\ buf' = buf
      /\ \/ mem' = mem /\ chip'.busy = chip.busy
         \/ /\ dma.what = <<"erase", 0>>
            /\ mem' = [p \in Pages |-> IF p \in Neighbours(dma.page) THEN Blank ELSE mem[p]]
         \/ /\ dma.what = <<"data", 0>>
            /\ \E n \in 1 .. PageSize : mem' = [mem EXCEPT ![dma.page] = Programmed(@, dma.data, n)]
  BY <1>1, SentForm
<1>3. CASE mem' = mem /\ chip'.busy = chip.busy
  BY <1>1, <1>2, <1>3, HarmlessCalm
<1>4. CASE /\ dma.what = <<"erase", 0>>
           /\ mem' = [p \in Pages |-> IF p \in Neighbours(dma.page) THEN Blank ELSE mem[p]]
  BY <1>2, <1>4, WhoseTransfer, ErasedCalm
<1>5. CASE /\ dma.what = <<"data", 0>>
           /\ \E n \in 1 .. PageSize : mem' = [mem EXCEPT ![dma.page] = Programmed(@, dma.data, n)]
  BY <1>2, <1>5, WhoseTransfer, ProgrammedCalm
<1> QED BY <1>2, <1>3, <1>4, <1>5

\* A page or a sector arrives in the buffer.  While a sector is torn it is
\* the page that its repair compares, in the slot that no other page needs.
LEMMA BufferCalm ==
  ASSUME DmaInv, Calm, dma # NoTransfer, NEW e \in {"receive", "error"}, Interrupt(e),
         Top.kind = "read", st["read"] = 2, Top.rx # ToUser, mem' = mem, chip' = chip,
         buf' = [i \in Slot |-> IF i - Top.rx \in 0 .. Top.len - 1 THEN PageRead(Top.addr + i - Top.rx) ELSE buf[i]]
  PROVE  Calm'
<1>0. Ends(e) /\ e \in Async
  BY EndForm DEF Async
<1>1. Top \in ReadRoutes /\ Top \in Routes
  BY <1>0, TopIs, RouteKinds DEF Ends, DmaInv
<1>2. /\ Top.addr \in Nat /\ Top.len \in Nat \ {0} /\ Top.rx \in Nat
      /\ \A i \in 0 .. Top.len - 1 : Top.rx + i \in Slot
  BY <1>1, PagesRange, FlashChipAssumption DEF ReadRoutes, Slot
<1>3. Filled(Top)'
  <2>1. ~chip.busy
    BY DEF Calm, Timely, FreeTells
  <2>2. \A i \in 0 .. Top.len - 1 : buf'[Top.rx + i] = mem[Top.addr + i]
    <3> TAKE i \in 0 .. Top.len - 1
    <3>1. (Top.rx + i) - Top.rx = i /\ Top.addr + (Top.rx + i) - Top.rx = Top.addr + i
      BY <1>2
    <3> QED BY <1>2, <2>1, <3>1 DEF PageRead
  <2> QED BY <1>0, <2>2 DEF Ends, Filled
<1>4. Links' /\ Timely'
  BY <1>0, <1>3, EndTimely
<1>5. PICK n \in Nat : n = Len(stack) /\ n \in 1 .. Len(stack) /\ Top = stack[n] /\ n > 0
  BY <1>0, TopIs DEF Ends, DmaInv
<1>6. Others' = Others /\ ~Doomed
  BY <1>0 DEF Ends, Others, Doomed
<1>7. ASSUME st["erase"] \in {"init", "cmp"} PROVE Calm'
  <2>1. Whole
    BY <1>0, <1>6, <1>7 DEF Ends, Calm, Safe, Pieces
  <2>2. Whole'
    BY <1>0, <1>6, <2>1 DEF Ends, Whole, Kept
  <2>3. Pieces'
    BY <1>0, <1>7, <2>2 DEF Ends, Pieces
  <2>4. Safe'
    BY <1>0, <1>7, <2>3, EndSafe
  <2> QED BY <1>4, <2>4 DEF Calm
<1>8. CASE n = 1
  BY <1>0, <1>5, <1>7, <1>8, NoErase DEF Ends, DmaInv
<1>9. CASE n # 1
  <2>1. PICK m \in Nat : m = n - 1 /\ m + 1 = n /\ m \in 1 .. Len(stack) - 1 /\ m \in 1 .. Len(stack) /\ m > 0
    BY <1>5, <1>9
  <2>2. stack[m].kind \in {"write", "erase"}
    BY <1>5, <2>1, StackForm DEF DmaInv, Control, FsmType
  <2>3. CASE stack[m].kind = "erase"
    <3>1. ~(m = 1 /\ Twice)
      BY <2>3 DEF Twice
    <3>2. Waits("erase", st["erase"], "read")
      BY <1>5, <2>1, <2>3, <3>1 DEF DmaInv, Control, Shape
    <3>3. st["erase"] = "cmp"
      BY <3>2, ScriptFacts DEF Waits
    <3> QED BY <1>7, <3>3
  <2>4. CASE stack[m].kind = "write" /\ m = 1
    <3>1. Len(stack) = 2
      BY <1>5, <2>1, <2>4
    <3> QED BY <1>0, <1>7, <2>4, <3>1, NoErase DEF Ends, DmaInv
  <2>5. CASE stack[m].kind = "write" /\ m # 1
    <3>1. m \in {2, 3} /\ stack[m - 1].kind = "erase" /\ st["erase"] = "repair"
      BY <2>1, <2>5, UnderWrite DEF DmaInv
    <3>2. PICK i \in Nat : i = m - 1 /\ i + 1 = m /\ i < n /\ i \in 1 .. Len(stack) /\ i \in 1 .. Len(stack) - 1
      BY <1>5, <2>1, <3>1
    <3>3. Torn(i)
      <4>1. PICK j \in 1 .. Len(stack) : Torn(j)
        BY <1>0, <3>1 DEF Ends, Calm, Safe, Pieces
      <4>2. j = i
        BY <3>1, <3>2, <4>1, OneErase DEF Torn, DmaInv
      <4> QED BY <4>1, <4>2
    <3>4. Top.len = 1 /\ Top.rx = SlotOf(stack[i].list[stack[i].cnt + 1])
      <4>1. Link(stack[i], stack[m]) /\ Link(stack[m], Top)
        BY <1>5, <2>1, <3>2 DEF Calm, Links
      <4>2. m \in 2 .. Len(stack)
        BY <1>5, <2>1, <2>5
      <4>3. stack[m].len = 1
        BY <2>5, <4>2 DEF DmaInv, Control, Shape
      <4> QED BY <2>5, <3>1, <3>2, <4>1, <4>3 DEF Link
    <3>5. \A s \in Slot : s # Top.rx => buf'[s] = buf[s]
      <4> TAKE s \in Slot
      <4>1. s \in Int /\ Top.rx \in Int
        BY <1>2, FlashChipAssumption DEF Slot
      <4>2. s # Top.rx => s - Top.rx \notin 0 .. 1 - 1
        BY <4>1
      <4> QED BY <3>4, <4>2
    <3>6. \A p \in Beside(stack[i]) : buf'[SlotOf(p)] = buf[SlotOf(p)]
      <4> TAKE p \in Beside(stack[i])
      <4>1. SlotOf(p) \in Slot
        BY SectorPages DEF Beside, Others
      <4>2. SlotOf(p) # Top.rx
        BY <3>1, <3>2, <3>4, LentSlot DEF DmaInv, Calm
      <4> QED BY <3>5, <4>1, <4>2
    <3>7. i < Len(stack') /\ i # Len(stack') /\ i \in 1 .. Len(stack')
      BY <1>0, <1>5, <3>2 DEF Ends
    <3>8. /\ \A p \in Others \ Beside(stack[i]) : mem'[p] = before'[p]
          /\ \A p \in Beside(stack[i]) : buf'[SlotOf(p)] = before'[p] /\ mem'[p] \in Partly(before'[p])
          /\ \A p \in Beside(stack[i]) : SlotOf(p) + 1 < stack[i].idx => mem'[p] = before'[p]
      <4>1. /\ \A p \in Others \ Beside(stack[i]) : mem[p] = before[p]
            /\ \A p \in Beside(stack[i]) : buf[SlotOf(p)] = before[p] /\ mem[p] \in Partly(before[p])
        BY <3>3 DEF Torn, Kept, Saved
      <4>2. \A p \in Beside(stack[i]) : SlotOf(p) + 1 < stack[i].idx => mem[p] = before[p]
        BY <1>5, <3>1, <3>2, <3>3 DEF Torn, Kept
      <4>3. mem' = mem /\ before' = before
        BY <1>0 DEF Ends
      <4> QED BY <3>6, <4>1, <4>2, <4>3
    <3>9. Torn(i)'
      BY <1>0, <1>6, <3>3, <3>7, <3>8 DEF Ends, Torn, Beside, Kept, Saved
    <3>10. Pieces'
      BY <1>0, <3>1, <3>7, <3>9 DEF Ends, Pieces
    <3>11. Safe'
      BY <1>0, <3>1, <3>10, EndSafe
    <3> QED BY <1>4, <3>11 DEF Calm
  <2> QED BY <2>2, <2>3, <2>4, <2>5
<1> QED BY <1>8, <1>9

LEMMA ReceivedCalm ==
  ASSUME DmaInv, Calm, dma # NoTransfer, dma.op = "rx", NEW cut \in BOOLEAN, Received(dma, cut),
         NEW e \in {"receive", "error"}, e = "receive" => ~cut, Interrupt(e)
  PROVE  Calm'
<1>1. e \in Async /\ mem' = mem /\ chip' = chip
  BY DEF Async, Received, chipVars
<1>2. \/ Top.kind = "free" /\ dma = RxStatus
      \/ Top.kind = "read" /\ st["read"] = 2 /\ dma = RxData(Top)
  BY WhoseTransfer
<1>3. CASE cut /\ UNCHANGED dataVars
  BY <1>1, <1>3, HarmlessCalm DEF dataVars
<1>4. CASE dma.what = <<"sr1", 0>> /\ sr1' = chip.busy /\ UNCHANGED <<buf, got>>
  <2>1. Top.kind = "free"
    BY <1>2, <1>4 DEF RxData
  <2> QED BY <1>1, <1>4, <2>1, HarmlessCalm
<1>5. CASE dma.what = <<"data", 0>> /\ dma.to = ToUser /\ UNCHANGED <<sr1, buf>>
  <2>1. Top.kind = "read" /\ Top.rx = ToUser
    BY <1>2, <1>5 DEF RxStatus, RxData
  <2>2. Filled(Top)'
    BY <2>1, EndForm, <1>1 DEF Filled, Ends
  <2> QED BY <1>1, <1>5, <2>1, <2>2, HarmlessCalm
<1>6. CASE /\ dma.what = <<"data", 0>> /\ dma.to # ToUser
           /\ buf' = [i \in Slot |-> IF i - dma.to \in 0 .. dma.len - 1 THEN PageRead(dma.page + i - dma.to) ELSE buf[i]]
  <2>1. Top.kind = "read" /\ st["read"] = 2 /\ dma = RxData(Top)
    BY <1>2, <1>6 DEF RxStatus
  <2>2. dma.to = Top.rx /\ dma.len = Top.len /\ dma.page = Top.addr
    BY <2>1 DEF RxData
  <2> QED BY <1>1, <1>6, <2>1, <2>2, BufferCalm
<1> QED BY <1>3, <1>4, <1>5, <1>6 DEF Received

LEMMA SpiCalm ==
  ASSUME DmaInv, Calm, DmaDone \/ DmaError
  PROVE  Calm'
<1>1. dma # NoTransfer
  BY DEF DmaDone, DmaError
<1>2. dma.late = FALSE
  BY <1>1 DEF Calm, Timely, Sync
<1>3. dma.op \in {"tx", "rx"}
  BY <1>1 DEF DmaInv, ChipType, Transfers, TxTransfers, RxStatuses, RxPages
<1>4. CASE DmaDone
  <2>1. CASE dma.op = "tx"
    <3>1. Sent(dma, FALSE) /\ Interrupt("transmit")
      BY <1>2, <1>4, <2>1 DEF DmaDone
    <3> QED BY <1>1, <2>1, <3>1, SentCalm
  <2>2. CASE dma.op = "rx"
    <3>1. Received(dma, FALSE) /\ Interrupt("receive")
      BY <1>2, <1>4, <2>2 DEF DmaDone
    <3> QED BY <1>1, <2>2, <3>1, ReceivedCalm
  <2> QED BY <1>3, <2>1, <2>2
<1>5. CASE DmaError
  <2>1. CASE dma.op = "tx"
    <3>1. Sent(dma, TRUE) /\ Interrupt("error")
      BY <1>5, <2>1 DEF DmaError
    <3> QED BY <1>1, <2>1, <3>1, SentCalm
  <2>2. CASE dma.op = "rx"
    <3>1. Received(dma, TRUE) /\ Interrupt("error")
      BY <1>5, <2>2 DEF DmaError
    <3> QED BY <1>1, <2>2, <3>1, ReceivedCalm
  <2> QED BY <1>3, <2>1, <2>2
<1> QED BY <1>4, <1>5

-----------------------------------------------------------------------------
(* The router, the requests and the user's event                           *)

\* Steps that leave the machines alone.
LEMMA IdleCalm ==
  ASSUME DmaInv, Calm, UNCHANGED <<mem, stack, st, evs, res, dma, buf, sr1, before>>,
         chip'.busy => chip.busy,
         main' = main \/ (main = "init" /\ main' = "router") \/ (main = "router" /\ main' = "run")
  PROVE  Calm'
<1>1. Top' = Top /\ Others' = Others
  BY DEF Top, Others
<1>2. Links'
  BY DEF Calm, Links
<1>3. dma # NoTransfer => main = "run" /\ main' = main
  BY DEF Calm, Timely, Sync
<1>4. (\E k \in Kinds : evs[k] # {}) => main = "run" /\ main' = main
  BY DEF Calm, Timely, Quiet
<1>5. Sync'
  BY <1>1, <1>3 DEF Calm, Timely, Sync, ListSector, TxPage, TxData, Tx, RxData, RxStatus
<1>6. Quiet'
  BY <1>1, <1>4 DEF Calm, Timely, Quiet
<1>7. main = "init" => st["read"] = 0
  BY ScriptFacts DEF DmaInv, Control, Shape, Start
<1>8. FreeTells' /\ ReadTells'
  BY <1>1, <1>7 DEF Calm, Timely, FreeTells, ReadTells, Filled
<1>9. \A p : (Kept(p)' <=> Kept(p)) /\ (Saved(p)' <=> Saved(p))
  BY DEF Kept, Saved
<1>10. \A i \in Nat : Torn(i) => Torn(i)'
  BY <1>1, <1>9 DEF Torn, Beside, Kept, Saved
<1>11. (Whole => Whole') /\ (Doomed => Doomed')
  BY <1>1 DEF Whole, Kept, Doomed
<1>12. Pieces'
  BY <1>10, <1>11 DEF Calm, Safe, Pieces
<1>13. Looked' /\ PutBack'
  BY <1>1, <1>11 DEF Calm, Safe, Looked, PutBack, BufHolds, Beside, Nested
<1> QED BY <1>2, <1>5, <1>6, <1>8, <1>12, <1>13 DEF Calm, Timely, Safe

\* A request begins: nothing has been touched yet.
LEMMA RequestCalm ==
  ASSUME DmaInv, Calm, Ready, NEW r, Request(r)
  PROVE  Calm'
<1>1. /\ stack = <<>> /\ stack' = <<r>> /\ main' = main /\ mem' = mem /\ before' = mem
      /\ dma' = dma /\ st' = st /\ evs' = evs /\ res' = res /\ chip' = chip
      /\ main \notin {"run", "done"}
  BY DEF Ready, Request, chipVars, DmaInv, Control, Shape
<1>2. Len(stack') = 1 /\ Top' = r /\ ~Nested'
  BY <1>1 DEF Top, Nested
<1>3. dma = NoTransfer /\ \A k \in Kinds : evs[k] = {}
  BY <1>1 DEF Calm, Timely, Sync, Quiet
<1>4. \A k \in Kinds : st[k] = Start(k)
  BY <1>1 DEF DmaInv, Control, Shape, OnStack
<1>5. st["read"] = 0 /\ st["free"] = "init" /\ st["write"] = "init" /\ st["erase"] = "init"
  BY <1>4, ScriptFacts DEF Start
<1>6. Whole'
  BY <1>1 DEF Whole, Kept
<1>7. Links' /\ Sync' /\ Quiet'
  BY <1>1, <1>2, <1>3 DEF Links, Sync, Quiet
<1>8. FreeTells' /\ ReadTells'
  BY <1>1, <1>5 DEF FreeTells, ReadTells
<1>9. Pieces' /\ Looked' /\ PutBack'
  BY <1>1, <1>2, <1>5, <1>6 DEF Pieces, Looked, PutBack
<1> QED BY <1>7, <1>8, <1>9 DEF Calm, Timely, Safe


\* The route on top is done, and the one below it goes on.
LEMMA CallbackForm ==
  ASSUME DmaInv, Calm, Callback
  PROVE  /\ main = "done" /\ stack # <<>> /\ Len(stack) \in Nat \ {0} /\ dma = NoTransfer
         /\ \A k \in Kinds : evs[k] = {}
         /\ UNCHANGED <<mem, chip, dma, res, buf, sr1, before, lates>>
         /\ \/ /\ res # Ok /\ stack' = <<>> /\ main' = "init"
               /\ \A k \in Kinds : st'[k] = Start(k) /\ evs'[k] = {}
            \/ /\ main' = "router" /\ st' = st /\ evs' = evs
               /\ Len(stack') = Len(stack) - 1
               /\ \A i \in 1 .. Len(stack) - 1 : stack'[i] = stack[i]
               /\ res = Ok \/ Len(stack) - 1 <= 1
<1> DEFINE n == Len(stack)
<1> DEFINE rest == SubSeq(stack, 1, n - 1)
<1>1. main = "done" /\ stack # <<>> /\ n \in Nat \ {0}
  BY DEF Callback, DmaInv, Control, FsmType, Shape
<1>2. dma = NoTransfer /\ \A k \in Kinds : evs[k] = {}
  BY <1>1 DEF Calm, Timely, Sync, Quiet
<1>3. UNCHANGED <<mem, chip, dma, res, buf, sr1, before, lates>>
  BY DEF Callback, chipVars, dataVars, userVars, faultVars
<1>4. Len(rest) = n - 1 /\ \A i \in 1 .. n - 1 : rest[i] = stack[i]
  <2>1. 1 \in Int /\ n - 1 \in Int /\ \A i \in 1 .. n - 1 : stack[i] \in Routes
    BY <1>1 DEF DmaInv, Control, FsmType
  <2>2. /\ Len(rest) = IF 1 <= n - 1 THEN (n - 1) - 1 + 1 ELSE 0
        /\ \A i \in 1 .. (n - 1) - 1 + 1 : rest[i] = stack[1 + i - 1]
    BY <2>1, SubSeqProperties
  <2>3. n \in Nat \ {0}
    BY <1>1
  <2> HIDE DEF rest, n
  <2>4. \A i \in 1 .. n - 1 : i \in 1 .. (n - 1) - 1 + 1 /\ 1 + i - 1 = i
    BY <2>3
  <2> QED BY <2>2, <2>3, <2>4
<1>5. \/ /\ res # Ok /\ stack' = <<>> /\ main' = "init" /\ ResetFsms
      \/ /\ main' = "router" /\ st' = st /\ evs' = evs /\ stack' = rest
         /\ ~(res # Ok /\ Len(rest) > 1)
  BY DEF Callback
<1>6. ResetFsms => \A k \in Kinds : st'[k] = Start(k) /\ evs'[k] = {}
  BY DEF ResetFsms
<1> HIDE DEF rest, n
<1>7. ~(res # Ok /\ Len(rest) > 1) => res = Ok \/ n - 1 <= 1
  BY <1>1, <1>4
<1>8. stack' = rest => Len(stack') = n - 1 /\ \A i \in 1 .. n - 1 : stack'[i] = stack[i]
  BY <1>4
<1> QED BY <1>1, <1>2, <1>3, <1>5, <1>6, <1>7, <1>8 DEF n

\* The failure deep in the stack takes it down, with all the machines.
LEMMA DownCalm ==
  ASSUME DmaInv, Calm, Callback, stack' = <<>>, main' = "init",
         \A k \in Kinds : st'[k] = Start(k) /\ evs'[k] = {}
  PROVE  Calm'
<1>1. dma' = NoTransfer
  BY CallbackForm
<1>2. st'["read"] = 0 /\ st'["free"] = "init" /\ st'["erase"] = "init"
  BY ScriptFacts DEF Start
<1>3. Links'
  BY DEF Links
<1>4. Sync' /\ Quiet'
  BY <1>1 DEF Sync, Quiet
<1>5. FreeTells' /\ ReadTells'
  BY <1>2 DEF FreeTells, ReadTells
<1>6. Pieces' /\ Looked' /\ PutBack'
  BY <1>2 DEF Pieces, Looked, PutBack
<1> QED BY <1>3, <1>4, <1>5, <1>6 DEF Calm, Timely, Safe

\* The route below the one that is done waits for it.
LEMMA Resumes ==
  ASSUME DmaInv, Links, NEW m \in Nat, m + 1 = Len(stack), m > 0
  PROVE  /\ Waits(stack[m].kind, st[stack[m].kind], Top.kind)
         /\ Link(stack[m], Top)
         /\ m \in 1 .. Len(stack) - 1 /\ m \in 1 .. Len(stack) /\ m < Len(stack)
         /\ stack[m] \in Routes /\ Top = stack[m + 1]
<1>1. m \in 1 .. Len(stack) - 1 /\ m \in 1 .. Len(stack) /\ m < Len(stack) /\ stack[m] \in Routes
  BY DEF DmaInv, Control, FsmType
<1>2. ~(m = 1 /\ Twice)
  BY DEF Twice
<1>3. Top = stack[m + 1]
  BY DEF Top
<1>4. Waits(stack[m].kind, st[stack[m].kind], Top.kind)
  BY <1>1, <1>2, <1>3 DEF DmaInv, Control, Shape
<1> QED BY <1>1, <1>3, <1>4 DEF Links

\* The last route leaves the stack.
LEMMA LastCalm ==
  ASSUME DmaInv, Calm, Callback, Len(stack) = 1, main' = "router", st' = st, evs' = evs, Len(stack') = 0
  PROVE  Calm'
<1>1. dma' = NoTransfer /\ chip' = chip /\ \A k \in Kinds : evs'[k] = {}
  BY CallbackForm
<1>2. stack' = <<>>
  BY DEF Callback
<1>3. "free" \in Kinds /\ "read" \in Kinds /\ "erase" \in Kinds
  BY ScriptFacts
<1>4. Links' /\ Sync' /\ Quiet'
  BY <1>1, <1>2 DEF Links, Sync, Quiet
<1>5. FreeTells' /\ ReadTells'
  BY <1>1, <1>2, <1>3 DEF FreeTells, ReadTells, Calm, Timely
<1>6. Pieces' /\ Looked' /\ PutBack'
  BY <1>1, <1>2, <1>3 DEF Pieces, Looked, PutBack
<1> QED BY <1>4, <1>5, <1>6 DEF Calm, Timely, Safe

\* The route on top is done, and route m goes on.
Resume(m) ==
    /\ m > 0 /\ m + 1 = Len(stack) /\ Len(stack') = m /\ stack' # <<>> /\ Top' = stack[m]
    /\ main = "done" /\ main' = "router" /\ dma = NoTransfer
    /\ UNCHANGED <<mem, chip, dma, st, evs, res, buf, sr1, before>>
    /\ \A k \in Kinds : evs[k] = {}
    /\ \A i \in 1 .. m : stack'[i] = stack[i]
    /\ Others' = Others
    /\ res = Ok \/ m = 1

LEMMA ResumeTimely ==
  ASSUME DmaInv, Calm, NEW m \in Nat, Resume(m)
  PROVE  Links' /\ Timely'
<1>1. "free" \in Kinds /\ "read" \in Kinds /\ "read" \in DOMAIN Script /\ "free" \notin DOMAIN Script
  BY ScriptFacts
<1>2. Waits(stack[m].kind, st[stack[m].kind], Top.kind)
  BY Resumes DEF Resume, Calm
<1>3. Links'
  <2>1. \A i \in 1 .. m - 1 : i \in 1 .. Len(stack) - 1 /\ i \in 1 .. m /\ i + 1 \in 1 .. m
    BY DEF Resume
  <2> QED BY <2>1 DEF Resume, Links, Calm
<1>4. Sync' /\ Quiet'
  BY DEF Resume, Sync, Quiet
<1>5. stack[m].kind = "read" /\ res = Ok => ~chip.busy \/ st["read"] # 1
  <2>1. stack[m].kind = "read" => Top.kind = "free"
    BY <1>2 DEF Waits
  <2> QED BY <2>1 DEF Resume, Calm, Timely, FreeTells
<1>6. FreeTells'
  BY <1>1, <1>5 DEF Resume, Calm, Timely, FreeTells
<1>7. ReadTells'
  BY <1>1 DEF Resume, ReadTells
<1> QED BY <1>3, <1>4, <1>6, <1>7 DEF Timely

\* The WRITE of a neighbour is done: the page is back.
LEMMA NeighbourBack ==
  ASSUME DmaInv, Calm, NEW m \in Nat, Resume(m), Torn(m)
  PROVE  Torn(m)'
<1> DEFINE r == stack[m]
<1>1. Waits(r.kind, st[r.kind], Top.kind) /\ Link(r, Top) /\ Top = stack[m + 1] /\ m \in 1 .. Len(stack) /\ m < Len(stack)
  BY Resumes DEF Resume, Calm
<1>2. r.kind = "erase" /\ st["erase"] = "repair" /\ Top.kind = "write"
  <2>1. r.kind = "erase" /\ st["erase"] \in {"erase", "repair"}
    BY DEF Torn
  <2>2. st["erase"] # "erase"
    BY DEF Resume, DmaInv, Control, EraseOk, TopRuns
  <2> QED BY <1>1, <2>1, <2>2, ScriptFacts DEF Waits
<1>3. SectorOf(Top.addr) = SectorOf(r.list[r.cnt + 1]) /\ SlotOf(Top.addr) + 1 = r.idx
  BY <1>1, <1>2 DEF Link
<1>4. Top.addr \in Pages
  <2>1. Top \in Routes
    BY <1>1 DEF Resume, DmaInv, Control, FsmType
  <2> QED BY <1>2, <2>1, RouteKinds DEF WriteRoutes
<1>5. res = Ok => mem[Top.addr] = buf[SlotOf(Top.addr)]
  BY <1>2 DEF Resume, Calm, Safe, PutBack, Nested
<1>6. ASSUME res = Ok, NEW p \in Beside(r), SlotOf(p) < r.idx
      PROVE  Kept(p)
  <2>1. p \in Pages /\ SectorOf(p) = SectorOf(Top.addr) /\ buf[SlotOf(p)] = before[p]
    BY <1>3 DEF Beside, Others, Torn, Saved
  <2>2. PICK y \in Nat : y = SectorOf(p) * PagesPerSector /\ p = y + SlotOf(p) /\ SlotOf(p) \in Slot
    BY <2>1, SectorPages
  <2>3. PICK z \in Nat : z = SectorOf(Top.addr) * PagesPerSector /\ Top.addr = z + SlotOf(Top.addr) /\ SlotOf(Top.addr) \in Slot
    BY <1>4, SectorPages
  <2>4. SlotOf(p) \in Nat /\ SlotOf(Top.addr) \in Nat
    BY <2>2, <2>3, FlashChipAssumption DEF Slot
  <2>5. SlotOf(p) + 1 < r.idx \/ SlotOf(p) = SlotOf(Top.addr)
    BY <1>3, <1>6, <2>4
  <2>6. SlotOf(p) = SlotOf(Top.addr) => p = Top.addr
    BY <2>1, <2>2, <2>3
  <2>7. SlotOf(p) = SlotOf(Top.addr) => Kept(p)
    BY <1>5, <1>6, <2>1, <2>6 DEF Kept
  <2>8. SlotOf(p) + 1 < r.idx => Kept(p)
    BY <1>1, <1>2 DEF Torn
  <2> QED BY <2>5, <2>7, <2>8
<1>7. m \in 1 .. m /\ ~(m < Len(stack')) /\ stack'[m] = r
  BY DEF Resume
<1>8. \A p : (p \in Beside(r)' <=> p \in Beside(r)) /\ (Kept(p)' <=> Kept(p)) /\ (Saved(p)' <=> Saved(p))
  BY DEF Beside, Kept, Saved, Resume
<1> QED BY <1>2, <1>6, <1>7, <1>8 DEF Torn, Resume, Beside, Kept, Saved

LEMMA ResumePieces ==
  ASSUME DmaInv, Calm, NEW m \in Nat, Resume(m)
  PROVE  Pieces'
<1>1. /\ Waits(stack[m].kind, st[stack[m].kind], Top.kind) /\ Top = stack[m + 1]
      /\ m \in 1 .. Len(stack) /\ m < Len(stack)
  BY Resumes DEF Resume, Calm
<1>2. stack # <<>> /\ Len(stack) \in 1 .. Len(stack) /\ Top = stack[Len(stack)]
  BY <1>1 DEF Resume
<1>3. CASE st["erase"] \in {"erase", "repair"}
  <2>1. PICK i \in 1 .. Len(stack) : Torn(i)
    BY <1>2, <1>3 DEF Calm, Safe, Pieces
  <2>2. i # Len(stack)
    <3>1. Top.kind = "erase" => st["erase"] = "init"
      BY ScriptFacts DEF Resume, DmaInv, Control, DoneState, Start
    <3> QED BY <1>2, <1>3, <2>1, <3>1 DEF Torn
  <2>3. i \in 1 .. m
    BY <2>1, <2>2 DEF Resume
  <2>4. CASE i = m
    BY <2>1, <2>3, <2>4, <1>3, NeighbourBack DEF Pieces, Resume
  <2>5. CASE i # m
    <3>1. i < Len(stack') /\ i < Len(stack) /\ stack'[i] = stack[i] /\ i \in Nat /\ i \in 1 .. Len(stack')
      BY <2>3, <2>5 DEF Resume
    <3>2. Torn(i)'
      BY <2>1, <3>1, TornBelow DEF Resume
    <3> QED BY <3>1, <3>2, <1>3 DEF Pieces, Resume
  <2> QED BY <2>4, <2>5
<1>4. CASE st["erase"] \notin {"erase", "repair"}
  <2>1. Whole \/ Doomed
    BY <1>2, <1>4 DEF Calm, Safe, Pieces
  <2>2. Whole => Whole'
    BY DEF Resume, Whole, Kept
  <2>3. Doomed => Doomed'
    <3> SUFFICES ASSUME Doomed PROVE Doomed'
      OBVIOUS
    <3>1. Len(stack) = 2 /\ Top.kind = "erase" /\ res # Ok /\ m = 1
      BY DEF Doomed, Resume
    <3>2. stack[1].kind = "write"
      <4>1. 2 \in 2 .. Len(stack) /\ stack[2].kind = "erase"
        BY <1>1, <3>1
      <4> QED BY <4>1 DEF DmaInv, Control, Shape
    <3>3. st["write"] = "erase"
      BY <1>1, <3>1, <3>2, ScriptFacts DEF Waits
    <3>4. evs'["write"] \subseteq {"error"}
      BY ScriptFacts DEF Resume
    <3> QED BY <3>1, <3>2, <3>3, <3>4 DEF Doomed, Resume
  <2> QED BY <1>4, <2>1, <2>2, <2>3 DEF Pieces, Resume
<1> QED BY <1>3, <1>4

LEMMA ResumeSafe ==
  ASSUME DmaInv, Calm, NEW m \in Nat, Resume(m)
  PROVE  Safe'
<1> DEFINE r == stack[m]
<1>1. /\ Waits(r.kind, st[r.kind], Top.kind) /\ Link(r, Top) /\ Top = stack[m + 1]
      /\ m \in 1 .. Len(stack) /\ r \in Routes
  BY Resumes DEF Resume, Calm
<1>2. Top.kind = "read" /\ res = Ok => Filled(Top)
  BY DEF Resume, Calm, Timely, ReadTells
<1>3. \A t : BufHolds(t)' <=> BufHolds(t)
  BY DEF Resume, BufHolds, Beside
<1>4. r.kind = "erase" /\ st["erase"] = "cmp" /\ res = Ok => BufHolds(r)
  <2> SUFFICES ASSUME r.kind = "erase", st["erase"] = "cmp", res = Ok PROVE BufHolds(r)
    OBVIOUS
  <2>1. Top.kind = "read"
    BY <1>1, ScriptFacts DEF Waits
  <2>2. Filled(Top) /\ Top.addr = SectorOf(r.list[r.cnt + 1]) * PagesPerSector /\ Top.len = PagesPerSector /\ Top.rx = 0
    BY <1>1, <1>2, <2>1 DEF Link
  <2>3. \A i \in Slot : buf[i] = mem[Top.addr + i]
    <3>1. Slot = 0 .. Top.len - 1 /\ Top.rx # ToUser /\ \A i \in Slot : Top.rx + i = i
      BY <2>2, FlashChipAssumption DEF Slot, ToUser
    <3> QED BY <2>2, <3>1 DEF Filled
  <2> SUFFICES ASSUME NEW p \in Beside(r) PROVE buf[SlotOf(p)] = mem[p]
    BY DEF BufHolds
  <2>4. p \in Pages /\ SectorOf(p) = SectorOf(r.list[r.cnt + 1])
    BY DEF Beside, Others
  <2>5. PICK z \in Nat : z = SectorOf(p) * PagesPerSector /\ p = z + SlotOf(p) /\ SlotOf(p) \in Slot
    BY <2>4, SectorPages
  <2>6. Top.addr = z
    BY <2>2, <2>4, <2>5
  <2> QED BY <2>3, <2>5, <2>6
<1>5. Looked'
  <2>1. st["erase"] = "enable" => \A i \in 1 .. m : stack'[i].kind = "erase" => BufHolds(stack'[i])
    <3>1. \A i \in 1 .. m : i \in 1 .. Len(stack) /\ stack'[i] = stack[i]
      BY DEF Resume
    <3> QED BY <3>1 DEF Calm, Safe, Looked
  <2>2. "erase" \in Kinds
    BY ScriptFacts
  <2> QED BY <1>3, <1>4, <2>1, <2>2 DEF Looked, Resume, BufHolds, Beside
<1>6. PutBack'
  <2>1. ASSUME m > 1, r.kind = "write", st["write"] = "cmp"
        PROVE  buf[r.rx] = mem[r.addr]
    <3>1. Top.kind = "read"
      BY <1>1, <2>1, ScriptFacts DEF Waits
    <3>2. Top.addr = r.addr /\ Top.len = r.len /\ Top.rx = r.rx /\ Filled(Top)
      BY <1>1, <1>2, <2>1, <3>1 DEF Link, Resume
    <3>3. r.rx \in Nat /\ r.addr \in Nat /\ 0 \in 0 .. r.len - 1
      <4>1. r \in WriteRoutes
        BY <1>1, <2>1, RouteKinds
      <4>2. r.addr \in Pages /\ r.rx \in Slot /\ r.len \in Nat \ {0}
        BY <4>1 DEF WriteRoutes
      <4>3. Pages \subseteq Nat /\ Slot \subseteq Nat
        BY PagesRange, FlashChipAssumption DEF Slot
      <4>4. \A l \in Nat \ {0} : 0 \in 0 .. l - 1
        OBVIOUS
      <4> QED BY <4>2, <4>3, <4>4
    <3>4. r.rx # ToUser /\ r.rx + 0 = r.rx /\ r.addr + 0 = r.addr
      BY <3>3 DEF ToUser
    <3>5. buf[r.rx + 0] = mem[r.addr + 0]
      BY <3>2, <3>3, <3>4 DEF Filled
    <3> QED BY <3>4, <3>5
  <2>2. "write" \in Kinds
    BY ScriptFacts
  <2>3. evs'["write"] = {} /\ main' # "done" /\ Top' = r /\ (Nested' <=> m > 1)
    BY <2>2 DEF Resume, Nested
  <2> QED BY <2>1, <2>3 DEF PutBack, Resume
<1> QED BY <1>5, <1>6, ResumePieces DEF Safe

LEMMA CallbackCalm ==
  ASSUME DmaInv, Calm, Callback
  PROVE  Calm'
<1>1. CASE res # Ok /\ stack' = <<>> /\ main' = "init" /\ \A k \in Kinds : st'[k] = Start(k) /\ evs'[k] = {}
  BY <1>1, DownCalm
<1>2. CASE /\ main' = "router" /\ st' = st /\ evs' = evs
           /\ Len(stack') = Len(stack) - 1
           /\ \A i \in 1 .. Len(stack) - 1 : stack'[i] = stack[i]
           /\ res = Ok \/ Len(stack) - 1 <= 1
  <2>1. PICK m \in Nat : m + 1 = Len(stack)
    <3>1. Len(stack) \in Nat \ {0}
      BY CallbackForm
    <3>2. \A n \in Nat \ {0} : n - 1 \in Nat /\ (n - 1) + 1 = n
      OBVIOUS
    <3> QED BY <3>1, <3>2
  <2>2. Len(stack) - 1 = m
    BY <2>1
  <2>3. CASE m = 0
    <3>1. Len(stack) = 1
      BY <2>1, <2>3
    <3> QED BY <1>2, <2>2, <2>3, <3>1, LastCalm
  <2>4. CASE m > 0
    <3>1. Len(stack') = m /\ \A i \in 1 .. m : stack'[i] = stack[i]
      BY <1>2, <2>2
    <3>2. stack' # <<>> /\ m \in 1 .. m /\ 1 \in 1 .. m
      BY <2>4, <3>1
    <3>3. Top' = stack[m] /\ Others' = Others
      BY <3>1, <3>2 DEF Top, Others
    <3>4. res = Ok \/ m = 1
      BY <1>2, <2>2, <2>4
    <3>5. Resume(m)
      BY <1>2, <2>1, <2>4, <3>1, <3>2, <3>3, <3>4, CallbackForm DEF Resume
    <3> QED BY <3>5, ResumeTimely, ResumeSafe DEF Calm
  <2> QED BY <2>3, <2>4
<1> QED BY <1>1, <1>2, CallbackForm

\* A machine that runs leaves a route on the stack, and no count of late
\* transfers goes down.
Runs == stack' # <<>> /\ lates' \in {lates, lates + 1}

LEMMA PartsRun ==
  ASSUME Control, main = "run"
  PROVE  /\ \A k, s, r : Leave(k, s, r) => Runs
         /\ \A r : Push(r) /\ lates' = lates => Runs
         /\ \A v : stack' = [stack EXCEPT ![Len(stack)].cnt = v] /\ lates' = lates => Runs
         /\ \A v, r : PushOn([stack EXCEPT ![Len(stack)].idx = v], r) /\ lates' = lates => Runs
         /\ \A v : stack' = [stack EXCEPT ![Len(stack)].idx = v] /\ lates' = lates => Runs
         /\ stack' = stack /\ lates' = lates => Runs
         /\ \A k, e : Queue(k, e) \/ QueueOnTimeout(k, e) => Runs
         /\ \A c, k, s, E : Transfer(c, k, s, E) => lates' = lates
<1>1. stack \in Seq(Routes) /\ stack # <<>> /\ 1 \in DOMAIN stack
  BY TopIs DEF Control, FsmType, Shape
<1>2. \A v : [stack EXCEPT ![Len(stack)].cnt = v] # <<>> /\ [stack EXCEPT ![Len(stack)].idx = v] # <<>>
  <2>1. \A v : 1 \in DOMAIN [stack EXCEPT ![Len(stack)].cnt = v] /\ 1 \in DOMAIN [stack EXCEPT ![Len(stack)].idx = v]
    BY <1>1
  <2> QED BY <2>1
<1>3. \A t, r : t # <<>> /\ PushOn(t, r) => stack' # <<>>
  <2>1. \A t, r : Append(t, r) # <<>>
    OBVIOUS
  <2> QED BY <2>1 DEF PushOn
<1>4. \A k, s, r : Leave(k, s, r) => stack' = stack /\ lates' = lates
  BY DEF Leave, faultVars
<1>5. \A r : Push(r) => stack' # <<>>
  BY <1>1, <1>3 DEF Push
<1>6. \A v, r : PushOn([stack EXCEPT ![Len(stack)].idx = v], r) => stack' # <<>>
  BY <1>2, <1>3
<1>7. \A k, e : Queue(k, e) \/ QueueOnTimeout(k, e) => stack' = stack /\ lates' \in {lates, lates + 1}
  BY DEF Queue, QueueOnTimeout, TimedOut, faultVars
<1>8. \A c, k, s, E : Transfer(c, k, s, E) => lates' = lates
  BY DEF Transfer, faultVars
<1> QED BY <1>1, <1>2, <1>4, <1>5, <1>6, <1>7, <1>8 DEF Runs


LEMMA RunsOn ==
  ASSUME DmaInv, RunHandler \/ RunEvent
  PROVE  Runs
<1>1. Control /\ main = "run" /\ Top.kind \in Kinds
  BY TopIs DEF DmaInv, RunHandler, RunEvent, Running
<1>2. ASSUME NEW k, ScriptHandler(k) PROVE Runs
  BY <1>1, <1>2, PartsRun DEF ScriptHandler
<1>3. ASSUME FreeHandler PROVE Runs
  BY <1>1, <1>3, PartsRun DEF FreeHandler, faultVars
<1>4. ASSUME WriteHandler PROVE Runs
  BY <1>1, <1>4, PartsRun DEF WriteHandler, faultVars
<1>5. ASSUME EraseHandler PROVE Runs
  <2>1. EraseCmp => Runs
    BY <1>1, PartsRun DEF EraseCmp, faultVars
  <2> QED BY <1>1, <1>5, <2>1, PartsRun DEF EraseHandler
<1>6. ASSUME NEW k, NEW e, ScriptDispatch(k, e) PROVE Runs
  <2>1. \A j : Succeed(j) \/ Fail(j) => Runs
    BY <1>1, PartsRun DEF Succeed, Fail
  <2>2. \A j, i, E : Enter(j, i, E) => Runs
    BY <1>1, PartsRun DEF Enter, faultVars
  <2> QED BY <1>1, <1>6, <2>1, <2>2, PartsRun DEF ScriptDispatch
<1>7. ASSUME NEW e, FreeDispatch(e) PROVE Runs
  <2>1. \A j : Succeed(j) \/ Fail(j) => Runs
    BY <1>1, PartsRun DEF Succeed, Fail
  <2>2. \A E : AskStatus(E) => lates' = lates
    BY <1>1, PartsRun DEF AskStatus
  <2> QED BY <1>1, <1>7, <2>1, <2>2, PartsRun DEF FreeDispatch, faultVars
<1>8. \A k, s, E, r : Sub(k, s, E, r) => Runs
  BY <1>1, PartsRun DEF Sub, faultVars
<1>9. \A k, s, E : Stay(k, s, E) => Runs
  BY <1>1, PartsRun DEF Stay, faultVars
<1>10. \A j : Succeed(j) \/ Fail(j) => Runs
  BY <1>1, PartsRun DEF Succeed, Fail
<1>11. ASSUME NEW e, WriteDispatch(e) PROVE Runs
  <2>1. \A E : Enable(E) => Runs
    BY <1>8, <1>9 DEF Enable
  <2> QED BY <1>1, <1>8, <1>10, <1>11, <2>1, PartsRun DEF WriteDispatch
<1>12. ASSUME NEW e, EraseDispatch(e) PROVE Runs
  <2>1. \A E : Disable(E) => Runs
    BY <1>8, <1>9 DEF Disable
  <2>2. \A i, E : Repair(i, E) => Runs
    BY <1>1, PartsRun DEF Repair, faultVars
  <2>3. \A s, n, E : SetCnt(s, n, E) => Runs
    BY <1>1, PartsRun DEF SetCnt, faultVars
  <2> QED BY <1>1, <1>8, <1>10, <1>12, <2>1, <2>2, <2>3, PartsRun DEF EraseDispatch
<1>13. Handler(Top.kind) => Runs
  BY <1>1, <1>2, <1>3, <1>4, <1>5, ScriptFacts DEF Handler, Kinds
<1>14. \A e : Dispatch(Top.kind, e) => Runs
  BY <1>1, <1>6, <1>7, <1>11, <1>12, ScriptFacts DEF Dispatch, Kinds
<1>15. UNCHANGED <<stack, main, res, dma, dataVars, faultVars>> => Runs
  BY <1>1, PartsRun DEF faultVars
<1> QED BY <1>13, <1>14, <1>15 DEF RunHandler, RunEvent


LEMMA CalmInit == Init => CalmInv
<1> SUFFICES ASSUME Init PROVE Calm
  BY DmaInit DEF CalmInv
<1>1. /\ stack = <<>> /\ main = "init" /\ dma = NoTransfer
      /\ \A k \in Kinds : st[k] = Start(k) /\ evs[k] = {}
  BY DEF Init
<1>2. st["read"] = 0 /\ st["free"] = "init" /\ st["erase"] = "init"
  BY <1>1, ScriptFacts DEF Start
<1>3. Links /\ Sync /\ Quiet
  BY <1>1 DEF Links, Sync, Quiet
<1>4. FreeTells /\ ReadTells
  BY <1>1, <1>2 DEF FreeTells, ReadTells
<1>5. Pieces /\ Looked /\ PutBack
  BY <1>1, <1>2 DEF Pieces, Looked, PutBack
<1> QED BY <1>3, <1>4, <1>5 DEF Calm, Timely, Safe

\* No transfer that was late is forgotten.
LEMMA LatesCount ==
  ASSUME DmaInv, [Next]_vars, lates' = 0
  PROVE  lates = 0
<1>1. lates \in Nat
  BY DmaAssumption DEF DmaInv, CountType
<1>2. RunHandler \/ RunEvent => lates' \in {lates, lates + 1}
  BY RunsOn DEF Runs
<1>3. Router \/ Callback \/ InitState => lates' = lates
  BY DEF Router, Callback, InitState, faultVars
<1>4. ReadDma \/ WriteDma \/ EraseAddressesDma => lates' = lates
  BY DEF ReadDma, WriteDma, EraseAddressesDma, Request, faultVars
<1>5. DmaDone \/ DmaError \/ ChipReady => lates' = lates
  BY DEF DmaDone, DmaError, ChipReady, faultVars
<1>6. UNCHANGED vars => lates' = lates
  BY DEF vars, faultVars
<1> QED BY <1>1, <1>2, <1>3, <1>4, <1>5, <1>6 DEF Next, Tick

LEMMA CalmStep ==
  ASSUME CalmInv, [Next]_vars
  PROVE  CalmInv'
<1>1. DmaInv
  BY DEF CalmInv
<1>2. DmaInv'
  BY <1>1, TickStep, RequestsStep, SpiStep, ReadyStep, StutterStep DEF Next
<1> SUFFICES ASSUME lates' = 0 PROVE Calm'
  BY <1>2 DEF CalmInv
<1>3. lates = 0 /\ Calm
  BY <1>1, LatesCount DEF CalmInv
<1>4. CASE RunHandler
  BY <1>1, <1>3, <1>4, RunHandlerCalm
<1>5. CASE RunEvent
  BY <1>1, <1>3, <1>5, RunEventCalm
<1>6. CASE Router
  BY <1>1, <1>3, <1>6, IdleCalm DEF Router, chipVars, dataVars, userVars
<1>7. CASE Callback
  BY <1>1, <1>3, <1>7, CallbackCalm
<1>8. CASE InitState
  BY <1>1, <1>3, <1>8, IdleCalm DEF InitState, chipVars, dataVars, userVars
<1>9. CASE ReadDma \/ WriteDma \/ EraseAddressesDma
  <2>1. Ready /\ \E r : Request(r)
    BY <1>9 DEF ReadDma, WriteDma, EraseAddressesDma
  <2> QED BY <1>1, <1>3, <2>1, RequestCalm
<1>10. CASE DmaDone \/ DmaError
  BY <1>1, <1>3, <1>10, SpiCalm
<1>11. CASE ChipReady
  <2>1. ~chip'.busy
    BY <1>1, <1>11 DEF ChipReady, DmaInv, ChipType
  <2> QED BY <1>1, <1>3, <1>11, <2>1, IdleCalm DEF ChipReady, fsmVars, dataVars, userVars
<1>12. CASE UNCHANGED vars
  BY <1>1, <1>3, <1>12, IdleCalm DEF vars, chipVars, fsmVars, dataVars, userVars
<1> QED BY <1>4, <1>5, <1>6, <1>7, <1>8, <1>9, <1>10, <1>11, <1>12 DEF Next, Tick

\* The user's event is given when the last route is done.  No sector is torn
\* then, and no erase has failed.
LEMMA EventKeeps ==
  ASSUME CalmInv, [Next]_vars, Event, res = Ok, lates = 0
  PROVE  NeighboursKept
<1>1. DmaInv /\ Calm /\ stack # <<>> /\ stack' = <<>>
  BY DEF CalmInv, Event
<1>2. Callback
  <2>1. RunHandler \/ RunEvent => stack' # <<>>
    BY <1>1, RunsOn DEF Runs
  <2>2. Router \/ InitState \/ DmaDone \/ DmaError \/ ChipReady \/ UNCHANGED vars => stack' = stack
    BY DEF Router, InitState, DmaDone, DmaError, Interrupt, ChipReady, vars, fsmVars
  <2>3. ReadDma \/ WriteDma \/ EraseAddressesDma => stack = <<>>
    BY DEF ReadDma, WriteDma, EraseAddressesDma, Ready
  <2> QED BY <1>1, <2>1, <2>2, <2>3 DEF Next, Tick
<1>3. main = "done" /\ Len(stack) = 1
  <2>1. main = "done" /\ Len(stack) \in Nat \ {0} /\ Len(stack') = Len(stack) - 1
    BY <1>1, <1>2, CallbackForm
  <2>2. Len(stack') = 0
    BY <1>1
  <2> QED BY <2>1, <2>2
<1>4. st["erase"] \notin {"erase", "repair"}
  <2> SUFFICES ASSUME st["erase"] \in {"erase", "repair"} PROVE FALSE
    OBVIOUS
  <2>1. PICK i \in 1 .. Len(stack) : Torn(i)
    BY <1>1 DEF Calm, Safe, Pieces
  <2>2. Top.kind = "erase"
    BY <1>3, <2>1 DEF Torn, Top
  <2>3. st["erase"] = "init"
    BY <1>1, <1>3, <2>2, ScriptFacts DEF DmaInv, Control, DoneState, Start
  <2> QED BY <2>3
<1>5. Whole
  BY <1>1, <1>4 DEF Calm, Safe, Pieces, Doomed
<1> QED BY <1>5 DEF Whole, Kept, Others, NeighboursKept

\* As long as no transfer outlives its timer, FLASH_OK says that every page
\* the request did not aim at is as it was, on a chip and a stack of any size,
\* for any number of requests and whatever transfer is refused or fails: the
\* neighbours erased with a sector are read before it is erased and put back
\* from the one buffer, through the one machine that the nested WRITEs share
\* (w25qxx_dma.c:1736-1801).
THEOREM DmaKeepsNeighbours == Spec => OkKeepsNeighbours
<1>1. CalmInv /\ [Next]_vars => CalmInv'
  BY CalmStep
<1>2. CalmInv /\ [Next]_vars => [Event /\ res = Ok /\ lates = 0 => NeighboursKept]_vars
  BY EventKeeps
<1> QED BY <1>1, <1>2, CalmInit, PTL DEF Spec, OkKeepsNeighbours
=============================================================================
