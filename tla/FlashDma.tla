------------------------------ MODULE FlashDma ------------------------------
(***************************************************************************)
(* The interrupt driven driver of the W25Q flash, src/StorageDriver/       *)
(* w25qxx/w25qxx_dma.c.  A request is a route on a stack; a route that     *)
(* needs another one first (wait until the chip is FREE, UNBLOCK it, turn  *)
(* writing on or off, READ, ERASE, WRITE a neighbour back) pushes it on    *)
(* top.  Each kind of route has ONE state machine, shared by all routes of *)
(* the kind: a WRITE that erases waits in the machine that its neighbours' *)
(* WRITEs use meanwhile.  The machines start DMA transfers; their          *)
(* interrupts queue events for the machine of the route then on top.       *)
(*                                                                         *)
(* w24qxx_tick() runs the machine of the top route: it dispatches the      *)
(* queued event of the highest priority, or runs the handler of the state. *)
(* fsm_gc, the circular buffer and the HAL are not in the repository: they *)
(* are modelled from their use.                                            *)
(***************************************************************************)
EXTENDS FlashChip, Integers, Sequences, FiniteSets, FiniteSetsExt

CONSTANTS
    Writes,     \* requests to write: records [addr, data], data a sequence of page contents
    Erases,     \* requests to erase: sequences of pages
    Reads,      \* requests to read: records [addr, len]
    Formats,    \* contents of the chip when the model starts
    Slots,      \* routes the stack holds, 10 in the code
    Attempts,   \* W25Q_SPI_ATTEMPTS_CNT
    MaxFaults,  \* bound: transfers refused, failed or late
    MaxLates,   \* bound: those that end after their timer
    MaxRequests \* bound: requests of a behaviour

\* The deepest nesting is WRITE, ERASE, WRITE of a neighbour, READ or
\* WRITE_ON, FREE: it must leave room on the stack (w25qxx_dma.c:701-711).
Deepest == 5

\* The requests that w25qxx_read_dma, w25qxx_write_dma and
\* w25qxx_erase_addresses_dma take: no more data than w25q.buffer holds,
\* nothing behind the end of the chip, addresses of pages
\* (w25qxx_dma.c:200-330).  The code does not refuse a length of zero nor an
\* address to erase outside the chip: those are the caller's.  It takes data
\* of any length and programs and compares the last page as far as the data
\* goes (w25qxx_dma.c:1465-1473); here the data is whole pages.
ASSUME DmaAssumption ==
    /\ Formats \subseteq [Pages -> Content]
    /\ \A r \in Reads :
          /\ r \in [addr : Pages, len : Nat \ {0}]
          /\ r.addr + r.len - 1 \in Pages
    /\ \A w \in Writes :
          /\ w \in [addr : Pages, data : Seq(Content) \ {<<>>}]
          /\ w.addr + Len(w.data) - 1 \in Pages
          /\ Len(w.data) <= PagesPerSector
    /\ Erases \subseteq Seq(Pages) \ {<<>>}
    /\ Slots \in Nat /\ Deepest < Slots
    /\ Attempts \in Nat /\ MaxFaults \in Nat /\ MaxLates \in Nat /\ MaxRequests \in Nat

VARIABLES
    mem,                  \* the chip's pages
    chip,                 \* its BUSY and WEL bits, its block protection
    dma,                  \* the transfer under way
    stack, main,          \* queue; state and event of w25qxx_fsm
    st, evs,              \* state and queued events of the machine of each kind
    res, sr1, buf,        \* w25q.result, w25q.sr1, w25q.buffer
    got,                  \* the buffer a READ request fills
    faults, lates, requests, \* counted for the bounds
    before                \* history: the pages when the request was taken

chipVars == <<mem, chip>>
fsmVars  == <<stack, main, st, evs, res>>
dataVars == <<sr1, buf, got>>
userVars == <<requests, before>>
faultVars == <<faults, lates>>
vars == <<chipVars, dma, fsmVars, dataVars, userVars, faultVars>>

Ok    == "FLASH_OK"
Error == "FLASH_ERROR"
Busy  == "FLASH_BUSY"

NoTransfer == [op |-> "none"]

\* The kinds whose machine is a line of steps.  "free" pushes a FREE route;
\* "tx" sends a command; "send" sends a command and then receives.
Script ==
    [unblock |-> <<"free", "tx", "tx">>,
     on      |-> <<"free", "tx">>,
     off     |-> <<"free", "tx", "free", "tx", "tx">>,
     read    |-> <<"free", "send">>]

Kinds == DOMAIN Script \cup {"free", "write", "erase"}

Start(k) == IF k \in DOMAIN Script THEN 0 ELSE "init"

Top == stack[Len(stack)]
Nested == Len(stack) > 1               \* _w25q_route_call
Front(kind) == stack[1].kind = kind    \* _w25q_route_target
SlotOf(p) == p % PagesPerSector

\* rx_ptr is a page of w25q.buffer or the user's buffer; tx_ptr is the user's
\* data or the page of w25q.buffer that is put back.
ToUser == 0 - 1
FromBuffer == <<>>

\* w25q.buffer holds one sector.
Slot == 0 .. PagesPerSector - 1

\* Priorities of the events: FSM_GC_CREATE_EVENT
Priority(e) ==
    CASE e = "error" -> 3 [] e = "timeout" -> 2 [] e = "success" -> 1 [] OTHER -> 0

\* What a WRITE compares and programs: the user's data, or a slot of the
\* sector buffer when it puts a neighbour back.
TxPage(r, i) == IF r.tx = FromBuffer THEN buf[SlotOf(r.addr)] ELSE r.tx[i + 1]
RxPage(r, i) == buf[r.rx + i]

-----------------------------------------------------------------------------
(* Parts of the steps                                                      *)

To(k, s, E) ==
    /\ st' = [st EXCEPT ![k] = s]
    /\ evs' = [evs EXCEPT ![k] = E]

\* _w25q_route: the new route goes on top, unless the queue is full.
PushOn(routes, route) ==
    IF Len(routes) = Slots
    THEN res' = Error /\ main' = "done" /\ stack' = routes
    ELSE stack' = Append(routes, route) /\ main' = "router" /\ UNCHANGED res

Push(route) == PushOn(stack, route)

\* The machine of the route on top ends: result, and done_e for w25qxx_fsm.
Leave(k, s, r) ==
    /\ To(k, s, {}) /\ res' = r /\ main' = "done"
    /\ UNCHANGED <<stack, dma, dataVars, faultVars>>

Succeed(k) == Leave(k, Start(k), Ok)
Fail(k)    == Leave(k, Start(k), IF res = Ok THEN Error ELSE res)

\* _w25q_tx, _w25q_rx: a transfer starts, unless the SPI is busy or fails.
Transfer(cmd, k, s, E) ==
    \/ /\ dma = NoTransfer
       /\ dma' = cmd /\ To(k, s, E) /\ UNCHANGED <<res, faultVars>>
    \/ /\ \/ dma # NoTransfer /\ UNCHANGED faults
          \/ dma = NoTransfer /\ faults + lates < MaxFaults /\ faults' = faults + 1
       /\ UNCHANGED lates
       /\ To(k, s, E \cup {"error"})
       /\ res' = IF k = "free" THEN Error ELSE res
       /\ UNCHANGED dma

Queue(k, e) ==
    /\ evs' = [evs EXCEPT ![k] = @ \cup {e}]
    /\ UNCHANGED <<stack, main, st, res, dma, dataVars, faultVars>>

\* _w25q_route_res
RouteRes == IF res = Ok THEN "success" ELSE "error"

\* The timer of a transfer runs out: the transfer is late, or nothing is
\* under way any more.
TimedOutLate ==
    /\ dma # NoTransfer /\ ~dma.late /\ lates < MaxLates /\ faults + lates < MaxFaults
    /\ lates' = lates + 1
    /\ dma' = [dma EXCEPT !.late = TRUE]
TimedOut ==
    \/ dma = NoTransfer /\ UNCHANGED <<dma, lates>>
    \/ /\ dma # NoTransfer /\ ~dma.late /\ lates < MaxLates /\ faults + lates < MaxFaults
       /\ lates' = lates + 1
       /\ dma' = [dma EXCEPT !.late = TRUE]

QueueOnTimeout(k, e) ==
    /\ TimedOut
    /\ evs' = [evs EXCEPT ![k] = @ \cup {e}]
    /\ UNCHANGED <<stack, main, st, res, dataVars, faults>>

\* What is sent: a command with its address, or the data of a page; what is
\* received: the status register or len pages from addr.
Tx(what, page)   == [op |-> "tx", what |-> what, page |-> page, data |-> Blank, late |-> FALSE]
TxData(page, c)  == [op |-> "tx", what |-> <<"data", 0>>, page |-> page, data |-> c, late |-> FALSE]
RxStatus         == [op |-> "rx", what |-> <<"sr1", 0>>, late |-> FALSE]
RxData(r)        == [op |-> "rx", what |-> <<"data", 0>>, page |-> r.addr, len |-> r.len, to |-> r.rx, late |-> FALSE]

-----------------------------------------------------------------------------
(* FREE: read status register 1 until the chip is not busy                 *)

FreeHandler ==
    \/ /\ st["free"] = "init"
       /\ stack' = [stack EXCEPT ![Len(stack)].cnt = 0]
       /\ evs' = [evs EXCEPT !["free"] = {"success"}]
       /\ UNCHANGED <<main, st, res, dma, dataVars, faultVars>>
    \/ st["free"] = "free" /\ QueueOnTimeout("free", "timeout")

\* _free_tx_a
AskStatus(E) ==
    /\ sr1' = FALSE
    /\ Transfer(Tx(<<"sr1", 0>>, 0), "free", "free", E)
    /\ UNCHANGED <<main, buf, got>>

FreeDispatch(e) ==
    LET rest == evs["free"] \ {e} IN
    \/ st["free"] = "init" /\ e = "success" /\ AskStatus(rest) /\ UNCHANGED stack
    \/ /\ st["free"] = "free"
       /\ \/ e = "success" /\ Succeed("free")
          \/ e = "error" /\ Fail("free")
          \/ /\ e = "timeout" /\ Top.cnt > Attempts
             /\ res' = Busy /\ To("free", "free", rest \cup {"error"})
             /\ UNCHANGED <<stack, main, dma, dataVars, faultVars>>
          \/ /\ e = "timeout" /\ Top.cnt <= Attempts
             /\ stack' = [stack EXCEPT ![Len(stack)].cnt = @ + 1]
             /\ AskStatus(rest)
          \/ /\ e = "transmit"
             /\ Transfer(RxStatus, "free", "free", rest)
             /\ UNCHANGED <<stack, main, dataVars>>
          \/ /\ e = "receive"
             /\ To("free", "free", IF sr1 THEN rest ELSE rest \cup {"success"})
             /\ UNCHANGED <<stack, main, res, dma, dataVars, faultVars>>

-----------------------------------------------------------------------------
(* UNBLOCK, WRITE_ON, WRITE_OFF, READ                                      *)

ScriptHandler(k) ==
    LET i == st[k] IN
    \/ i = 0 /\ Queue(k, "success")
    \/ i > 0 /\ Script[k][i] = "free" /\ Queue(k, RouteRes)
    \/ i > 0 /\ Script[k][i] # "free" /\ QueueOnTimeout(k, "error")

\* The action of the transition into step i
Enter(k, i, rest) ==
    IF Script[k][i] = "free"
    THEN To(k, i, rest) /\ Push([kind |-> "free", cnt |-> 0]) /\ UNCHANGED <<dma, dataVars, faultVars>>
    ELSE Transfer(Tx(<<k, i>>, 0), k, i, {}) /\ UNCHANGED <<stack, main, dataVars>>

ScriptDispatch(k, e) ==
    LET i == st[k]
        rest == evs[k] \ {e}
        next == IF i = Len(Script[k]) THEN Succeed(k) ELSE Enter(k, i + 1, rest)
    IN
    \/ i = 0 /\ e = "success" /\ Enter(k, 1, rest)
    \/ i > 0 /\ e = "error" /\ Fail(k)
    \/ i > 0 /\ Script[k][i] = "free" /\ e = "success" /\ next
    \/ i > 0 /\ Script[k][i] = "tx" /\ e = "transmit" /\ next
    \/ /\ i > 0 /\ Script[k][i] = "send"
       /\ \/ e = "transmit" /\ Transfer(RxData(Top), k, i, {}) /\ UNCHANGED <<stack, main, dataVars>>
          \/ e = "receive" /\ Succeed(k)

-----------------------------------------------------------------------------
(* WRITE                                                                   *)

Sub(k, s, rest, route) ==
    /\ To(k, s, rest) /\ Push(route)
    /\ UNCHANGED <<dma, dataVars, faultVars>>

Stay(k, s, rest) ==
    /\ To(k, s, rest)
    /\ UNCHANGED <<stack, main, res, dma, dataVars, faultVars>>

\* _write_cmp_s: what the page read says
CmpEventFirst ==
    IF RxPage(Top, 0) = TxPage(Top, 0)
    THEN IF Nested /\ Front("write") THEN "next" ELSE IF Nested THEN "done" ELSE "success"
    ELSE IF Top.cnt >= Top.len THEN "error" ELSE IF ~Nested THEN "erase" ELSE "write"
CmpEvent ==
    IF \A i \in 0 .. Top.len - 1 : RxPage(Top, i) = TxPage(Top, i)
    THEN IF Nested /\ Front("write") THEN "next" ELSE IF Nested THEN "done" ELSE "success"
    ELSE IF Top.cnt >= Top.len THEN "error"
    ELSE IF ~Nested /\ (\E i \in 0 .. Top.len - 1 : RxPage(Top, i) # Blank) THEN "erase"
    ELSE "write"

WriteHandler ==
    LET s == st["write"] IN
    \/ /\ s = "init"
       /\ evs' = [evs EXCEPT !["erase"] = {}, !["write"] = {IF Nested THEN "success" ELSE "unblock"}]
       /\ UNCHANGED <<stack, main, st, res, dma, dataVars, faultVars>>
    \/ s \in {"unblock", "disable"} /\ Queue("write", RouteRes)
    \/ s = "cmp" /\ Queue("write", CmpEvent)
    \/ s = "erase" /\ Queue("write", IF Nested THEN "success" ELSE RouteRes)
    \/ s = "enable" /\ Queue("write", IF Top.cnt >= Top.len THEN "done" ELSE RouteRes)
    \/ s \in {"cmd", "data"} /\ QueueOnTimeout("write", "error")

CompareRoute == [kind |-> "read", addr |-> Top.addr, len |-> Top.len, rx |-> Top.rx]

EraseRoute ==
    [kind |-> "erase", list |-> [i \in 1 .. Top.len |-> Top.addr + i - 1], cnt |-> 0, idx |-> 0]

\* _write_enable_a
Enable(rest) ==
    IF Top.cnt >= Top.len
    THEN Stay("write", "enable", rest)
    ELSE Sub("write", "enable", rest, [kind |-> "on"])

WriteDispatch(e) ==
    LET s == st["write"]
        rest == evs["write"] \ {e}
    IN
    \/ s = "init" /\ e = "unblock" /\ Sub("write", "unblock", rest, [kind |-> "unblock"])
    \/ /\ <<s, e>> \in {<<"init", "success">>, <<"unblock", "success">>, <<"enable", "done">>}
       /\ Sub("write", "cmp", rest, CompareRoute)
    \/ s = "cmp" /\ e = "success" /\ Sub("write", "disable", rest, [kind |-> "off"])
    \/ s = "cmp" /\ e = "done" /\ Leave("write", "init", Ok)
    \/ s = "cmp" /\ e = "next" /\ Leave("write", "erase", Ok)
    \/ s = "cmp" /\ e = "erase" /\ Sub("write", "erase", rest, EraseRoute)
    \/ <<s, e>> \in {<<"cmp", "write">>, <<"erase", "success">>, <<"data", "transmit">>} /\ Enable(rest)
    \/ /\ s = "enable" /\ e = "success"
       /\ Transfer(Tx(<<"program", 0>>, 0), "write", "cmd", {})
       /\ UNCHANGED <<stack, main, dataVars>>
    \/ /\ s = "cmd" /\ e = "transmit"
       /\ Transfer(TxData(Top.addr + Top.cnt, TxPage(Top, Top.cnt)), "write", "data", {})
       /\ stack' = [stack EXCEPT ![Len(stack)].cnt = @ + 1]
       /\ UNCHANGED <<main, dataVars>>
    \/ s = "disable" /\ e = "success" /\ Succeed("write")
    \/ s # "init" /\ e = "error" /\ Fail("write")

-----------------------------------------------------------------------------
(* ERASE                                                                   *)

ListSector == SectorOf(Top.list[Top.cnt + 1])

\* The addresses of the list that w25qxx_erase still looks at
ListedSector == {p \in Pages : SectorOf(p) = ListSector}
Listed == {Top.list[j] : j \in Top.cnt + 1 .. Len(Top.list)}

\* _erase_cmp_s: the pages listed next to each other in the sector that are
\* not blank
Written ==
    {i \in Top.cnt .. Len(Top.list) - 1 :
        /\ \A j \in Top.cnt .. i : SectorOf(Top.list[j + 1]) = ListSector
        /\ buf[SlotOf(Top.list[i + 1])] # Blank}

EraseCmp ==
    LET e == IF res # Ok THEN "error" ELSE IF Written # {} THEN "erase" ELSE "success" IN
    /\ evs' = [evs EXCEPT !["erase"] = {e}]
    /\ stack' = IF e = "erase" THEN [stack EXCEPT ![Len(stack)].cnt = Min(Written)] ELSE stack
    /\ UNCHANGED <<main, st, res, dma, dataVars, faultVars>>

EraseHandler ==
    LET s == st["erase"] IN
    \/ s = "init" /\ Queue("erase", IF Nested THEN "success" ELSE "unblock")
    \/ s \in {"unblock", "enable"} /\ Queue("erase", RouteRes)
    \/ s = "loop" /\ Queue("erase", IF Top.cnt >= Len(Top.list) THEN "success" ELSE "next")
    \/ s = "cmp" /\ EraseCmp
    \/ s = "erase" /\ QueueOnTimeout("erase", "error")
    \/ s = "repair" /\ Queue("erase", IF res = Ok THEN "write" ELSE "error")
    \/ s = "disable" /\ Queue("erase", IF Nested THEN "success" ELSE RouteRes)

\* _erase_iter_a: on to the first address of another sector
NextListed ==
    LET more == {i \in Top.cnt + 1 .. Len(Top.list) - 1 : SectorOf(Top.list[i + 1]) # ListSector}
    IN  IF more = {} THEN Len(Top.list) ELSE Min(more)

\* _erase_repair_iter_a: the next page of the sector to put back
Repair(idx, rest) ==
    LET first == ListSector * PagesPerSector
        wanted == {i \in idx .. PagesPerSector - 1 : first + i \notin Listed /\ buf[i] # Blank}
        i == Min(wanted)
        repair == [kind |-> "write", addr |-> first + i, len |-> 1, cnt |-> 0,
                   rx |-> SlotOf(Top.list[Top.cnt + 1]), tx |-> FromBuffer]
    IN  /\ IF wanted = {}
           THEN /\ To("erase", "repair", rest \cup {"success"})
                /\ stack' = [stack EXCEPT ![Len(stack)].idx = idx]
                /\ UNCHANGED <<main, res>>
           ELSE /\ To("erase", "repair", rest)
                /\ PushOn([stack EXCEPT ![Len(stack)].idx = i + 1], repair)
        /\ UNCHANGED <<dma, dataVars, faultVars>>

SectorRoute == [kind |-> "read", addr |-> ListSector * PagesPerSector, len |-> PagesPerSector, rx |-> 0]

\* _erase_disable_a
Disable(rest) ==
    IF Nested THEN Stay("erase", "disable", rest)
    ELSE Sub("erase", "disable", rest, [kind |-> "off"])

SetCnt(s, n, rest) ==
    /\ stack' = [stack EXCEPT ![Len(stack)].cnt = n]
    /\ To("erase", s, rest)
    /\ UNCHANGED <<main, res, dma, dataVars, faultVars>>

EraseDispatch(e) ==
    LET s == st["erase"]
        rest == evs["erase"] \ {e}
    IN
    \/ s = "init" /\ e = "unblock" /\ Sub("erase", "unblock", rest, [kind |-> "unblock"])
    \/ s \in {"init", "unblock"} /\ e = "success" /\ SetCnt("loop", 0, {})
    \/ s = "loop" /\ e = "success" /\ Succeed("erase")
    \/ s = "loop" /\ e = "next" /\ Sub("erase", "cmp", rest, SectorRoute)
    \/ s \in {"cmp", "disable"} /\ e = "success" /\ SetCnt("loop", NextListed, rest)
    \/ s = "cmp" /\ e = "erase" /\ Sub("erase", "enable", rest, [kind |-> "on"])
    \/ /\ s = "enable" /\ e = "success"
       /\ Transfer(Tx(<<"erase", 0>>, ListSector * PagesPerSector), "erase", "erase", {})
       /\ UNCHANGED <<stack, main, dataVars>>
    \/ s = "erase" /\ e = "transmit" /\ Repair(0, rest)
    \/ s = "repair" /\ e = "write" /\ Repair(Top.idx, rest)
    \/ s = "repair" /\ e = "success" /\ Disable(rest)
    \/ s \notin {"init", "loop"} /\ e = "error" /\ Fail("erase")

-----------------------------------------------------------------------------
(* w25qxx_fsm                                                              *)

Handler(k) ==
    CASE k \in DOMAIN Script -> ScriptHandler(k)
      [] k = "free"  -> FreeHandler
      [] k = "write" -> WriteHandler
      [] k = "erase" -> EraseHandler

Dispatch(k, e) ==
    CASE k \in DOMAIN Script -> ScriptDispatch(k, e)
      [] k = "free"  -> FreeDispatch(e)
      [] k = "write" -> WriteDispatch(e)
      [] k = "erase" -> EraseDispatch(e)

\* The rows of the tables: an event with no row in the state is dropped.
Accepts(k, e) ==
    LET s == st[k] IN
    CASE k \in DOMAIN Script ->
             IF s = 0 THEN e = "success"
             ELSE \/ e = "error"
                  \/ e = "success" /\ Script[k][s] = "free"
                  \/ e = "transmit" /\ Script[k][s] # "free"
                  \/ e = "receive" /\ Script[k][s] = "send"
      [] k = "free" -> IF s = "init" THEN e = "success" ELSE TRUE
      [] k = "write" ->
             \/ e = "error" /\ s # "init"
             \/ <<s, e>> \in {<<"init", "unblock">>, <<"init", "success">>, <<"unblock", "success">>,
                              <<"cmp", "success">>, <<"cmp", "done">>, <<"cmp", "next">>, <<"cmp", "erase">>,
                              <<"cmp", "write">>, <<"erase", "success">>, <<"enable", "done">>,
                              <<"enable", "success">>, <<"cmd", "transmit">>, <<"data", "transmit">>,
                              <<"disable", "success">>}
      [] k = "erase" ->
             \/ e = "error" /\ s \notin {"init", "loop"}
             \/ <<s, e>> \in {<<"init", "unblock">>, <<"init", "success">>, <<"unblock", "success">>,
                              <<"loop", "success">>, <<"loop", "next">>, <<"cmp", "success">>,
                              <<"cmp", "erase">>, <<"enable", "success">>, <<"erase", "transmit">>,
                              <<"repair", "write">>, <<"repair", "success">>, <<"disable", "success">>}

Running == main = "run"

RunHandler ==
    /\ Running /\ evs[Top.kind] = {}
    /\ Handler(Top.kind)
    /\ UNCHANGED <<chipVars, userVars>>

RunEvent ==
    /\ Running
    /\ \E e \in evs[Top.kind] :
          /\ \A f \in evs[Top.kind] : Priority(f) <= Priority(e)
          /\ IF Accepts(Top.kind, e)
             THEN Dispatch(Top.kind, e)
             ELSE To(Top.kind, st[Top.kind], evs[Top.kind] \ {e})
                  /\ UNCHANGED <<stack, main, res, dma, dataVars, faultVars>>
    /\ UNCHANGED <<chipVars, userVars>>

\* _router_s and the transition to the state of the top route
Router ==
    /\ main = "router" /\ stack # <<>>
    /\ main' = "run"
    /\ UNCHANGED <<chipVars, dma, stack, st, evs, res, dataVars, userVars, faultVars>>

ResetFsms ==
    /\ st' = [k \in Kinds |-> Start(k)]
    /\ evs' = [k \in Kinds |-> {}]

\* _callback_a: the route on top is done.  A failure at the third route or
\* deeper takes the whole stack down (w25qxx_stop_dma).  When the last route
\* leaves the stack the user gets its event, with the result.
CallbackStays ==
    /\ main = "done"
    /\ stack' = SubSeq(stack, 1, Len(stack) - 1) /\ main' = "run"
    /\ UNCHANGED <<chipVars, dma, st, evs, res, dataVars, userVars, faultVars>>
Callback ==
    /\ main = "done"
    /\ LET rest == SubSeq(stack, 1, Len(stack) - 1) IN
       IF res # Ok /\ Len(rest) > 1
       THEN stack' = <<>> /\ ResetFsms /\ main' = "init"
       ELSE stack' = rest /\ main' = "router" /\ UNCHANGED <<st, evs>>
    /\ UNCHANGED <<chipVars, dma, res, dataVars, userVars, faultVars>>

\* _init_s: w25qxx_init answers OK
InitState ==
    /\ main = "init"
    /\ main' = "router"
    /\ UNCHANGED <<chipVars, dma, stack, st, evs, res, dataVars, userVars, faultVars>>

Tick == RunHandler \/ RunEvent \/ Router \/ Callback \/ InitState

-----------------------------------------------------------------------------
(* Requests: w25qxx_read_dma, w25qxx_write_dma, w25qxx_erase_addresses_dma *)

\* _w25q_ready: no other request is under way.  w25q.initialized stays TRUE
\* when a failure sends w25qxx_fsm back to "init", so a request, also one of
\* the event's callback, may come before w25qxx_init has answered again.
Ready == stack = <<>>

Request(route) ==
    /\ requests < MaxRequests /\ requests' = requests + 1
    /\ stack' = <<route>>
    /\ before' = mem
    /\ UNCHANGED <<chipVars, dma, main, st, evs, res, dataVars, faultVars>>

ReadDma ==
    /\ Ready
    /\ \E r \in Reads : Request([kind |-> "read", addr |-> r.addr, len |-> r.len, rx |-> ToUser])

WriteDma ==
    /\ Ready
    /\ \E w \in Writes :
          Request([kind |-> "write", addr |-> w.addr, len |-> Len(w.data), cnt |-> 0, rx |-> 0, tx |-> w.data])

EraseAddressesDma ==
    /\ Ready
    /\ \E list \in Erases : Request([kind |-> "erase", list |-> list, cnt |-> 0, idx |-> 0])

-----------------------------------------------------------------------------
(* The chip and the SPI                                                    *)

\* A command the chip has received, with the first n bytes of its data.  While
\* it is busy it ignores all but the reading of its status register; it
\* erases and programs only when enabled and not protected, and that clears
\* the enable bit.
\*
\* The chip here takes every command on its own.  The driver selects it once
\* and sends 0x50 and 0x01 in one frame (w25qxx_dma.c:883-909, 1115-1141):
\* a real W25Q ends a command when it is deselected, so it would not execute
\* that write of the status register.
Effect(d, n) ==
    LET open == chip.wel /\ ~chip.locked
        works == [chip EXCEPT !.busy = TRUE, !.wel = FALSE]
    IN
    CASE chip.busy -> <<mem, chip>>
      [] ~chip.busy /\ d.what = <<"on", 2>>      -> <<mem, [chip EXCEPT !.wel = TRUE]>>
      [] ~chip.busy /\ d.what = <<"off", 2>>     -> <<mem, [chip EXCEPT !.wel = FALSE]>>
      [] ~chip.busy /\ d.what = <<"unblock", 3>> -> <<mem, [chip EXCEPT !.locked = FALSE]>>
      [] ~chip.busy /\ d.what = <<"off", 5>>     -> <<mem, [chip EXCEPT !.locked = TRUE]>>
      [] ~chip.busy /\ open /\ d.what = <<"erase", 0>> ->
             <<[p \in Pages |-> IF p \in Neighbours(d.page) THEN Blank ELSE mem[p]], works>>
      [] ~chip.busy /\ open /\ d.what = <<"data", 0>> ->
             <<[mem EXCEPT ![d.page] = Programmed(@, d.data, n)], works>>
      [] OTHER -> <<mem, chip>>

\* A command whose transfer was late or failed may have been cut, the data of
\* a page after any number of its bytes.
Effects(d, cut) ==
    IF cut THEN {<<mem, chip>>} \cup {Effect(d, n) : n \in 1 .. PageSize} ELSE {Effect(d, PageSize)}

Sent(d, cut) ==
    /\ \E effect \in Effects(d, cut) : mem' = effect[1] /\ chip' = effect[2]
    /\ UNCHANGED dataVars

\* A busy chip drives no data.
Junk == [i \in Offsets |-> Garbage]
PageRead(p) == IF chip.busy THEN Junk ELSE mem[p]

Received(d, cut) ==
    /\ UNCHANGED chipVars
    /\ \/ cut /\ UNCHANGED dataVars
       \/ d.what = <<"sr1", 0>> /\ sr1' = chip.busy /\ UNCHANGED <<buf, got>>
       \/ /\ d.what = <<"data", 0>> /\ d.to = ToUser
          /\ got' = [i \in 0 .. d.len - 1 |-> PageRead(d.page + i)]
          /\ UNCHANGED <<sr1, buf>>
       \/ /\ d.what = <<"data", 0>> /\ d.to # ToUser
          /\ buf' = [i \in Slot |-> IF i - d.to \in 0 .. d.len - 1 THEN PageRead(d.page + i - d.to) ELSE buf[i]]
          /\ UNCHANGED <<sr1, got>>

\* The interrupts of the DMA: w25qxx_tx_dma_callback, w25qxx_rx_dma_callback
\* and w25qxx_error_dma_callback put the event in the queue of the machine
\* of the route on top, whoever started the transfer.  The first two read the
\* kind of that route with (*(dma_status_t*)...).status (w25qxx_dma.c:404,
\* 439), which no compiler takes: dma_status_t is an enumeration.  They are
\* modelled as w25qxx_error_dma_callback is written, which does compile.
Interrupt(e) ==
    /\ dma' = NoTransfer
    /\ evs' = IF stack = <<>> THEN evs ELSE [evs EXCEPT ![Top.kind] = @ \cup {e}]
    /\ UNCHANGED <<stack, main, st, res, userVars>>

DmaDone ==
    /\ dma # NoTransfer
    /\ IF dma.op = "tx"
       THEN Sent(dma, dma.late) /\ Interrupt("transmit")
       ELSE Received(dma, dma.late) /\ Interrupt("receive")
    /\ UNCHANGED faultVars

DmaError ==
    /\ dma # NoTransfer
    /\ faults + lates < MaxFaults /\ faults' = faults + 1
    /\ UNCHANGED lates
    /\ IF dma.op = "tx" THEN Sent(dma, TRUE) ELSE Received(dma, TRUE)
    /\ Interrupt("error")

\* The chip has programmed or erased.
ChipReady ==
    /\ chip.busy
    /\ chip' = [chip EXCEPT !.busy = FALSE]
    /\ UNCHANGED <<mem, dma, fsmVars, dataVars, userVars, faultVars>>

-----------------------------------------------------------------------------

Init ==
    /\ mem \in Formats /\ before = mem
    /\ chip = [busy |-> FALSE, wel |-> FALSE, locked |-> TRUE]
    /\ dma = NoTransfer
    /\ stack = <<>> /\ main = "init" /\ res = Ok
    /\ st = [k \in Kinds |-> Start(k)] /\ evs = [k \in Kinds |-> {}]
    /\ sr1 = FALSE /\ buf = [i \in Slot |-> Junk] /\ got = <<>>
    /\ faults = 0 /\ lates = 0 /\ requests = 0

Next ==
    \/ Tick
    \/ ReadDma \/ WriteDma \/ EraseAddressesDma
    \/ DmaDone \/ DmaError \/ ChipReady

\* The main loop calls w24qxx_tick, the DMA ends every transfer, the chip
\* every erase and program.
Spec == Init /\ [][Next]_vars /\ WF_vars(Tick) /\ WF_vars(DmaDone) /\ WF_vars(ChipReady)

-----------------------------------------------------------------------------
(* Properties                                                              *)

TypeOK ==
    /\ mem \in [Pages -> Content] /\ before \in [Pages -> Content]
    /\ chip \in [busy : BOOLEAN, wel : BOOLEAN, locked : BOOLEAN]
    /\ main \in {"init", "router", "run", "done"}
    /\ Len(stack) \in 0 .. Deepest
    /\ \A i \in DOMAIN stack : stack[i].kind \in Kinds
    /\ \A k \in Kinds : evs[k] \subseteq {"unblock", "success", "error", "timeout", "transmit", "receive",
                                           "next", "done", "erase", "write"}
    /\ res \in {Ok, Error, Busy} /\ sr1 \in BOOLEAN
    /\ buf \in [Slot -> Content]
    /\ faults \in 0 .. MaxFaults /\ lates \in 0 .. MaxLates /\ requests \in 0 .. MaxRequests
    /\ main \in {"run", "done"} => stack # <<>>

\* The event of a request, and what its FLASH_OK should mean
Event == stack # <<>> /\ stack' = <<>>

Aimed(r) ==
    CASE r.kind = "write" -> r.addr .. r.addr + r.len - 1
      [] r.kind = "erase" -> {r.list[i] : i \in DOMAIN r.list}
      [] OTHER -> {}

Done(r) ==
    CASE r.kind = "write" -> \A i \in 0 .. r.len - 1 : mem[r.addr + i] = r.tx[i + 1]
      [] r.kind = "erase" -> \A p \in Aimed(r) : mem[p] = Blank
      [] r.kind = "read"  -> \A i \in 0 .. r.len - 1 : got[i] = mem[r.addr + i]

NeighboursKept == \A p \in Pages \ Aimed(stack[1]) : mem[p] = before[p]

\* As long as no transfer outlives its timer, a request that ends with
\* FLASH_OK left every page it did not aim at as it was, whatever transfer
\* was refused or failed on the way: the pages erased with the sector are
\* back, through the one machine and the one buffer the nested routes share
\* (w25qxx_dma.c:1736-1801).
OkKeepsNeighbours ==
    [][Event /\ res = Ok /\ lates = 0 => NeighboursKept]_vars

\* As long as nothing fails, FLASH_OK is true: the data is stored, the buffer
\* holds what was read, the pages are blank if they belong to one sector (see
\* OkMeansErased).
FaultFreeOkIsTrue ==
    [][Event /\ res = Ok /\ faults = 0 /\ lates = 0 =>
          \/ stack[1].kind = "erase" /\ Cardinality({SectorOf(p) : p \in Aimed(stack[1])}) > 1
          \/ Done(stack[1])]_vars

\* Every request gets its event (w25qxx_dma.c:664-699).
Answered == (stack # <<>>) ~> (stack = <<>>)

\* The driver times its transfers, so an answer that comes after its timer
\* must be harmless: no page but the wanted ones changes under FLASH_OK
\* ("Erases addresses in the W25Q memory using DMA.", w25qxx.h:147).
LateAnswerHarmless == [][Event /\ res = Ok => NeighboursKept]_vars

\* "Returns the result status of the w25qxx_write_dma() function"
\* (w25qxx.h:173): FLASH_OK says that the data is stored.
OkMeansStored ==
    [][Event /\ res = Ok /\ stack[1].kind = "write" => Done(stack[1])]_vars

\* "Returns the result status of the w25qxx_erase_addresses_dma() function"
\* (w25qxx.h:179): FLASH_OK says that the pages are blank.
OkMeansErased ==
    [][Event /\ res = Ok /\ stack[1].kind = "erase" => Done(stack[1])]_vars
=============================================================================
