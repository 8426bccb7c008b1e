------------------------------- MODULE SearchId -------------------------------
(***************************************************************************)
(* Example/grd_test_search_id.c: pairing with a new aircraft.  A request   *)
(* makes the baseband search for an id and starts a timer; the baseband's  *)
(* event "search end" stops the timer, and after eight ticks without it    *)
(* the timer's interrupt gives the search up.                              *)
(*                                                                         *)
(* Requests and events wait in one queue for the task that dispatches      *)
(* system events, which runs one handler at a time; the interrupt falls    *)
(* between any two statements of a handler.  The baseband runs on another  *)
(* processor.  What it does by itself, and the timer, are external.        *)
(***************************************************************************)
EXTENDS Naturals, Sequences

CONSTANTS MaxRequests,  \* bound of the model: how many requests are made
          MaxQueue      \* bound of the model: how much waits in the queue

Ticks == 8  \* the tick that gives up: timeout_loop++ > 6 holds for the first time

ASSUME SearchAssumption == MaxRequests \in Nat /\ MaxQueue \in Nat

VARIABLES searching,             \* the baseband
          registered, running,   \* the timer
          flag_searchIdTimerStart, timeout_loop,
          queue, ioPc,           \* the task that dispatches events
          requests,              \* history: the requests made
          ticksOfSearch,         \* history: ticks since the last handled request
          early,                 \* history: a search was given up before its time
          orphaned               \* history: a late event stopped another search's timer

timerVars == <<registered, running, flag_searchIdTimerStart, timeout_loop>>
history == <<ticksOfSearch, early, orphaned>>
searchVars == <<searching, timerVars, queue, ioPc, requests, history>>

SearchInit ==
    /\ searching = FALSE /\ registered = FALSE /\ running = FALSE
    /\ flag_searchIdTimerStart = 0 /\ timeout_loop = 0
    /\ queue = <<>> /\ ioPc = "idle" /\ requests = 0
    /\ ticksOfSearch = 0 /\ early = FALSE /\ orphaned = FALSE

Post(event) == /\ Len(queue) < MaxQueue
               /\ queue' = Append(queue, event)

Request == /\ requests < MaxRequests
           /\ requests' = requests + 1
           /\ Post("request")
           /\ UNCHANGED <<searching, timerVars, ioPc, history>>

(* The baseband has found an aircraft (GRD_RC_SEARCH_END). *)
Found == /\ searching
         /\ searching' = FALSE
         /\ Post("end")
         /\ UNCHANGED <<timerVars, ioPc, requests, history>>
-------------------------------------------------------------------------------
(* BB_Grd_SearchIdHandler *)

Begin(event, pc) == /\ ioPc = "idle" /\ queue # <<>> /\ Head(queue) = event
                    /\ queue' = Tail(queue)
                    /\ ioPc' = pc

(* The test of the flag; the interrupt may clear it right afterwards. *)
BeginRequest == /\ Begin("request", IF flag_searchIdTimerStart = 1 THEN "stop" ELSE "register")
                /\ UNCHANGED <<searching, timerVars, requests, history>>

StopTimer == /\ ioPc = "stop"
             /\ running' = FALSE
             /\ ioPc' = "clear flag"
             /\ UNCHANGED <<searching, registered, flag_searchIdTimerStart, timeout_loop, queue,
                            requests, history>>

ClearFlag == /\ ioPc = "clear flag"
             /\ flag_searchIdTimerStart' = 0
             /\ ioPc' = "register"
             /\ UNCHANGED <<searching, registered, running, timeout_loop, queue, requests, history>>

Register(ok) == /\ ioPc = "register"
                /\ registered' = (registered \/ ok)
                /\ flag_searchIdTimerStart' = IF ok THEN 1 ELSE flag_searchIdTimerStart
                /\ ioPc' = "start"
                /\ UNCHANGED <<searching, running, timeout_loop, queue, requests, history>>

StartTimer == /\ ioPc = "start"
              /\ running' = TRUE
              /\ ioPc' = "search"
              /\ UNCHANGED <<searching, registered, flag_searchIdTimerStart, timeout_loop, queue,
                            requests, history>>

(* The command may fail to reach the baseband: the answer is not looked at. *)
SearchRcId(ok) == /\ ioPc = "search"
                  /\ searching' = (searching \/ ok)
                  /\ ioPc' = "reset"
                  /\ UNCHANGED <<timerVars, queue, requests, history>>

ResetLoopNot == /\ ioPc = "reset"
                /\ ticksOfSearch' = 0
                /\ ioPc' = "idle"
                /\ UNCHANGED <<searching, timerVars, queue, requests, early, orphaned>>

ResetLoop == /\ ioPc = "reset"
             /\ timeout_loop' = 0
             /\ ticksOfSearch' = 0
             /\ ioPc' = "idle"
             /\ UNCHANGED <<searching, registered, running, flag_searchIdTimerStart, queue,
                            requests, early, orphaned>>
-------------------------------------------------------------------------------
(* BB_grdRcIdEventHandler *)

BeginEnd == /\ Begin("end", IF flag_searchIdTimerStart = 1 THEN "end stop" ELSE "idle")
            /\ UNCHANGED <<searching, timerVars, requests, history>>

(* orphaned: the event is about a search before the one that runs now. *)
EndStopTimer == /\ ioPc = "end stop"
                /\ running' = FALSE
                /\ orphaned' = (orphaned \/ searching)
                /\ ioPc' = "end clear"
                /\ UNCHANGED <<searching, registered, flag_searchIdTimerStart, timeout_loop, queue,
                               requests, ticksOfSearch, early>>

EndClearFlagNot == /\ ioPc = "end clear"
                   /\ ioPc' = "idle"
                   /\ UNCHANGED <<searching, timerVars, queue, requests, history>>

EndClearFlag == /\ ioPc = "end clear"
                /\ flag_searchIdTimerStart' = 0
                /\ ioPc' = "idle"
                /\ UNCHANGED <<searching, registered, running, timeout_loop, queue, requests, history>>
-------------------------------------------------------------------------------
(* TIMHAL_IRQSearchIdHandler.  Timing assumption: the handler of a request *)
(* does not take the ten seconds of a tick from the start of the timer.    *)
TickGuard == registered /\ running /\ ioPc \notin {"search", "reset"}

CountTick == ticksOfSearch' = IF ticksOfSearch < Ticks THEN ticksOfSearch + 1 ELSE Ticks

GiveUp == /\ running' = FALSE /\ flag_searchIdTimerStart' = 0
          /\ searching' = FALSE
          /\ early' = (early \/ ticksOfSearch' < Ticks)
          /\ queue' = queue \/ (searching /\ Post("end"))

GoOn == /\ timeout_loop' = timeout_loop + 1
        /\ UNCHANGED <<running, flag_searchIdTimerStart, searching, queue, early>>

TickForever == /\ TickGuard /\ CountTick
               /\ IF timeout_loop > 6
                  THEN timeout_loop' = 0
                       /\ UNCHANGED <<running, flag_searchIdTimerStart, searching, queue, early>>
                  ELSE GoOn
               /\ UNCHANGED <<registered, ioPc, requests, orphaned>>

TickWithoutReset == /\ TickGuard /\ CountTick
                    /\ IF timeout_loop > 6
                       THEN GiveUp /\ timeout_loop' = timeout_loop + 1
                       ELSE GoOn
                    /\ UNCHANGED <<registered, ioPc, requests, orphaned>>

(* Stopping a search may make the baseband report its end. *)
Tick == /\ TickGuard /\ CountTick
        /\ IF timeout_loop > 6 THEN GiveUp /\ timeout_loop' = 0 ELSE GoOn
        /\ UNCHANGED <<registered, ioPc, requests, orphaned>>
-------------------------------------------------------------------------------
HandleEvent == \/ BeginRequest \/ StopTimer \/ ClearFlag \/ StartTimer \/ ResetLoop
               \/ \E ok \in BOOLEAN : Register(ok) \/ SearchRcId(ok)
               \/ BeginEnd \/ EndStopTimer \/ EndClearFlag

SearchNext == Request \/ Found \/ HandleEvent \/ Tick

SearchSpec == SearchInit /\ [][SearchNext]_searchVars

(* The task handles what waits, and a running timer ticks. *)
FairSearchSpec == SearchSpec /\ WF_searchVars(HandleEvent) /\ WF_searchVars(Tick)
-------------------------------------------------------------------------------
SearchTypeOK ==
    /\ searching \in BOOLEAN /\ running \in BOOLEAN
    /\ flag_searchIdTimerStart \in {0, 1} /\ timeout_loop \in 0 .. 7
    /\ queue \in Seq({"request", "end"})
    /\ ticksOfSearch \in 0 .. Ticks

(* No search is given up before eight ticks of its own: what an earlier    *)
(* search, ended or replaced in the middle of its ticks, left in           *)
(* timeout_loop is never counted against the next one.  test_search_id.h   *)
(* says ten seconds, which is one tick.                                    *)
FullTime == ~early

(* Every search ends, found or given up, wherever the interrupt falls, and *)
(* even if the timer could not be registered anew; except when it was      *)
(* never registered, or when the event that ends one search is handled     *)
(* after the request for the next one.                                     *)
SearchEnds == searching ~> ~searching \/ orphaned \/ ~registered

(* Between two handlers, a flag that is set means that the timer runs, so  *)
(* that the end of the search finds it and stops it, although both the     *)
(* handlers and the interrupt write the flag and stop the timer in two     *)
(* steps that overlap.                                                     *)
FlagIsTrue == ioPc = "idle" /\ flag_searchIdTimerStart = 1 => running
===============================================================================
