------------------------------- MODULE ServiceMain -----------------------------
(***************************************************************************)
(* The process of a service, from main to its exit.  Two goroutines serve  *)
(* gRPC and the HTTP health endpoint, every RPC runs on a goroutine of its *)
(* own, and main asks to be notified of a SIGTERM and waits for one or, in *)
(* two services, for an error of the servers; then it stops both servers   *)
(* in the order of its code and returns, which closes the connections and  *)
(* pools it has deferred.  A SIGTERM that comes before main has asked for  *)
(* it ends the process at once.                                            *)
(*                                                                         *)
(* The 14 mains differ in five things, which the records below give:       *)
(*   notify    whether main asks for signals before ("first") or after      *)
(*             ("last") it starts the goroutines of the servers             *)
(*   onError   what an error of Serve or ListenAndServe does: log.Fatalf,  *)
(*             log.Printf, or go over the error channel to main            *)
(*   woken     what main does with an error from the channel: "stop" as at *)
(*             a signal, or "return" at once                               *)
(*   order     the order in which the servers are stopped                  *)
(*   deadline  whether Stop follows a GracefulStop that takes 10 s         *)
(***************************************************************************)
EXTENDS Integers, Sequences

CONSTANTS Service,   \* the services that are looked at
          MaxRPCs    \* bound on the RPCs in flight

ASSUME ServiceMainAssumption ==
  /\ Service \subseteq {"admin", "ads", "auth", "booking", "cancellation", "geo",
                    "inventory", "notification", "payment", "pricing", "profile",
                    "review", "search", "user"}
  /\ MaxRPCs \in Nat

VARIABLES service,   \* the service whose process this is
          main,      \* where main is
          serve,     \* serve[k]: the goroutine of server k
          stop,      \* stop[k]: whether server k has been told to stop
          errCh,     \* an error is in the channel
          inflight,  \* RPCs whose handler runs
          signalled, \* whether a SIGTERM or SIGINT has come, and found main listening
          late,      \* 10 s have passed since the shutdown began
          failed,    \* a listener has failed
          closed     \* connections and pools are closed

mainVars == <<service, main, serve, stop, errCh, inflight, signalled, late, failed, closed>>

Server == {"grpc", "http"}

GrpcFirst == <<"grpc", "http">>
HttpFirst == <<"http", "grpc">>

FatalMain(order) ==
  [notify |-> "last", onError |-> "fatal", woken |-> "never", order |-> order,
   deadline |-> FALSE]

AdminMain == [notify |-> "last", onError |-> "channel", woken |-> "return",
              order |-> GrpcFirst, deadline |-> FALSE]
AdsMain == FatalMain(GrpcFirst)
AuthMain == FatalMain(GrpcFirst)
BookingMain == FatalMain(HttpFirst)
CancellationMain == FatalMain(HttpFirst)
GeoMain == FatalMain(GrpcFirst)
InventoryMain == [notify |-> "last", onError |-> "channel", woken |-> "stop",
                  order |-> HttpFirst, deadline |-> FALSE]
NotificationMain == FatalMain(GrpcFirst)
PaymentMain == [notify |-> "first", onError |-> "log", woken |-> "never",
                order |-> HttpFirst, deadline |-> TRUE]
PricingMain == FatalMain(GrpcFirst)
ProfileMain == FatalMain(HttpFirst)
ReviewMain == FatalMain(GrpcFirst)
SearchMain == [notify |-> "last", onError |-> "log", woken |-> "never",
               order |-> GrpcFirst, deadline |-> FALSE]
UserMain == FatalMain(GrpcFirst)

MainOf(s) ==
  CASE s = "admin" -> AdminMain [] s = "ads" -> AdsMain [] s = "auth" -> AuthMain
    [] s = "booking" -> BookingMain [] s = "cancellation" -> CancellationMain
    [] s = "geo" -> GeoMain [] s = "inventory" -> InventoryMain
    [] s = "notification" -> NotificationMain [] s = "payment" -> PaymentMain
    [] s = "pricing" -> PricingMain [] s = "profile" -> ProfileMain
    [] s = "review" -> ReviewMain [] s = "search" -> SearchMain [] s = "user" -> UserMain

\* main is about to ask for signals, waits, stops the first and the second
\* server, returns; "exited" after a return, "killed" after a log.Fatalf or by
\* a signal nobody asked for.
MainStep == {"notify", "wait", "first", "second", "return", "exited", "killed"}

TypeOK == /\ service \in Service /\ main \in MainStep
          /\ serve \in [Server -> {"starting", "serving", "ended"}]
          /\ stop \in [Server -> {"no", "begun", "done"}]
          /\ inflight \in 0 .. MaxRPCs
          /\ errCh \in BOOLEAN /\ signalled \in {"no", "unheard", "heard"}
          /\ late \in BOOLEAN /\ failed \in BOOLEAN /\ closed \in BOOLEAN

\* The goroutines of the servers have just been started.
Init == /\ service \in Service
        /\ main = IF MainOf(service).notify = "first" THEN "wait" ELSE "notify"
        /\ serve = [k \in Server |-> "starting"]
        /\ stop = [k \in Server |-> "no"]
        /\ inflight = 0
        /\ errCh = FALSE /\ signalled = "no" /\ late = FALSE /\ failed = FALSE
        /\ closed = FALSE

Alive == main \notin {"exited", "killed"}

-----------------------------------------------------------------------------
Ends(k) == serve' = [serve EXCEPT ![k] = "ended"]

\* What the goroutine of a server does with the error it has got.
OnError == LET onError == MainOf(service).onError
           IN  /\ main' = IF onError = "fatal" THEN "killed" ELSE main
               /\ errCh' = (errCh \/ onError = "channel")

\* The goroutine of a server gets to Serve or ListenAndServe.
Serve(k) ==
  /\ Alive /\ serve[k] = "starting" /\ stop[k] = "no"
  /\ serve' = [serve EXCEPT ![k] = "serving"]
  /\ UNCHANGED <<service, main, stop, errCh, inflight, signalled, late, failed, closed>>

\* It gets there after the server was stopped: ErrServerClosed is ignored,
\* ErrServerStopped is an error like any other.
ServeStopped(k) ==
  /\ Alive /\ serve[k] = "starting" /\ stop[k] # "no"
  /\ Ends(k)
  /\ IF k = "grpc" THEN OnError ELSE UNCHANGED <<main, errCh>>
  /\ UNCHANGED <<service, stop, inflight, signalled, late, failed, closed>>

\* The listener fails for good: the port is taken, or Accept fails.
ServeFails(k) ==
  /\ Alive /\ serve[k] # "ended" /\ stop[k] = "no"
  /\ Ends(k) /\ OnError /\ failed' = TRUE
  /\ UNCHANGED <<service, stop, inflight, signalled, late, closed>>

StartRPC == /\ Alive /\ serve["grpc"] = "serving" /\ stop["grpc"] = "no"
            /\ inflight < MaxRPCs
            /\ inflight' = inflight + 1
            /\ UNCHANGED <<service, main, serve, stop, errCh, signalled, late, failed, closed>>

EndRPC == /\ Alive /\ inflight > 0
          /\ inflight' = inflight - 1
          /\ UNCHANGED <<service, main, serve, stop, errCh, signalled, late, failed, closed>>

\* Before signal.Notify a SIGTERM does what it does to any process; after it,
\* the first one is put into main's channel and others change nothing.
Signal == /\ Alive /\ signalled = "no"
          /\ \/ main = "notify" /\ signalled' = "unheard" /\ main' = "killed"
             \/ main # "notify" /\ signalled' = "heard" /\ UNCHANGED main
          /\ UNCHANGED <<service, serve, stop, errCh, inflight, late, failed, closed>>

-----------------------------------------------------------------------------
Notify == /\ main = "notify"
          /\ main' = "wait"
          /\ UNCHANGED <<service, serve, stop, errCh, inflight, signalled, late, failed, closed>>

\* The select of main.
Wake ==
  /\ main = "wait"
  /\ \/ signalled = "heard" /\ main' = "first" /\ UNCHANGED errCh
     \/ /\ errCh /\ errCh' = FALSE
        /\ main' = IF MainOf(service).woken = "stop" THEN "first" ELSE "return"
  /\ UNCHANGED <<service, serve, stop, inflight, signalled, late, failed, closed>>

Stopping(k) == /\ main \in {"first", "second"}
               /\ k = MainOf(service).order[IF main = "first" THEN 1 ELSE 2]

\* The server is stopped; a Serve that runs returns without an error.
Stopped(k) == /\ stop' = [stop EXCEPT ![k] = "done"]
              /\ main' = IF main = "first" THEN "second" ELSE "return"

ReturnsNil(k) == serve' = IF serve[k] = "serving" THEN [serve EXCEPT ![k] = "ended"] ELSE serve

\* httpServer.Shutdown: the health endpoint is idle or given up at its deadline.
ShutdownHTTP ==
  /\ Stopping("http") /\ Stopped("http") /\ ReturnsNil("http")
  /\ UNCHANGED <<service, errCh, inflight, signalled, late, failed, closed>>

\* GracefulStop first closes the listener, so that nothing new begins ...
BeginGracefulStop ==
  /\ Stopping("grpc") /\ stop["grpc"] = "no"
  /\ stop' = [stop EXCEPT !["grpc"] = "begun"] /\ ReturnsNil("grpc")
  /\ UNCHANGED <<service, main, errCh, inflight, signalled, late, failed, closed>>

\* Mutant: GracefulStop does not wait for the handlers.
EndGracefulStopAtOnce ==
  /\ Stopping("grpc") /\ stop["grpc"] = "begun"
  /\ Stopped("grpc")
  /\ UNCHANGED <<service, serve, errCh, inflight, signalled, late, failed, closed>>

\* ... and returns when every handler has.
EndGracefulStop ==
  /\ Stopping("grpc") /\ stop["grpc"] = "begun"
  /\ inflight = 0
  /\ Stopped("grpc")
  /\ UNCHANGED <<service, serve, errCh, inflight, signalled, late, failed, closed>>

Timeout == /\ main \in {"first", "second"} /\ ~late
           /\ late' = TRUE
           /\ UNCHANGED <<service, main, serve, stop, errCh, inflight, signalled, failed, closed>>

\* Mutant: the deadline is only looked at before the GracefulStop.
StopNowEarly ==
  /\ Stopping("grpc") /\ stop["grpc"] = "no"
  /\ MainOf(service).deadline /\ late
  /\ Stopped("grpc")
  /\ UNCHANGED <<service, serve, errCh, inflight, signalled, late, failed, closed>>

\* Stop does not wait for the handlers.
StopNow ==
  /\ Stopping("grpc") /\ stop["grpc"] = "begun"
  /\ MainOf(service).deadline /\ late
  /\ Stopped("grpc")
  /\ UNCHANGED <<service, serve, errCh, inflight, signalled, late, failed, closed>>

\* The deferred calls run, and the process ends with main.
CloseAll == /\ main = "return" /\ ~closed
            /\ closed' = TRUE
            /\ UNCHANGED <<service, main, serve, stop, errCh, inflight, signalled, late, failed>>

Exit == /\ main = "return" /\ closed
        /\ main' = "exited"
        /\ UNCHANGED <<service, serve, stop, errCh, inflight, signalled, late, failed, closed>>

MainRuns == Notify \/ Wake \/ ShutdownHTTP \/ BeginGracefulStop \/ EndGracefulStop \/ StopNow
            \/ CloseAll \/ Exit

Next == \/ \E k \in Server : Serve(k) \/ ServeStopped(k) \/ ServeFails(k)
        \/ StartRPC \/ EndRPC \/ Signal \/ Timeout \/ MainRuns

\* main is scheduled and time passes; handlers end, but of the service that has a
\* deadline that is not asked.
HandlerEnds == EndRPC /\ ~MainOf(service).deadline

Spec == /\ Init /\ [][Next]_mainVars
        /\ WF_mainVars(MainRuns) /\ WF_mainVars(Timeout) /\ WF_mainVars(HandlerEnds)

-----------------------------------------------------------------------------
\* What may end a process, or close its connections, under running RPCs: a
\* SIGTERM that main has not asked for yet, where it serves before it asks; an
\* error of a server that is fatal to it; or the deadline, where it has one.
MayCutOff == \/ signalled = "unheard" /\ MainOf(service).notify = "last"
             \/ failed /\ MainOf(service).onError = "fatal"
             \/ failed /\ MainOf(service).woken = "return"
             \/ late /\ MainOf(service).deadline

\* A SIGTERM that main has asked for never costs an RPC its answer, nor the
\* connections and pools it works with, in any service, whichever server is
\* stopped first and however far their goroutines had got.  In payment no SIGTERM
\* does so before the deadline: it asks before it serves.
RPCsAreDrained == inflight > 0 /\ (closed \/ ~Alive) => MayCutOff

\* A process that has got a SIGTERM ends: main does not wait for something that
\* never comes, like a second error or a server that is stopped already.
TermEndsProcess == signalled # "no" ~> ~Alive
=============================================================================
