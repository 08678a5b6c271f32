--------------------------- MODULE ServiceMainProofs ---------------------------
(***************************************************************************)
(* Theorems about ServiceMain, for any number of RPCs in flight: the types *)
(* and that a SIGTERM main has asked for cuts no RPC off, in payment none  *)
(* that comes.  The invariant follows main from signal.Notify through      *)
(* its two stops: the gRPC server is stopped, and drained unless by the    *)
(* deadline, before main can return, except on an error that returns at    *)
(* once; and a goroutine that has not got to Serve has served nobody.      *)
(***************************************************************************)
EXTENDS ServiceMain, TLAPS

Me == MainOf(service)

First == Me.order[1]
Second == Me.order[2]

\* Where the two stops are while main carries them out.
StopsOK ==
  /\ main \in {"notify", "wait"} => stop["grpc"] = "no" /\ stop["http"] = "no"
  /\ main = "first" => stop[First] # "done" /\ stop[Second] = "no"
  /\ main = "second" => stop[First] = "done" /\ stop[Second] # "done"
  /\ main \in {"return", "exited"}
       => stop["grpc"] = "done" \/ (failed /\ Me.woken = "return")

\* The RPCs in flight.
DrainOK ==
  /\ serve["grpc"] = "starting" => inflight = 0
  /\ stop["grpc"] = "done" => inflight = 0 \/ (late /\ Me.deadline)
  /\ closed => main \in {"return", "exited", "killed"} /\ (inflight = 0 \/ MayCutOff)
  /\ ~Alive => inflight = 0 \/ MayCutOff

\* An error reaches a main that still waits only when a listener has failed.
ErrorOK ==
  errCh => Me.onError = "channel" /\ (main \in {"notify", "wait"} => failed)

\* Only a main that serves before it asks for signals can miss one.
SignalOK == /\ main = "notify" => Me.notify = "last"
            /\ signalled = "unheard" => Me.notify = "last" /\ main = "killed"

IInv == TypeOK /\ StopsOK /\ DrainOK /\ ErrorOK /\ SignalOK

-----------------------------------------------------------------------------
\* What the 14 mains have in common.
LEMMA MainsOK ==
  ASSUME NEW s \in Service
  PROVE  /\ MainOf(s).notify \in {"first", "last"}
         /\ MainOf(s).onError \in {"fatal", "log", "channel"}
         /\ MainOf(s).woken \in {"never", "stop", "return"}
         /\ MainOf(s).onError = "channel" => MainOf(s).woken \in {"stop", "return"}
         /\ MainOf(s).deadline \in BOOLEAN
         /\ \/ MainOf(s).order[1] = "grpc" /\ MainOf(s).order[2] = "http"
            \/ MainOf(s).order[1] = "http" /\ MainOf(s).order[2] = "grpc"
BY ServiceMainAssumption
   DEF MainOf, FatalMain, GrpcFirst, HttpFirst, AdminMain, AdsMain, AuthMain, BookingMain,
       CancellationMain, GeoMain, InventoryMain, NotificationMain, PaymentMain,
       PricingMain, ProfileMain, ReviewMain, SearchMain, UserMain

LEMMA InitInv == Init => IInv
<1> SUFFICES ASSUME Init PROVE IInv
  OBVIOUS
<1>a. serve \in [Server -> {"starting", "serving", "ended"}]
  BY DEF Init
<1>b. stop \in [Server -> {"no", "begun", "done"}]
  BY DEF Init
<1>c. inflight \in 0 .. MaxRPCs
  BY ServiceMainAssumption DEF Init
<1>1. TypeOK
  BY <1>a, <1>b, <1>c DEF Init, TypeOK, MainStep
<1>d. MainOf(service).notify \in {"first", "last"}
  BY MainsOK DEF Init
<1>2. StopsOK /\ DrainOK /\ ErrorOK /\ SignalOK
  BY <1>d DEF Init, StopsOK, DrainOK, ErrorOK, SignalOK, Me, Alive, MayCutOff, Server
<1> QED
  BY <1>1, <1>2 DEF IInv

\* The goroutines of the servers.
LEMMA ServeInv ==
  ASSUME IInv, NEW k \in Server, Serve(k) \/ ServeStopped(k) \/ ServeFails(k)
  PROVE  IInv'
<1> USE ServiceMainAssumption, MainsOK
    DEF IInv, TypeOK, StopsOK, DrainOK, ErrorOK, SignalOK, Alive, MayCutOff, Server, MainStep,
        Me, First, Second
<1>1. CASE Serve(k)
  BY <1>1 DEF Serve
<1>2. CASE ServeStopped(k)
  BY <1>2 DEF ServeStopped, Ends, OnError
<1>3. CASE ServeFails(k)
  BY <1>3 DEF ServeFails, Ends, OnError
<1> QED
  BY <1>1, <1>2, <1>3

\* The handlers, the clock and the signal.
LEMMA OutsideInv ==
  ASSUME IInv, StartRPC \/ EndRPC \/ Signal \/ Timeout
  PROVE  IInv'
<1> USE ServiceMainAssumption, MainsOK
    DEF IInv, TypeOK, StopsOK, DrainOK, ErrorOK, SignalOK, Alive, MayCutOff, Server, MainStep,
        Me, First, Second
<1>1. CASE StartRPC
  BY <1>1 DEF StartRPC
<1>2. CASE EndRPC
  BY <1>2 DEF EndRPC
<1>3. CASE Signal
  BY <1>3 DEF Signal
<1>4. CASE Timeout
  BY <1>4 DEF Timeout
<1> QED
  BY <1>1, <1>2, <1>3, <1>4

\* main stops one of the two servers first and the other one second.
LEMMA OrderOK ==
  ASSUME IInv
  PROVE  \/ First = "grpc" /\ Second = "http"
         \/ First = "http" /\ Second = "grpc"
BY MainsOK DEF IInv, TypeOK, Me, First, Second

LEMMA StoppingOne ==
  ASSUME IInv, NEW k, Stopping(k)
  PROVE  \/ main = "first" /\ k = First
         \/ main = "second" /\ k = Second
BY DEF Stopping, Me, First, Second

\* main asks for signals.
LEMMA NotifyInv ==
  ASSUME IInv, Notify
  PROVE  IInv'
BY DEF IInv, TypeOK, StopsOK, DrainOK, ErrorOK, SignalOK, Alive, MayCutOff, Me, First, Second,
       Notify, MainStep

\* main wakes up.
LEMMA WakeInv ==
  ASSUME IInv, Wake
  PROVE  IInv'
<1>1. Me.onError = "channel" => Me.woken \in {"stop", "return"}
  BY MainsOK DEF IInv, TypeOK, Me
<1>2. First' = First /\ Second' = Second /\ Me' = Me
  BY DEF Wake, Me, First, Second
<1>3. TypeOK' /\ stop["grpc"] = "no" /\ stop["http"] = "no"
  BY DEF IInv, TypeOK, Wake, StopsOK, MainStep
<1>4. StopsOK'
  BY <1>1, <1>2, <1>3, OrderOK DEF IInv, ErrorOK, StopsOK, Wake, Me
<1>5. DrainOK'
  BY <1>3 DEF IInv, DrainOK, Wake, Alive, MayCutOff
<1>6. ErrorOK'
  BY <1>2 DEF IInv, TypeOK, ErrorOK, Wake
<1>7. SignalOK'
  BY <1>2 DEF IInv, SignalOK, Wake
<1> QED
  BY <1>3, <1>4, <1>5, <1>6, <1>7 DEF IInv

\* main stops a server.
LEMMA StopInv ==
  ASSUME IInv, ShutdownHTTP \/ BeginGracefulStop \/ EndGracefulStop \/ StopNow
  PROVE  IInv'
<1> DEFINE Order == \/ First = "grpc" /\ Second = "http"
                    \/ First = "http" /\ Second = "grpc"
<1>1. Order
  BY OrderOK
<1>2. First' = First /\ Second' = Second /\ Me' = Me /\ service' = service
  BY DEF ShutdownHTTP, BeginGracefulStop, EndGracefulStop, StopNow, Me, First, Second
<1>3. \E k \in Server : Stopping(k)
  BY DEF ShutdownHTTP, BeginGracefulStop, EndGracefulStop, StopNow, Server
<1>k. PICK k \in Server : Stopping(k)
  BY <1>3
<1>m. \/ main = "first" /\ k = First
      \/ main = "second" /\ k = Second
  BY <1>k, StoppingOne
<1>4. \/ /\ stop' = [stop EXCEPT ![k] = "done"]
         /\ main' = IF main = "first" THEN "second" ELSE "return"
      \/ /\ k = "grpc" /\ stop["grpc"] = "no"
         /\ stop' = [stop EXCEPT !["grpc"] = "begun"] /\ main' = main
  BY <1>1, <1>m, StoppingOne
     DEF ShutdownHTTP, BeginGracefulStop, EndGracefulStop, StopNow, Stopped
<1>5. /\ serve' \in [Server -> {"starting", "serving", "ended"}]
      /\ serve'["grpc"] = "starting" => serve["grpc"] = "starting"
  BY DEF IInv, TypeOK, Server, ShutdownHTTP, BeginGracefulStop, EndGracefulStop, StopNow,
         ReturnsNil
<1>6. UNCHANGED <<errCh, inflight, signalled, late, failed, closed>>
  BY DEF ShutdownHTTP, BeginGracefulStop, EndGracefulStop, StopNow
<1>7. ASSUME stop'["grpc"] = "done"
      PROVE  stop["grpc"] = "done" \/ inflight = 0 \/ (late /\ Me.deadline)
  <2>0. stop \in [Server -> {"no", "begun", "done"}]
    BY DEF IInv, TypeOK
  <2>1. CASE ShutdownHTTP
    BY <1>7, <2>0, <2>1 DEF ShutdownHTTP, Stopped, Server
  <2>2. CASE BeginGracefulStop
    BY <1>7, <2>0, <2>2 DEF BeginGracefulStop, Server
  <2>3. CASE EndGracefulStop
    BY <2>3 DEF EndGracefulStop
  <2>4. CASE StopNow
    BY <2>4 DEF StopNow, Me
  <2> QED
    BY <2>1, <2>2, <2>3, <2>4
<1>8. TypeOK'
  BY <1>2, <1>m, <1>4, <1>5, <1>6 DEF IInv, TypeOK, MainStep, Server
<1>9. StopsOK'
  BY <1>1, <1>2, <1>m, <1>4, <1>6 DEF IInv, TypeOK, StopsOK, Server
<1>10. main \in {"first", "second"} /\ main' \in {"first", "second", "return"}
  BY <1>m, <1>4
<1>11. DrainOK'
  BY <1>2, <1>5, <1>6, <1>7, <1>10 DEF IInv, DrainOK, Alive, MayCutOff, Me
<1>12. ErrorOK'
  BY <1>2, <1>6, <1>10 DEF IInv, ErrorOK
<1>13. SignalOK'
  BY <1>2, <1>6, <1>10 DEF IInv, SignalOK
<1> QED
  BY <1>8, <1>9, <1>11, <1>12, <1>13 DEF IInv

\* main returns.
LEMMA ReturnInv ==
  ASSUME IInv, CloseAll \/ Exit
  PROVE  IInv'
<1>1. main = "return" /\ main' \in {"return", "exited"}
  BY DEF CloseAll, Exit
<1>2. UNCHANGED <<service, serve, stop, errCh, inflight, signalled, late, failed>>
  BY DEF CloseAll, Exit
<1>3. First' = First /\ Second' = Second /\ Me' = Me
  BY <1>2 DEF Me, First, Second
<1>4. inflight = 0 \/ MayCutOff
  BY <1>1 DEF IInv, StopsOK, DrainOK, MayCutOff, Me
<1>5. TypeOK'
  BY <1>1, <1>2 DEF IInv, TypeOK, MainStep, CloseAll, Exit
<1>6. StopsOK' /\ ErrorOK' /\ SignalOK'
  BY <1>1, <1>2, <1>3 DEF IInv, StopsOK, ErrorOK, SignalOK
<1>7. MayCutOff' = MayCutOff
  BY <1>2 DEF MayCutOff
<1>8. DrainOK'
  BY <1>1, <1>2, <1>3, <1>4, <1>7 DEF IInv, DrainOK, Alive
<1> QED
  BY <1>5, <1>6, <1>8 DEF IInv

LEMMA StutterInv == ASSUME IInv, UNCHANGED mainVars PROVE IInv'
BY DEF IInv, TypeOK, StopsOK, DrainOK, ErrorOK, SignalOK, Alive, MayCutOff, Me, First, Second, mainVars

\* The inductive invariant holds in every state a process reaches.
THEOREM Invariant == Spec => []IInv
<1>1. IInv /\ [Next]_mainVars => IInv'
  BY ServeInv, OutsideInv, NotifyInv, WakeInv, StopInv, ReturnInv, StutterInv DEF Next, MainRuns
<1> QED
  BY <1>1, InitInv, PTL DEF Spec

\* The goroutines, servers and counters have their types (func main of the 14
\* services).
THEOREM TypeCorrect == Spec => []TypeOK
<1>1. IInv => TypeOK
  BY DEF IInv
<1> QED
  BY <1>1, Invariant, PTL

\* A SIGTERM that main has asked for cuts no RPC off and takes no connection from
\* it, in any of the services (signal.Notify and the stops at the end of each main).
THEOREM GracefulStopDrains == Spec => []RPCsAreDrained
<1>1. IInv => RPCsAreDrained
  BY ServiceMainAssumption DEF IInv, TypeOK, DrainOK, RPCsAreDrained
<1> QED
  BY <1>1, Invariant, PTL
=============================================================================
