------------------------------ MODULE Shutdown ------------------------------
(***************************************************************************)
(* How fsbridge stops (src/cmd/fsbridge/main.go): the main goroutine       *)
(* returns, and with it the process ends, as soon as ListenAndServe does;  *)
(* another goroutine waits for the signal and runs the shutdown sequence.  *)
(* A session is a call's serveWS goroutine (module ServeCall), here only   *)
(* requested, upgraded, registered, finishing (OnEnd, Finish, audio.end)   *)
(* or over.                                                                *)
(***************************************************************************)
EXTENDS Naturals

CONSTANT Sessions   \* calls the module may connect

VARIABLES
    signal,     \* ctx is done: SIGINT or SIGTERM came
    listening,  \* the HTTP listener is open
    main,       \* the main goroutine: serving, returned or exited
    stopper,    \* where the shutdown goroutine is
    session,    \* each session: none, requested, upgraded, registered, closed, over
    esl,        \* the ESL client is open
    sweeper     \* the recorder's sweeper runs

procVars == <<signal, listening, main, stopper>>
vars == <<procVars, session, esl, sweeper>>

-----------------------------------------------------------------------------
Init ==
    /\ signal = FALSE /\ listening = TRUE
    /\ main = "serving" /\ stopper = "wait"
    /\ session = [s \in Sessions |-> "none"]
    /\ esl = TRUE /\ sweeper = TRUE

\* Every step below is a step of the process.
Alive == main # "exited"

-----------------------------------------------------------------------------
(* Sessions.                                                               *)

Move(s, from, to) == session[s] = from /\ session' = [session EXCEPT ![s] = to]

\* The request is accepted ...
Request(s) ==
    /\ Alive /\ listening
    /\ Move(s, "none", "requested")
    /\ UNCHANGED <<procVars, esl, sweeper>>

\* ... and its connection taken over by the WebSocket, which a request under way
\* when the listener closes still does.
Upgrade(s) ==
    /\ Alive /\ Move(s, "requested", "upgraded")
    /\ UNCHANGED <<procVars, esl, sweeper>>

\* srv.sessions.Store, and on to the read pump.
Register(s) ==
    /\ Alive /\ Move(s, "upgraded", "registered")
    /\ UNCHANGED <<procVars, esl, sweeper>>

\* The caller hangs up.
Hangup(s) ==
    /\ Alive /\ Move(s, "registered", "closed")
    /\ UNCHANGED <<procVars, esl, sweeper>>

\* OnEnd, Recorder.Finish and audio.end are done.
Finish(s) ==
    /\ Alive /\ Move(s, "closed", "over")
    /\ UNCHANGED <<procVars, esl, sweeper>>

-----------------------------------------------------------------------------
(* The main goroutine.                                                     *)

Signal ==
    /\ Alive /\ ~signal /\ signal' = TRUE
    /\ UNCHANGED <<listening, main, stopper, session, esl, sweeper>>

\* ListenAndServe returns http.ErrServerClosed once the listener is closed.
ServeReturns ==
    /\ main = "serving" /\ ~listening
    /\ main' = "returned"
    /\ UNCHANGED <<signal, listening, stopper, session, esl, sweeper>>

\* main returns (the deferred recorder.Close runs): all goroutines are gone.
Exit ==
    /\ main = "returned" /\ main' = "exited"
    /\ sweeper' = FALSE
    /\ UNCHANGED <<signal, listening, stopper, session, esl>>

-----------------------------------------------------------------------------
(* The shutdown goroutine.                                                 *)

Step(from, to) == Alive /\ stopper = from /\ stopper' = to

Wake ==
    /\ Step("wait", "shutdown") /\ signal
    /\ UNCHANGED <<signal, listening, main, session, esl, sweeper>>

\* httpSrv.Shutdown closes the listener first ...
CloseListener ==
    /\ Step("shutdown", "idle")
    /\ listening' = FALSE
    /\ UNCHANGED <<signal, main, session, esl, sweeper>>

\* ... then waits until no request is under way, or ten seconds; it does not
\* know of connections a WebSocket took over.
ShutdownReturns ==
    /\ Step("idle", "close")
    /\ UNCHANGED <<signal, listening, main, session, esl, sweeper>>

\* CloseAllSessions: those that are registered.
CloseAll ==
    /\ Step("close", "sleep")
    /\ session' = [s \in Sessions |-> IF session[s] = "registered" THEN "closed" ELSE session[s]]
    /\ UNCHANGED <<signal, listening, main, esl, sweeper>>

\* time.Sleep(2 * time.Second) ends, whatever the sessions have done by then.
SleepEnds ==
    /\ Step("sleep", "esl")
    /\ UNCHANGED <<signal, listening, main, session, esl, sweeper>>

CloseEsl ==
    /\ Step("esl", "recorder") /\ esl' = FALSE
    /\ UNCHANGED <<signal, listening, main, session, sweeper>>

CloseRecorder ==
    /\ Step("recorder", "end") /\ sweeper' = FALSE
    /\ UNCHANGED <<signal, listening, main, session, esl>>

StopperStep ==
    \/ Wake \/ CloseListener \/ ShutdownReturns \/ CloseAll \/ SleepEnds
    \/ CloseEsl \/ CloseRecorder

-----------------------------------------------------------------------------
Next ==
    \/ Signal \/ ServeReturns \/ Exit \/ StopperStep
    \/ \E s \in Sessions : Request(s) \/ Upgrade(s) \/ Register(s) \/ Hangup(s) \/ Finish(s)

\* The goroutines of the process run; callers and operators do as they like.
Fairness ==
    /\ WF_vars(ServeReturns) /\ WF_vars(Exit) /\ WF_vars(StopperStep)
    /\ \A s \in Sessions : WF_vars(Upgrade(s)) /\ WF_vars(Register(s)) /\ WF_vars(Finish(s))

Spec == Init /\ [][Next]_vars /\ Fairness

-----------------------------------------------------------------------------
(* What the comments say and the code does not do.                         *)

\* main.go:186: "Drain active sessions so recorder finalizes, handlers run
\* OnEnd, and bus subscribers see audio.end events."
DrainedAtExit ==
    main = "exited" => \A s \in Sessions : session[s] \notin {"registered", "closed"}
=============================================================================
