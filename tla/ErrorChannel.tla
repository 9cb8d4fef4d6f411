---------------------------- MODULE ErrorChannel ----------------------------
(***************************************************************************)
(* How the text of a native failure reaches an Ada exception.  The shim    *)
(* keeps one buffer for it, which each entry point clears when it starts   *)
(* and a failing path fills (src/cpp/opencv_geometry_shim.cpp, 43-84); the *)
(* bindings read it in a later call of their own, between which other      *)
(* tasks enter and leave the shim.  subdiv2d_destroy and is_usable touch   *)
(* no buffer: they are no steps here.                                      *)
(***************************************************************************)
EXTENDS Naturals

CONSTANTS
    Tasks,             \* Ada tasks, each a native thread
    ArgumentMessages,  \* texts given to invalid_argument
    ThrownMessages,    \* what() of the exceptions OpenCV and C++ raise
    UnknownException,  \* the text for any other exception
    Texts,             \* what the buffer holds
    Empty,             \* no characters
    Cut,               \* a message as snprintf stores it
    None               \* no exception, no message

Messages == ArgumentMessages \cup ThrownMessages \cup {UnknownException}

ASSUME ErrorAssumption ==
    /\ Empty \in Texts
    /\ Cut \in [Messages -> Texts]
    /\ None \notin Texts \cup Messages

VARIABLES
    at,                  \* "Ada", "native", "returned" or "read"
    last_error_message,  \* the buffers
    status,              \* what the last native call of each task returned
    cause,               \* ghost: the message that call failed with, or None
    Diagnostic,          \* the copy Raise_On_Error made
    raised               \* the diagnostic of the exception the caller got

errorVars == <<at, last_error_message, status, cause, Diagnostic, raised>>

Failure == {"opencv", "std", "unknown", "invalid_argument"}

-----------------------------------------------------------------------------
(* The shim.                                                               *)

\* Mutant: one buffer for the whole process.
OneBuffer(t) == CHOOSE u \in Tasks : TRUE

\* thread_local: each task writes and reads a buffer of its own.
Buffer(t) == t

\* Every entry point that reports a status starts with clear_error.
ClearError(t) ==
    /\ at[t] = "Ada"
    /\ at' = [at EXCEPT ![t] = "native"]
    /\ last_error_message' = [last_error_message EXCEPT ![Buffer(t)] = Empty]
    /\ cause' = [cause EXCEPT ![t] = None]
    /\ raised' = [raised EXCEPT ![t] = None]
    /\ UNCHANGED <<status, Diagnostic>>

\* set_error and the return of the status that goes with it.
SetError(t, s, m) ==
    /\ at[t] = "native"
    /\ at' = [at EXCEPT ![t] = "returned"]
    /\ last_error_message' = [last_error_message EXCEPT ![Buffer(t)] = Cut[m]]
    /\ status' = [status EXCEPT ![t] = s]
    /\ cause' = [cause EXCEPT ![t] = m]
    /\ UNCHANGED <<Diagnostic, raised>>

InvalidArgument(t) == \E m \in ArgumentMessages : SetError(t, "invalid_argument", m)

TranslateCurrentException(t) ==
    \/ \E s \in {"opencv", "std"}, m \in ThrownMessages : SetError(t, s, m)
    \/ SetError(t, "unknown", UnknownException)

Succeeds(t) ==
    /\ at[t] = "native"
    /\ at' = [at EXCEPT ![t] = "returned"]
    /\ status' = [status EXCEPT ![t] = "ok"]
    /\ UNCHANGED <<last_error_message, cause, Diagnostic, raised>>

-----------------------------------------------------------------------------
(* The bindings' two procedures Raise_On_Error.                            *)

\* Subdiv2D's reads nothing after a success.
ReturnUnread(t) ==
    /\ at[t] = "returned" /\ status[t] = "ok"
    /\ at' = [at EXCEPT ![t] = "Ada"]
    /\ UNCHANGED <<last_error_message, status, cause, Diagnostic, raised>>

\* A call of last_error_message, and the copy of what it points to.
LastErrorMessage(t) ==
    /\ at[t] = "returned"
    /\ at' = [at EXCEPT ![t] = "read"]
    /\ Diagnostic' = [Diagnostic EXCEPT ![t] = last_error_message[Buffer(t)]]
    /\ UNCHANGED <<last_error_message, status, cause, raised>>

\* The other one has read before it looks at the status.
RaiseOnError(t) ==
    /\ at[t] = "read"
    /\ at' = [at EXCEPT ![t] = "Ada"]
    /\ raised' = IF status[t] = "ok" THEN raised
                 ELSE [raised EXCEPT ![t] = Diagnostic[t]]
    /\ UNCHANGED <<last_error_message, status, cause, Diagnostic>>

ErrorInit ==
    /\ at = [t \in Tasks |-> "Ada"]
    /\ last_error_message = [t \in Tasks |-> Empty]
    /\ status = [t \in Tasks |-> "ok"]
    /\ cause = [t \in Tasks |-> None]
    /\ Diagnostic = [t \in Tasks |-> Empty]
    /\ raised = [t \in Tasks |-> None]

ErrorStep(t) ==
    \/ ClearError(t) \/ InvalidArgument(t) \/ TranslateCurrentException(t)
    \/ Succeeds(t) \/ ReturnUnread(t) \/ LastErrorMessage(t) \/ RaiseOnError(t)

ErrorNext == \E t \in Tasks : ErrorStep(t)

ErrorSpec == ErrorInit /\ [][ErrorNext]_errorVars

-----------------------------------------------------------------------------
(* Properties.                                                             *)

\* What the caller of a native call must be told.
Expected(t) == IF cause[t] = None THEN None ELSE Cut[cause[t]]

\* Whatever other tasks do between a failing call and the call that asks for
\* its diagnostic, an exception carries the text of its own task's failure,
\* a failure is never returned without an exception, and a success, even
\* right after a failure, raises none.
RaisesOwnDiagnostic ==
    \A t \in Tasks : at[t] = "Ada" => raised[t] = Expected(t)
=============================================================================
