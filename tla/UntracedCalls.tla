---------------------------- MODULE UntracedCalls ----------------------------
(***************************************************************************)
(* JNI calls as an application makes them when nobody traces: a call runs  *)
(* its function once, and an exception that the function throws is pending *)
(* when the call returns.  JniTrace is to be no different.                 *)
(***************************************************************************)
EXTENDS Naturals, Sequences

CONSTANTS Threads,
          Libraries,   \* native libraries that make calls
          Funs,        \* JNI functions
          InvokeFuns   \* those that run Java code, which may call in its turn

VARIABLES calls,       \* the calls each thread is in, the innermost last
          exc          \* the thread has a pending Java exception

Init ==
    /\ calls = [t \in Threads |-> <<>>]
    /\ exc = [t \in Threads |-> FALSE]

Top(t) == calls[t][Len(calls[t])]
Below(t) == SubSeq(calls[t], 1, Len(calls[t]) - 1)
Is(t, at) == calls[t] # <<>> /\ Top(t).at = at
Becomes(t, stack) == calls' = [calls EXCEPT ![t] = stack]

\* Every call is to run its function; a null string, which is not a legal
\* argument, may be answered at once.
New(f, so) ==
    {[fun |-> f, so |-> so, at |-> at, threw |-> FALSE] :
        at \in {"called"} \cup IF f = "GetStringUTFChars" THEN {"returned"} ELSE {}}
Make(t, below) ==
    \E f \in Funs, so \in Libraries : \E c \in New(f, so) : Becomes(t, Append(below, c))

Call(t) ==
    /\ calls[t] = <<>> /\ ~exc[t]
    /\ Make(t, <<>>)
    /\ UNCHANGED exc

\* The function runs; Java code may lead to one more call.
Run(t) ==
    /\ Is(t, "called")
    /\ LET running == Append(Below(t), [Top(t) EXCEPT !.at = "running"])
       IN  \/ Becomes(t, running)
           \/ Top(t).fun \in InvokeFuns /\ Make(t, running)
    /\ UNCHANGED exc

\* It returns, with a Java exception or without.
Answer(t, throws) ==
    /\ Is(t, "running")
    /\ exc[t] => throws
    /\ Becomes(t, Append(Below(t), [Top(t) EXCEPT !.at = "returned", !.threw = throws]))
    /\ exc' = [exc EXCEPT ![t] = throws]

\* The caller goes on, and finds the exception that was thrown.
Return(t) ==
    /\ Is(t, "returned")
    /\ exc[t] = Top(t).threw
    /\ Becomes(t, Below(t))
    /\ UNCHANGED exc

Handle(t) ==
    /\ exc[t]
    /\ calls[t] = <<>> \/ Is(t, "running")
    /\ exc' = [exc EXCEPT ![t] = FALSE]
    /\ UNCHANGED calls

Next ==
    \E t \in Threads :
        \/ Call(t) \/ Run(t)
        \/ \E throws \in BOOLEAN : Answer(t, throws)
        \/ Return(t) \/ Handle(t)

Spec == Init /\ [][Next]_<<calls, exc>>
=============================================================================
