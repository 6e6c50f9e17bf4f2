---------------------------- MODULE JavaSession ----------------------------
(***************************************************************************)
(* The Java interface: the native methods of IoTMakersDeviceClient.  It has*)
(* a copy of the session pool of its own, and keeps in each session the    *)
(* JNIEnv of the thread that called ImInit, with which the control         *)
(* callbacks call Java.  Beyond the pool's promises it owes Java a release *)
(* of every string it has pinned with GetStringUTFChars.                   *)
(***************************************************************************)
EXTENDS SessionPool

CONSTANT NoEnv
ASSUME EnvAssumption == NoEnv \notin Threads

VARIABLES
    host_evn,   \* the thread whose JNIEnv a session keeps
    callbacks,  \* has ImSetControlCallBack set the handlers of a session?
    pinned,     \* the strings that the call of each thread has got from Java
    (* history *)
    lost        \* strings that calls left pinned when they returned

javaVars == <<host_evn, callbacks, pinned, lost>>
allVars == <<vars, javaVars>>

-----------------------------------------------------------------------------
(* Strings *)

\* The parameters a call hands to the SDK as C strings, and those that may be null.
Required(o) ==
    CASE o = "ImConnectTo" -> {"ec_ip"}
      [] o = "ImAuthDevice" -> {"im_dev_id", "im_dev_pw", "im_dev_gw"}
      [] o \in {"ImSendData", "ImSendDataOnDev"} -> {"json_str"}
      [] OTHER -> {}
Optional(o) ==
    CASE o = "ImSendData" -> {"resource_name"}
      [] o = "ImSendDataOnDev" -> {"resource_name", "dev_id"}
      [] OTHER -> {}
Parameters == UNION {Required(o) \cup Optional(o) : o \in Ops}

JInit ==
    /\ Init
    /\ host_evn = [b \in Memory |-> NoEnv] /\ callbacks = [b \in Memory |-> FALSE]
    /\ pinned = [t \in Threads |-> {}] /\ lost = {}

\* Variant: the new session does not note who made it.
JSetupNoEnv(t) ==
    /\ Setup(t)
    /\ IF pool[at[t]] = NULL
       THEN UNCHANGED <<host_evn, callbacks>>
       ELSE /\ host_evn' = [host_evn EXCEPT ![pool[at[t]]] = IF @ = NoEnv THEN t ELSE @]
            /\ callbacks' = [callbacks EXCEPT ![pool[at[t]]] = FALSE]
    /\ UNCHANGED <<pinned, lost>>

\* The end of ImInit: no handlers, and the caller's JNIEnv.
JSetup(t) ==
    /\ Setup(t)
    /\ IF pool[at[t]] = NULL
       THEN UNCHANGED <<host_evn, callbacks>>
       ELSE /\ host_evn' = [host_evn EXCEPT ![pool[at[t]]] = t]
            /\ callbacks' = [callbacks EXCEPT ![pool[at[t]]] = FALSE]
    /\ UNCHANGED <<pinned, lost>>

\* A call gets its strings when it has its session; ImConnectTo gets its string
\* first, and returns with it when there is no session.
JLookup(t, o) ==
    /\ Lookup(t, o)
    /\ IF pc'[t] = "call"
       THEN /\ \E S \in SUBSET Optional(o) :
                   pinned' = [pinned EXCEPT ![t] = Required(o) \cup S]
            /\ UNCHANGED lost
       ELSE /\ lost' = IF o = "ImConnectTo" THEN lost \cup Required(o) ELSE lost
            /\ UNCHANGED pinned
    /\ UNCHANGED <<host_evn, callbacks>>

\* The call returns, and has given these strings back.
Release(t, strings) ==
    /\ pinned' = [pinned EXCEPT ![t] = {}]
    /\ lost' = lost \cup (pinned[t] \ strings)

\* Variant: strings that may be null are not given back.
JReturnKeepsOptional(t) ==
    /\ Connect(t) \/ Disconnect(t) \/ Use(t)
    /\ Release(t, Required(op[t]))
    /\ callbacks' = IF op[t] = "ImSetHandler" THEN [callbacks EXCEPT ![ptr[t]] = TRUE] ELSE callbacks
    /\ UNCHANGED host_evn

\* The call has been made.  ImSetControlCallBack sets the handlers of all kinds and
\* the end handler.
JReturn(t) ==
    /\ Connect(t) \/ Disconnect(t) \/ Use(t)
    /\ Release(t, Required(op[t]) \cup Optional(op[t]))
    /\ callbacks' = IF op[t] = "ImSetHandler" THEN [callbacks EXCEPT ![ptr[t]] = TRUE] ELSE callbacks
    /\ UNCHANGED host_evn

-----------------------------------------------------------------------------
(* Control callbacks, from inside a call that reads packets *)

InCallback(t) == (\E o \in Exchanges : InCall(t, o)) /\ callbacks[ptr[t]]

\* What a callback gets from Java and does not give back: the string that Java
\* answers to a string control goes to the SDK, which only reads it.
Answered(kind) == IF kind = "string" THEN {"strReturn"} ELSE {}

\* A callback, when it has found the class and the method.
CallJava(t, kind) ==
    /\ InCallback(t) /\ host_evn[ptr[t]] # NoEnv
    /\ lost' = lost \cup Answered(kind)
    /\ UNCHANGED <<vars, host_evn, callbacks, pinned>>

PoolStep(t) ==
    /\ \/ ImInit(t) \/ Scan(t) \/ PoolIsFull(t) \/ Take(t)
       \/ ImRelease(t) \/ Free(t) \/ Clear(t)
    /\ UNCHANGED javaVars

JNext == \E t \in Threads :
    \/ PoolStep(t) \/ JSetup(t) \/ JReturn(t)
    \/ \E o \in Ops : JLookup(t, o)
    \/ \E kind \in {"number", "string", "integer", "float", "boolean", "end"} : CallJava(t, kind)

JSpec == JInit /\ [][JNext]_allVars

-----------------------------------------------------------------------------
(* Properties *)

JTypeOK ==
    /\ TypeOK
    /\ host_evn \in [Memory -> Threads \cup {NoEnv}] /\ callbacks \in [Memory -> BOOLEAN]
    /\ pinned \in [Threads -> SUBSET Parameters]
    /\ lost \subseteq Parameters \cup {"strReturn"}

\* A JNIEnv is good in its own thread only: a callback calls Java with that of the
\* thread that is in the call, though memory, places and handles are used again by others.
OwnEnv == ~overlap => \A t \in Threads : InCallback(t) => host_evn[ptr[t]] = t

\* A call has its strings for as long as it runs, and gives them back on every way
\* out but two: the answer of a string callback, and the address of an ImConnectTo
\* with a handle that is not good.
StringsReleased ==
    /\ \A t \in Threads : pc[t] = "call" => Required(op[t]) \subseteq pinned[t]
    /\ \A t \in Threads : pc[t] # "call" => pinned[t] = {}
    /\ lost \subseteq {"strReturn", "ec_ip"}
=============================================================================
