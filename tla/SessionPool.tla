---------------------------- MODULE SessionPool ----------------------------
(***************************************************************************)
(* The session pool of the dynamic library: a process-wide table of        *)
(* sessions, taken and looked up without a lock by the threads of the host *)
(* program, and the Im... calls that work on a session by its handle.      *)
(*                                                                         *)
(* The host keeps to the rule that a handle belongs to the thread whose    *)
(* ImInit returned it, until that thread releases it.  A session is the    *)
(* part of im_client_t that the table can lose: its socket.                *)
(***************************************************************************)
EXTENDS Integers

CONSTANTS
    Threads,      \* the threads of the host program
    PoolSize,     \* IM_SESS_MAX
    Memory,       \* blocks malloc can give; it fails when none is left
    NULL,
    Descriptors   \* sockets the process can have open

ASSUME PoolAssumption ==
    /\ PoolSize \in Nat \ {0}
    /\ NULL \notin Memory
    /\ Descriptors \subseteq Nat \ {0}

VARIABLES
    pool,      \* sess_pool: a block, or NULL
    heap,      \* blocks allocated and not freed
    sock,      \* conn_ctx.tcp_channel.sock in each block; free() leaves it there
    fds,       \* open descriptors
    pc,        \* where each thread is: "host" outside of the library
    at,        \* its sess_idx, or the handle it works on
    ptr,       \* the pointer it read from the table
    op,        \* the call it is in, of those that use a session
    own,       \* the handles it holds
    (* history *)
    overlap,   \* two threads were inside ImInit at the same time
    dialled,   \* handles on which ImConnect was called and ImDisconnect not yet
    untidy     \* a host connected again, or released, without ImDisconnect

poolVars == <<pool, heap, sock, fds>>
threadVars == <<pc, at, ptr, op, own>>
history == <<overlap, dialled, untidy>>
vars == <<poolVars, threadVars, history>>

Handles == 0..(PoolSize - 1)

\* What a caller may pass as a handle: its own, or one that is out of range.
Passed(t) == own[t] \cup {-1, PoolSize}

\* The calls that talk to the platform; what they do with the session is modelled
\* in DeviceSession.
Exchanges == {"ImAuthDevice", "ImSendData", "ImSendDataOnDev", "ImPoll"}
\* Those that set a switch of the session or one of its handlers, and ImMSleep.
Settings == {"ImTurnOff", "ImSetHandler", "ImMSleep"}
Connects == {"ImConnect", "ImConnectTo"}
Ops == Connects \cup {"ImDisconnect"} \cup Exchanges \cup Settings

Init ==
    /\ pool = [h \in Handles |-> NULL] /\ heap = {}
    /\ sock = [b \in Memory |-> 0] /\ fds = {}
    /\ pc = [t \in Threads |-> "host"] /\ at = [t \in Threads |-> 0]
    /\ ptr = [t \in Threads |-> NULL] /\ op = [t \in Threads |-> "none"]
    /\ own = [t \in Threads |-> {}]
    /\ overlap = FALSE /\ dialled = {} /\ untidy = FALSE

Goto(t, label) == pc' = [pc EXCEPT ![t] = label]

\* Back to the host: the call's variables are gone.
Return(t) ==
    /\ Goto(t, "host")
    /\ at' = [at EXCEPT ![t] = 0] /\ ptr' = [ptr EXCEPT ![t] = NULL]
    /\ op' = [op EXCEPT ![t] = "none"]

-----------------------------------------------------------------------------
(* ImInit *)

InInit(t) == pc[t] \in {"scan", "take", "setup"}

ImInit(t) ==
    /\ pc[t] = "host"
    /\ Goto(t, "scan") /\ at' = [at EXCEPT ![t] = 0]
    /\ overlap' = (overlap \/ \E u \in Threads \ {t} : InInit(u))
    /\ UNCHANGED <<poolVars, ptr, op, own, dialled, untidy>>

\* Variant: the test of a place is the wrong way round for the last one.
ScanTakesLast(t) ==
    /\ pc[t] = "scan" /\ at[t] \in Handles
    /\ IF pool[at[t]] = NULL \/ at[t] = PoolSize - 1
       THEN Goto(t, "take") /\ UNCHANGED at
       ELSE at' = [at EXCEPT ![t] = @ + 1] /\ UNCHANGED pc
    /\ UNCHANGED <<poolVars, ptr, op, own, history>>

\* sesspool_alloc looks at one place after the other ...
Scan(t) ==
    /\ pc[t] = "scan" /\ at[t] \in Handles
    /\ IF pool[at[t]] = NULL
       THEN Goto(t, "take") /\ UNCHANGED at
       ELSE at' = [at EXCEPT ![t] = @ + 1] /\ UNCHANGED pc
    /\ UNCHANGED <<poolVars, ptr, op, own, history>>

\* ... and gives up after the last.
PoolIsFull(t) ==
    /\ pc[t] = "scan" /\ at[t] \notin Handles
    /\ Return(t)
    /\ UNCHANGED <<poolVars, own, history>>

\* It writes to the place it found free, whoever has taken it since.
Take(t) ==
    /\ pc[t] = "take"
    /\ \/ \E b \in Memory \ heap :
             pool' = [pool EXCEPT ![at[t]] = b] /\ heap' = heap \cup {b}
       \/ /\ Memory = heap   \* malloc returns NULL
          /\ pool' = [pool EXCEPT ![at[t]] = NULL] /\ UNCHANGED heap
    /\ Goto(t, "setup")
    /\ UNCHANGED <<sock, fds, at, ptr, op, own, history>>

\* Variant: the handle is the number of the place, counted from one.
SetupCountsFromOne(t) ==
    /\ pc[t] = "setup"
    /\ IF pool[at[t]] = NULL
       THEN UNCHANGED <<sock, own>>
       ELSE /\ sock' = [sock EXCEPT ![pool[at[t]]] = 0]
            /\ own' = [own EXCEPT ![t] = @ \cup {at[t] + 1}]
    /\ Return(t)
    /\ UNCHANGED <<pool, heap, fds, history>>

\* The rest of ImInit: sesspool_sess, im_client_init, and the handle is returned.
Setup(t) ==
    /\ pc[t] = "setup"
    /\ IF pool[at[t]] = NULL
       THEN UNCHANGED <<sock, own>>
       ELSE /\ sock' = [sock EXCEPT ![pool[at[t]]] = 0]
            /\ own' = [own EXCEPT ![t] = @ \cup {at[t]}]
    /\ Return(t)
    /\ UNCHANGED <<pool, heap, fds, history>>

-----------------------------------------------------------------------------
(* ImRelease *)

\* sesspool_free reads the pointer, frees the block, and clears the place last.
\* The host's own handle is in range; for another nothing is done.
ImRelease(t) ==
    /\ pc[t] = "host"
    /\ \E h \in own[t] :
          /\ own' = [own EXCEPT ![t] = @ \ {h}]
          /\ IF pool[h] = NULL
             THEN UNCHANGED <<pc, at, ptr>>
             ELSE /\ Goto(t, "free")
                  /\ at' = [at EXCEPT ![t] = h] /\ ptr' = [ptr EXCEPT ![t] = pool[h]]
          /\ untidy' = (untidy \/ h \in dialled) /\ dialled' = dialled \ {h}
    /\ UNCHANGED <<poolVars, op, overlap>>

Free(t) ==
    /\ pc[t] = "free"
    /\ heap' = heap \ {ptr[t]}
    /\ Goto(t, "clear")
    /\ UNCHANGED <<pool, sock, fds, at, ptr, op, own, history>>

\* Variant: the place is not cleared.
ClearForgets(t) ==
    /\ pc[t] = "clear"
    /\ Return(t)
    /\ UNCHANGED <<poolVars, own, history>>

Clear(t) ==
    /\ pc[t] = "clear"
    /\ pool' = [pool EXCEPT ![at[t]] = NULL]
    /\ Return(t)
    /\ UNCHANGED <<heap, sock, fds, own, history>>

-----------------------------------------------------------------------------
(* The calls that use a session *)

\* The host's part of NoSocketLost.
Dialling(o, h) ==
    /\ untidy' = (untidy \/ (o \in Connects /\ h \in dialled))
    /\ dialled' = IF o \in Connects THEN dialled \cup (Handles \cap {h})
                  ELSE IF o = "ImDisconnect" THEN dialled \ {h} ELSE dialled

\* Variant: a handle of -1 is taken for the first place.
LookupNoRange(t, o) ==
    /\ pc[t] = "host"
    /\ \E h \in Passed(t) :
          LET p == IF h = PoolSize THEN NULL ELSE pool[IF h < 0 THEN 0 ELSE h] IN
          /\ IF p = NULL
             THEN UNCHANGED <<pc, at, ptr, op>>
             ELSE /\ Goto(t, "call") /\ at' = [at EXCEPT ![t] = h]
                  /\ ptr' = [ptr EXCEPT ![t] = p] /\ op' = [op EXCEPT ![t] = o]
          /\ Dialling(o, h)
    /\ UNCHANGED <<poolVars, own, overlap>>

\* sesspool_sess at the start of every call: NULL makes the call return -1.
Lookup(t, o) ==
    /\ pc[t] = "host"
    /\ \E h \in Passed(t) :
          LET p == IF h \in Handles THEN pool[h] ELSE NULL IN
          /\ IF p = NULL
             THEN UNCHANGED <<pc, at, ptr, op>>
             ELSE /\ Goto(t, "call") /\ at' = [at EXCEPT ![t] = h]
                  /\ ptr' = [ptr EXCEPT ![t] = p] /\ op' = [op EXCEPT ![t] = o]
          /\ Dialling(o, h)
    /\ UNCHANGED <<poolVars, own, overlap>>

InCall(t, o) == pc[t] = "call" /\ op[t] = o

\* The new socket replaces the old one, and stays when
\* its connect fails.
Connect(t) ==
    /\ \E o \in Connects : InCall(t, o)
    /\ \/ \E f \in Descriptors \ fds :
             fds' = fds \cup {f} /\ sock' = [sock EXCEPT ![ptr[t]] = f]
       \/ sock' = [sock EXCEPT ![ptr[t]] = -1] /\ UNCHANGED fds
    /\ Return(t)
    /\ UNCHANGED <<pool, heap, own, history>>

\* Variant: the socket is closed and its number kept.
DisconnectKeeps(t) ==
    /\ InCall(t, "ImDisconnect")
    /\ fds' = fds \ {sock[ptr[t]]}
    /\ Return(t)
    /\ UNCHANGED <<pool, heap, sock, own, history>>

\* ImDisconnect: a descriptor is closed, 0 and -1 are left as they are.
Disconnect(t) ==
    /\ InCall(t, "ImDisconnect")
    /\ fds' = fds \ {sock[ptr[t]]}
    /\ sock' = IF sock[ptr[t]] > 0 THEN [sock EXCEPT ![ptr[t]] = 0] ELSE sock
    /\ Return(t)
    /\ UNCHANGED <<pool, heap, own, history>>

Use(t) ==
    /\ \E o \in Exchanges \cup Settings : InCall(t, o)
    /\ Return(t)
    /\ UNCHANGED <<poolVars, own, history>>

Step(t) ==
    \/ ImInit(t) \/ Scan(t) \/ PoolIsFull(t) \/ Take(t) \/ Setup(t)
    \/ ImRelease(t) \/ Free(t) \/ Clear(t)
    \/ \E o \in Ops : Lookup(t, o)
    \/ Connect(t) \/ Disconnect(t) \/ Use(t)

Next == \E t \in Threads : Step(t)

Spec == Init /\ [][Next]_vars

-----------------------------------------------------------------------------
(* Properties *)

TypeOK ==
    /\ pool \in [Handles -> Memory \cup {NULL}]
    /\ heap \subseteq Memory /\ fds \subseteq Descriptors
    /\ sock \in [Memory -> Descriptors \cup {0, -1}]
    /\ pc \in [Threads -> {"host", "scan", "take", "setup", "free", "clear", "call"}]
    /\ at \in [Threads -> -1..PoolSize] /\ ptr \in [Threads -> Memory \cup {NULL}]
    /\ op \in [Threads -> Ops \cup {"none"}] /\ own \in [Threads -> SUBSET Handles]
    /\ dialled \subseteq Handles /\ overlap \in BOOLEAN /\ untidy \in BOOLEAN

\* The places a thread has to itself: those whose handles it holds, and the one
\* it is taking or giving back.
Claims(t) == own[t] \cup (IF pc[t] \in {"setup", "free", "clear"} THEN {at[t]} ELSE {})

\* The places with a live session: all that are taken but those whose session was
\* freed a moment ago.
Live == {h \in Handles : pool[h] # NULL /\ ~\E t \in Threads : pc[t] = "clear" /\ at[t] = h}

\* As long as no two threads are in ImInit together, no two threads have a
\* handle in common and no two handles a session.
OnePlaceEach ==
    ~overlap =>
        /\ \A t, u \in Threads : t # u => Claims(t) \cap Claims(u) = {}
        /\ \A g, h \in Live : pool[g] = pool[h] => g = h

\* No call works on a session that has been freed, and none is freed twice, though
\* the pointer is read long before it is used.
NoUseAfterFree ==
    ~overlap => \A t \in Threads : pc[t] \in {"call", "free"} => ptr[t] \in heap

\* Every session in memory can be reached from the table, and every one in the table
\* is in memory but for the moment between free and the clearing of its place.
NoSessionLost == ~overlap => heap = {pool[h] : h \in Live}

\* When every ImConnect, whether it succeeds or fails, is answered by an ImDisconnect
\* before the next one or the release, each open socket belongs to a session of the
\* host and no two sessions have one in common; otherwise a socket stays open until
\* the process ends.
NoSocketLost ==
    ~overlap /\ ~untidy =>
        LET held == UNION {own[t] : t \in Threads}
            Sock(h) == sock[pool[h]]
        IN  /\ fds = {Sock(h) : h \in held} \ {0, -1}
            /\ \A g, h \in held : Sock(g) = Sock(h) => g = h \/ Sock(g) \notin Descriptors
=============================================================================
