------------------------- MODULE JavaSessionProofs -------------------------
(***************************************************************************)
(* What TLAPS proves of the session pool and of the Java interface, for    *)
(* any number of threads, places, blocks of memory and descriptors.        *)
(*                                                                         *)
(* SessionPool promises something only while the host keeps its            *)
(* discipline, so its invariant has three parts: what always holds, what   *)
(* holds while no two threads were in ImInit together, and what holds when *)
(* in addition every connect had its disconnect.                           *)
(***************************************************************************)
EXTENDS JavaSession, TLAPS

-----------------------------------------------------------------------------
(* The inductive invariant of the pool *)

AtPlace(t) == pc[t] \in {"setup", "free", "clear"}

\* Always: the place a thread works on is one, and the socket of a session it calls
\* with is one that memory can hold.
PlacesInRange ==
    \A t \in Threads :
        /\ pc[t] \in {"take", "setup", "free", "clear"} => at[t] \in Handles
        /\ pc[t] \in {"free", "clear", "call"} => ptr[t] \in Memory

\* While no two threads were in ImInit together:
OneInInit == \A t, u \in Threads : InInit(t) /\ InInit(u) => t = u
ClaimsApart == \A t, u \in Threads : t # u => Claims(t) \cap Claims(u) = {}
OwnIsNotAt == \A t \in Threads : AtPlace(t) => at[t] \notin own[t]
FoundFree == \A t \in Threads : pc[t] = "take" => pool[at[t]] = NULL
HeldHasSession == \A t \in Threads : \A h \in own[t] : pool[h] # NULL
FreedIsAtPlace ==
    \A t \in Threads : pc[t] \in {"free", "clear"} => pool[at[t]] = ptr[t]
CalledIsHeld ==
    \A t \in Threads : pc[t] = "call" => at[t] \in own[t] /\ ptr[t] = pool[at[t]]
SessionsApart == \A g, h \in Live : pool[g] = pool[h] => g = h
HeapIsLive == heap = {pool[h] : h \in Live}

Ownership ==
    /\ OneInInit /\ ClaimsApart /\ OwnIsNotAt /\ FoundFree
    /\ HeldHasSession /\ FreedIsAtPlace /\ CalledIsHeld
    /\ SessionsApart /\ HeapIsLive

\* When in addition every ImConnect had its ImDisconnect: a session that is not
\* connected has no socket, nor has one whose connect has only begun.
Held == UNION {own[t] : t \in Threads}
SockOf(h) == sock[pool[h]]
Disconnecting(t, h) == pc[t] = "call" /\ op[t] = "ImDisconnect" /\ at[t] = h
Connecting(t, h) == pc[t] = "call" /\ op[t] \in Connects /\ at[t] = h

IdleHasNoSocket ==
    \A t \in Threads : \A h \in own[t] :
        (h \notin dialled /\ ~Disconnecting(t, h)) \/ Connecting(t, h) => SockOf(h) \in {0, -1}
ConnectingIsDialled ==
    \A t \in Threads : \A h \in own[t] : Connecting(t, h) => h \in dialled
SocketsAreHeld == fds = {SockOf(h) : h \in Held} \ {0, -1}
SocketsApart ==
    \A g, h \in Held : SockOf(g) = SockOf(h) => g = h \/ SockOf(g) \notin Descriptors

Sockets == IdleHasNoSocket /\ ConnectingIsDialled /\ SocketsAreHeld /\ SocketsApart

PoolInv ==
    /\ TypeOK /\ PlacesInRange
    /\ ~overlap => Ownership
    /\ ~overlap /\ ~untidy => Sockets


\* In an initial state there are no sessions, and every thread is in the host.
LEMMA PoolInit == Init => PoolInv
<1> SUFFICES ASSUME Init PROVE PoolInv
  OBVIOUS
<1> USE DEF Init
<1>1. TypeOK
  <2>1. sock \in [Memory -> Descriptors \cup {0, -1}]
    OBVIOUS
  <2>2. at \in [Threads -> -1..PoolSize]
    BY PoolAssumption
  <2>3. QED
    BY <2>1, <2>2 DEF TypeOK
<1>2. PlacesInRange
  BY DEF PlacesInRange
<1>3. Live = {}
  BY DEF Live
<1>4. Ownership
  BY <1>3 DEF Ownership, OneInInit, ClaimsApart, OwnIsNotAt, FoundFree, HeldHasSession,
              FreedIsAtPlace, CalledIsHeld, SessionsApart, HeapIsLive, InInit, Claims, AtPlace
<1>5. Sockets
  BY DEF Sockets, IdleHasNoSocket, ConnectingIsDialled, SocketsAreHeld, SocketsApart, Held
<1>6. QED
  BY <1>1, <1>2, <1>4, <1>5 DEF PoolInv

\* A place is a number, and one behind or before a place is in -1..PoolSize.
LEMMA HandleBounds ==
    /\ Handles \subseteq -1..PoolSize /\ -1 \in -1..PoolSize /\ PoolSize \in -1..PoolSize
    /\ 0 \in -1..PoolSize
    /\ \A h \in Handles : h + 1 \in -1..PoolSize
BY PoolAssumption DEF Handles

\* What a step of a thread can do to the types of the variables.
LEMMA TypeStep ==
    ASSUME TypeOK, PlacesInRange, NEW t \in Threads, Step(t)
    PROVE  TypeOK' /\ PlacesInRange'
<1> USE PoolAssumption, HandleBounds
        DEF TypeOK, PlacesInRange, Goto, Return, poolVars, history
<1>1. CASE ImInit(t)
  BY <1>1 DEF ImInit
<1>2. CASE Scan(t)
  BY <1>2 DEF Scan
<1>3. CASE PoolIsFull(t)
  BY <1>3 DEF PoolIsFull
<1>4. CASE Take(t)
  BY <1>4 DEF Take
<1>5. CASE Setup(t)
  BY <1>5 DEF Setup
<1>6. CASE ImRelease(t)
  BY <1>6 DEF ImRelease
<1>7. CASE Free(t)
  BY <1>7 DEF Free
<1>8. CASE Clear(t)
  BY <1>8 DEF Clear
<1>9. ASSUME NEW o \in Ops, Lookup(t, o) PROVE TypeOK' /\ PlacesInRange'
  BY <1>9 DEF Lookup, Dialling, Passed
<1>10. CASE Connect(t)
  <2>1. PICK f \in Descriptors \cup {-1} : sock' = [sock EXCEPT ![ptr[t]] = f]
    BY <1>10 DEF Connect
  <2>2. fds' \subseteq Descriptors
    <3>1. fds' = fds \/ \E d \in Descriptors : fds' = fds \cup {d}
      BY <1>10 DEF Connect
    <3>2. QED
      BY <3>1
  <2>3. sock' \in [Memory -> Descriptors \cup {0, -1}]
    BY <2>1, Zenon
  <2>4. QED
    BY <1>10, <2>2, <2>3 DEF Connect, InCall
<1>11. CASE Disconnect(t)
  BY <1>11 DEF Disconnect, InCall
<1>12. CASE Use(t)
  BY <1>12 DEF Use, InCall
<1>13. QED
  BY <1>1, <1>2, <1>3, <1>4, <1>5, <1>6, <1>7, <1>8, <1>9, <1>10, <1>11, <1>12 DEF Step

\* The live sessions are those of the places.
LEMMA LiveTyped == ASSUME TypeOK, NEW h \in Live PROVE h \in Handles /\ pool[h] \in Memory
BY DEF TypeOK, Live

\* What t does to its own variables is no matter of the other threads.
OthersUnchanged(t) ==
    \A u \in Threads \ {t} :
        pc'[u] = pc[u] /\ at'[u] = at[u] /\ ptr'[u] = ptr[u] /\ op'[u] = op[u] /\ own'[u] = own[u]

\* A step that leaves table and heap alone keeps the ownership, if the thread claims
\* nothing new and where it has come to is as it should be.
LEMMA QuietOwnership ==
    ASSUME Ownership, NEW t \in Threads, UNCHANGED <<pool, heap>>, OthersUnchanged(t),
           pc[t] # "clear", pc'[t] # "clear",
           InInit(t)' => \A u \in Threads \ {t} : ~InInit(u),
           Claims(t)' \subseteq Claims(t),
           AtPlace(t)' => at'[t] \notin own'[t],
           pc'[t] = "take" => pool[at'[t]] = NULL,
           \A h \in own'[t] : pool[h] # NULL,
           pc'[t] = "free" => pool[at'[t]] = ptr'[t],
           pc'[t] = "call" => at'[t] \in own'[t] /\ ptr'[t] = pool[at'[t]]
    PROVE  Ownership'
<1> USE DEF OthersUnchanged
<1>1. \A u \in Threads \ {t} : Claims(u)' = Claims(u) /\ InInit(u)' = InInit(u)
  BY DEF Claims, InInit
<1>2. OneInInit' /\ ClaimsApart'
  BY <1>1 DEF Ownership, OneInInit, ClaimsApart
<1>3. OwnIsNotAt' /\ FoundFree' /\ HeldHasSession'
  BY DEF Ownership, OwnIsNotAt, FoundFree, HeldHasSession, AtPlace
<1>4. FreedIsAtPlace' /\ CalledIsHeld'
  BY DEF Ownership, FreedIsAtPlace, CalledIsHeld
<1>5. \A u \in Threads, h \in Handles : (pc'[u] = "clear" /\ at'[u] = h) <=> (pc[u] = "clear" /\ at[u] = h)
  OBVIOUS
<1>6. Live' = Live
  BY <1>5 DEF Live
<1>7. SessionsApart' /\ HeapIsLive'
  BY <1>6 DEF Ownership, SessionsApart, HeapIsLive
<1>8. QED
  BY <1>2, <1>3, <1>4, <1>7 DEF Ownership

\* The step that takes a place.
LEMMA TakeOwnership ==
    ASSUME TypeOK, PlacesInRange, Ownership, NEW t \in Threads, Take(t)
    PROVE  Ownership'
<1> DEFINE h == at[t]
<1> USE DEF TypeOK, PlacesInRange
<1>1. /\ pc[t] = "take" /\ h \in Handles /\ pool[h] = NULL
      /\ pc' = [pc EXCEPT ![t] = "setup"]
      /\ UNCHANGED <<at, ptr, op, own>>
      /\ \A u \in Threads \ {t} : pc'[u] = pc[u]
      /\ pc'[t] = "setup"
  BY DEF Take, Goto, Ownership, FoundFree, history
<1>2. PICK b : /\ pool' = [pool EXCEPT ![h] = b]
               /\ \/ b \in Memory \ heap /\ heap' = heap \cup {b}
                  \/ b = NULL /\ heap' = heap
  BY DEF Take
<1>3. pool'[h] = b /\ \A g \in Handles \ {h} : pool'[g] = pool[g]
  BY <1>1, <1>2
<1>4. \A u \in Threads \ {t} : h \notin Claims(u) /\ ~InInit(u)
  <2> SUFFICES ASSUME NEW u \in Threads \ {t} PROVE h \notin Claims(u) /\ ~InInit(u)
    OBVIOUS
  <2>1. ~InInit(u)
    BY <1>1 DEF Ownership, OneInInit, InInit
  <2>2. h \notin own[u]
    BY <1>1 DEF Ownership, HeldHasSession
  <2>3. pc[u] \in {"free", "clear"} => pool[at[u]] # NULL
    BY PoolAssumption DEF Ownership, FreedIsAtPlace
  <2>4. QED
    BY <1>1, <2>1, <2>2, <2>3 DEF Claims, InInit
<1>5. h \notin own[t]
  BY <1>1 DEF Ownership, HeldHasSession
<1>6. \A u \in Threads \ {t} : Claims(u)' = Claims(u)
  BY <1>1 DEF Claims
<1>7. Claims(t)' = own[t] \cup {h} /\ Claims(t) = own[t]
  BY <1>1 DEF Claims
<1>8. OneInInit'
  BY <1>1, <1>4 DEF OneInInit, InInit
<1>9. ClaimsApart'
  BY <1>4, <1>6, <1>7 DEF Ownership, ClaimsApart
<1>10. OwnIsNotAt' /\ FoundFree'
  BY <1>1, <1>4, <1>5 DEF Ownership, OwnIsNotAt, FoundFree, AtPlace, InInit
<1>11. \A u \in Threads : h \notin own[u]
  BY <1>4, <1>5 DEF Claims
<1>12. HeldHasSession'
  BY <1>1, <1>3, <1>11 DEF Ownership, HeldHasSession
<1>13. FreedIsAtPlace' /\ CalledIsHeld'
  <2> SUFFICES ASSUME NEW u \in Threads
               PROVE  /\ pc'[u] \in {"free", "clear"} => pool'[at'[u]] = ptr'[u]
                      /\ pc'[u] = "call" => at'[u] \in own'[u] /\ ptr'[u] = pool'[at'[u]]
    BY DEF FreedIsAtPlace, CalledIsHeld
  <2>1. CASE u = t
    BY <1>1, <2>1
  <2>2. CASE u # t /\ pc[u] \in {"free", "clear"}
    BY <1>1, <1>3, <1>4, <2>2 DEF Ownership, FreedIsAtPlace, Claims
  <2>3. CASE u # t /\ pc[u] = "call"
    BY <1>1, <1>3, <1>11, <2>3 DEF Ownership, CalledIsHeld
  <2>4. QED
    BY <1>1, <2>1, <2>2, <2>3
<1>14. Live' = IF b = NULL THEN Live ELSE Live \cup {h}
  <2>1. ~\E u \in Threads : pc'[u] = "clear" /\ at'[u] = h
    BY <1>1, <1>4 DEF Claims
  <2>2. h \notin Live
    BY <1>1 DEF Live
  <2>3. \A g \in Handles \ {h} : g \in Live' <=> g \in Live
    BY <1>1, <1>3 DEF Live
  <2>4. h \in Live' <=> b # NULL
    BY <1>1, <1>3, <2>1 DEF Live
  <2>5. QED
    BY <1>1, <2>2, <2>3, <2>4 DEF Live
<1>15. \A g \in Live : g # h /\ pool'[g] = pool[g] /\ pool[g] \in heap
  BY <1>1, <1>3 DEF Live, Ownership, HeapIsLive
<1>16. SessionsApart' /\ HeapIsLive'
  <2>1. CASE b = NULL
    <3>1. {pool'[g] : g \in Live} = {pool[g] : g \in Live}
      BY <1>15
    <3>2. QED
      BY <1>2, <1>14, <1>15, <2>1, <3>1, PoolAssumption DEF Ownership, SessionsApart, HeapIsLive
  <2>2. CASE b # NULL
    <3>1. {pool'[g] : g \in Live \cup {h}} = {pool[g] : g \in Live} \cup {b}
      BY <1>1, <1>3, <1>15
    <3>2. b \notin heap /\ heap' = heap \cup {b} /\ Live' = Live \cup {h} /\ h \notin Live
      BY <1>2, <1>14, <1>15, <2>2
    <3>3. HeapIsLive'
      BY <3>1, <3>2 DEF Ownership, HeapIsLive
    <3>4. SessionsApart'
      BY <1>3, <1>15, <1>1, <3>2 DEF Ownership, SessionsApart
    <3>5. QED
      BY <3>3, <3>4
  <2>3. QED
    BY <2>1, <2>2
<1>17. QED
  BY <1>8, <1>9, <1>10, <1>12, <1>13, <1>16 DEF Ownership

\* The step that frees a session.
LEMMA FreeOwnership ==
    ASSUME TypeOK, PlacesInRange, Ownership, NEW t \in Threads, Free(t)
    PROVE  Ownership'
<1> DEFINE h == at[t]
<1> USE DEF TypeOK, PlacesInRange
<1>1. /\ pc[t] = "free" /\ h \in Handles /\ pool[h] = ptr[t] /\ ptr[t] \in Memory
      /\ pc' = [pc EXCEPT ![t] = "clear"] /\ pc'[t] = "clear"
      /\ heap' = heap \ {ptr[t]}
      /\ UNCHANGED <<pool, at, ptr, op, own>>
      /\ \A u \in Threads \ {t} : pc'[u] = pc[u]
  BY DEF Free, Goto, Ownership, FreedIsAtPlace, history
<1>2. \A u \in Threads : Claims(u)' = Claims(u)
  BY <1>1 DEF Claims
<1>3. OneInInit' /\ ClaimsApart' /\ OwnIsNotAt' /\ FoundFree' /\ HeldHasSession'
  BY <1>1, <1>2 DEF Ownership, OneInInit, ClaimsApart, OwnIsNotAt, FoundFree, HeldHasSession,
                    InInit, AtPlace
<1>4. FreedIsAtPlace' /\ CalledIsHeld'
  BY <1>1 DEF Ownership, FreedIsAtPlace, CalledIsHeld
<1>5. h \in Live
  <2>1. \A u \in Threads \ {t} : pc[u] = "clear" => at[u] # h
    BY <1>1 DEF Ownership, ClaimsApart, Claims
  <2>2. QED
    BY <1>1, <2>1, PoolAssumption DEF Live
<1>6. Live' = Live \ {h}
  <2>1. \A g \in Handles \ {h} : g \in Live' <=> g \in Live
    BY <1>1 DEF Live
  <2>2. h \notin Live'
    BY <1>1 DEF Live
  <2>3. QED
    BY <2>1, <2>2 DEF Live
<1>7. \A g \in Live : pool[g] = ptr[t] <=> g = h
  BY <1>1, <1>5 DEF Ownership, SessionsApart
<1>8. {pool[g] : g \in Live \ {h}} = {pool[g] : g \in Live} \ {ptr[t]}
  BY <1>7
<1>9. SessionsApart' /\ HeapIsLive'
  BY <1>1, <1>6, <1>8 DEF Ownership, SessionsApart, HeapIsLive
<1>10. QED
  BY <1>3, <1>4, <1>9 DEF Ownership

\* The step that clears the place of a freed session.
LEMMA ClearOwnership ==
    ASSUME TypeOK, PlacesInRange, Ownership, NEW t \in Threads, Clear(t)
    PROVE  Ownership'
<1> DEFINE h == at[t]
<1> USE DEF TypeOK, PlacesInRange
<1>1. /\ pc[t] = "clear" /\ h \in Handles
      /\ pool' = [pool EXCEPT ![h] = NULL] /\ UNCHANGED <<heap, own>>
      /\ pc'[t] = "host" /\ OthersUnchanged(t)
  BY DEF Clear, Return, Goto, OthersUnchanged, history
<1> USE DEF OthersUnchanged
<1>2. pool'[h] = NULL /\ \A g \in Handles \ {h} : pool'[g] = pool[g]
  BY <1>1
<1>3. h \notin own[t] /\ \A u \in Threads \ {t} : h \notin Claims(u)
  BY <1>1 DEF Ownership, OwnIsNotAt, AtPlace, ClaimsApart, Claims
<1>4. \A u \in Threads : h \notin own[u]
  BY <1>3 DEF Claims
<1>5. /\ \A u \in Threads \ {t} : Claims(u)' = Claims(u) /\ InInit(u)' = InInit(u)
      /\ Claims(t)' \subseteq Claims(t) /\ ~InInit(t)'
  BY <1>1 DEF Claims, InInit
<1>6. OneInInit' /\ ClaimsApart' /\ OwnIsNotAt'
  BY <1>1, <1>5 DEF Ownership, OneInInit, ClaimsApart, OwnIsNotAt, AtPlace
<1>7. FoundFree' /\ HeldHasSession'
  BY <1>1, <1>2, <1>4 DEF Ownership, FoundFree, HeldHasSession
<1>8. \A u \in Threads \ {t} : pc[u] \in {"free", "clear"} => at[u] \in Handles \ {h}
  BY <1>3 DEF Claims
<1>9. FreedIsAtPlace' /\ CalledIsHeld'
  BY <1>1, <1>2, <1>4, <1>8 DEF Ownership, FreedIsAtPlace, CalledIsHeld
<1>10. Live' = Live /\ h \notin Live
  <2>1. h \notin Live /\ h \notin Live'
    BY <1>1, <1>2 DEF Live
  <2>2. ASSUME NEW g \in Handles \ {h} PROVE g \in Live' <=> g \in Live
    <3>1. \A u \in Threads : (pc'[u] = "clear" /\ at'[u] = g) <=> (pc[u] = "clear" /\ at[u] = g)
      BY <1>1
    <3>2. QED
      BY <1>2, <3>1 DEF Live
  <2>3. QED
    BY <2>1, <2>2 DEF Live
<1>11. \A g \in Live : pool'[g] = pool[g]
  BY <1>2, <1>10 DEF Live
<1>12. {pool'[g] : g \in Live} = {pool[g] : g \in Live}
  BY <1>11
<1>13. SessionsApart' /\ HeapIsLive'
  BY <1>1, <1>10, <1>11, <1>12 DEF Ownership, SessionsApart, HeapIsLive
<1>14. QED
  BY <1>6, <1>7, <1>9, <1>13 DEF Ownership

\* ImInit up to the place it finds: while nobody else is in it.
LEMMA ScanOwnership ==
    ASSUME TypeOK, PlacesInRange, Ownership, NEW t \in Threads, ~overlap',
           ImInit(t) \/ Scan(t) \/ PoolIsFull(t)
    PROVE  Ownership'
<1> USE DEF TypeOK, PlacesInRange, Goto, Return, poolVars, history
<1>1. OthersUnchanged(t) /\ UNCHANGED <<pool, heap, own>>
  BY DEF ImInit, Scan, PoolIsFull, OthersUnchanged
<1>2. pc[t] \in {"host", "scan"} /\ pc'[t] \in {"host", "scan", "take"}
  BY DEF ImInit, Scan, PoolIsFull
<1>3. Claims(t)' = Claims(t)
  BY <1>1, <1>2 DEF Claims
<1>4. InInit(t)' => \A u \in Threads \ {t} : ~InInit(u)
  <2>1. CASE ImInit(t)
    BY <2>1 DEF ImInit
  <2>2. CASE Scan(t)
    BY <2>2 DEF Scan, Ownership, OneInInit, InInit
  <2>3. CASE PoolIsFull(t)
    BY <2>3 DEF PoolIsFull, InInit
  <2>4. QED
    BY <2>1, <2>2, <2>3
<1>5. pc'[t] = "take" => pool[at'[t]] = NULL
  BY DEF ImInit, Scan, PoolIsFull
<1>6. \A h \in own'[t] : pool[h] # NULL
  BY <1>1 DEF Ownership, HeldHasSession
<1>7. QED
  BY <1>1, <1>2, <1>3, <1>4, <1>5, <1>6, QuietOwnership DEF AtPlace

\* ImInit returns the handle of the place it has taken, if there is a session.
LEMMA SetupOwnership ==
    ASSUME TypeOK, PlacesInRange, Ownership, NEW t \in Threads, Setup(t)
    PROVE  Ownership'
<1> USE DEF TypeOK, PlacesInRange, Goto, Return, history
<1>1. OthersUnchanged(t) /\ UNCHANGED <<pool, heap>>
  BY DEF Setup, OthersUnchanged
<1>2. pc[t] = "setup" /\ pc'[t] = "host"
  BY DEF Setup
<1>3. own'[t] = own[t] \/ (own'[t] = own[t] \cup {at[t]} /\ pool[at[t]] # NULL)
  BY DEF Setup
<1>4. Claims(t)' \subseteq Claims(t)
  BY <1>2, <1>3 DEF Claims
<1>5. \A h \in own'[t] : pool[h] # NULL
  BY <1>3 DEF Ownership, HeldHasSession
<1>6. QED
  BY <1>1, <1>2, <1>4, <1>5, QuietOwnership DEF AtPlace, InInit

\* ImRelease takes the handle from the host.
LEMMA ReleaseOwnership ==
    ASSUME TypeOK, PlacesInRange, Ownership, NEW t \in Threads, ImRelease(t)
    PROVE  Ownership'
<1> USE DEF TypeOK, PlacesInRange, Goto, poolVars
<1>1. OthersUnchanged(t) /\ UNCHANGED <<pool, heap>> /\ pc[t] = "host"
  BY DEF ImRelease, OthersUnchanged
<1>2. PICK h \in own[t] :
          /\ own'[t] = own[t] \ {h}
          /\ \/ UNCHANGED <<pc, at, ptr>>
             \/ pc'[t] = "free" /\ at'[t] = h /\ ptr'[t] = pool[h]
  BY DEF ImRelease
<1>3. Claims(t)' \subseteq Claims(t)
  BY <1>1, <1>2 DEF Claims
<1>4. \A g \in own'[t] : pool[g] # NULL
  BY <1>2 DEF Ownership, HeldHasSession
<1>5. AtPlace(t)' => at'[t] \notin own'[t]
  BY <1>1, <1>2 DEF AtPlace
<1>6. QED
  BY <1>1, <1>2, <1>3, <1>4, <1>5, QuietOwnership DEF InInit

\* A call looks its session up, uses it and returns; all of that leaves the handles
\* to their owner.
LEMMA CallOwnership ==
    ASSUME TypeOK, PlacesInRange, Ownership, NEW t \in Threads,
           (\E o \in Ops : Lookup(t, o)) \/ Connect(t) \/ Disconnect(t) \/ Use(t)
    PROVE  Ownership'
<1> USE DEF TypeOK, PlacesInRange, Goto, Return, poolVars, history
<1>1. OthersUnchanged(t) /\ UNCHANGED <<pool, heap, own>>
  BY DEF Lookup, Connect, Disconnect, Use, OthersUnchanged
<1>2. pc[t] \in {"host", "call"} /\ pc'[t] \in {"host", "call"}
  BY DEF Lookup, Connect, Disconnect, Use, InCall
<1>3. pc'[t] = "call" => at'[t] \in own'[t] /\ ptr'[t] = pool[at'[t]]
  <2>1. ASSUME NEW o \in Ops, Lookup(t, o), pc'[t] = "call"
        PROVE  at'[t] \in own'[t] /\ ptr'[t] = pool[at'[t]]
    <3>1. PICK h \in Passed(t) : h \in Handles /\ at'[t] = h /\ ptr'[t] = pool[h]
      BY <2>1 DEF Lookup
    <3>2. h \in own[t]
      BY <3>1, PoolAssumption DEF Passed, Handles
    <3>3. QED
      BY <1>1, <3>1, <3>2
  <2>2. QED
    BY <2>1 DEF Connect, Disconnect, Use
<1>4. Claims(t)' = Claims(t)
  BY <1>1, <1>2 DEF Claims
<1>5. \A h \in own'[t] : pool[h] # NULL
  BY <1>1 DEF Ownership, HeldHasSession
<1>6. QED
  BY <1>1, <1>2, <1>3, <1>4, <1>5, QuietOwnership DEF AtPlace, InInit

\* No step of a thread disturbs the ownership, unless it comes into ImInit beside
\* another.
LEMMA OwnershipStep ==
    ASSUME TypeOK, PlacesInRange, Ownership, NEW t \in Threads, Step(t), ~overlap'
    PROVE  Ownership'
BY TakeOwnership, FreeOwnership, ClearOwnership, ScanOwnership, SetupOwnership,
   ReleaseOwnership, CallOwnership DEF Step

\* What was not kept to stays so.
LEMMA HistoryGrows ==
    ASSUME TypeOK, NEW t \in Threads, Step(t)
    PROVE  (overlap => overlap') /\ (untidy => untidy')
<1>1. CASE ImInit(t)
  BY <1>1, Zenon DEF ImInit
<1>2. CASE ImRelease(t)
  BY <1>2, Zenon DEF ImRelease
<1>3. ASSUME NEW o \in Ops, Lookup(t, o) PROVE (overlap => overlap') /\ (untidy => untidy')
  <2>1. PICK h : Dialling(o, h)
    BY <1>3, Zenon DEF Lookup
  <2>2. UNCHANGED overlap
    BY <1>3 DEF Lookup
  <2>3. QED
    BY <2>1, <2>2, Zenon DEF Dialling
<1>4. CASE Scan(t) \/ PoolIsFull(t) \/ Take(t) \/ Setup(t) \/ Free(t) \/ Clear(t)
  BY <1>4 DEF Scan, PoolIsFull, Take, Setup, Free, Clear, history
<1>5. CASE Connect(t) \/ Disconnect(t) \/ Use(t)
  BY <1>5 DEF Connect, Disconnect, Use, history
<1>6. QED
  BY <1>1, <1>2, <1>3, <1>4, <1>5 DEF Step

-----------------------------------------------------------------------------
(* Sockets *)

\* A session at a place that a thread has to itself, and has not just freed, is live.
LEMMA ClaimedIsLive ==
    ASSUME Ownership, NEW t \in Threads, NEW h \in Handles, h \in Claims(t), pool[h] # NULL,
           pc[t] = "clear" => at[t] # h
    PROVE  h \in Live
<1>1. ASSUME NEW u \in Threads, pc[u] = "clear", at[u] = h PROVE FALSE
  BY <1>1 DEF Ownership, ClaimsApart, Claims
<1>2. QED
  BY <1>1 DEF Live

\* A session that a host holds is in memory, and no two handles lead to the same.
LEMMA HeldSessions ==
    ASSUME TypeOK, Ownership
    PROVE  /\ Held \subseteq Handles /\ Held \subseteq Live
           /\ \A h \in Held : pool[h] \in Memory
           /\ \A g, h \in Held : pool[g] = pool[h] => g = h
<1>1. ASSUME NEW t \in Threads, NEW h \in own[t] PROVE h \in Handles /\ h \in Live
  <2>1. h \in Handles /\ pool[h] # NULL /\ h \in Claims(t)
    BY DEF TypeOK, Ownership, HeldHasSession, Claims
  <2>2. pc[t] = "clear" => at[t] # h
    BY DEF Ownership, OwnIsNotAt, AtPlace
  <2>3. QED
    BY <2>1, <2>2, ClaimedIsLive
<1>2. QED
  BY <1>1, LiveTyped DEF Held, Ownership, SessionsApart

\* A step after which each held session has the socket it had, and nobody has come
\* to where more is asked, keeps the sockets.
LEMMA QuietSockets ==
    ASSUME Sockets, NEW t \in Threads, OthersUnchanged(t), UNCHANGED <<fds, dialled>>,
           own'[t] = own[t],
           \A h \in Held : SockOf(h)' = SockOf(h),
           \A h : ~Disconnecting(t, h), pc'[t] # "call"
    PROVE  Sockets'
<1>1. \A u \in Threads : own'[u] = own[u]
  BY DEF OthersUnchanged
<1>2. Held' = Held
  BY <1>1 DEF Held
<1>3. SocketsAreHeld' /\ SocketsApart'
  <2>1. {SockOf(h)' : h \in Held} = {SockOf(h) : h \in Held}
    OBVIOUS
  <2>2. QED
    BY <1>2, <2>1 DEF Sockets, SocketsAreHeld, SocketsApart
<1>4. IdleHasNoSocket'
  <2> SUFFICES ASSUME NEW u \in Threads, NEW h \in own'[u],
                      ((h \notin dialled /\ ~Disconnecting(u, h)) \/ Connecting(u, h))'
               PROVE  SockOf(h)' \in {0, -1}
    BY DEF IdleHasNoSocket
  <2>1. (h \notin dialled /\ ~Disconnecting(u, h)) \/ Connecting(u, h)
    BY DEF OthersUnchanged, Disconnecting, Connecting
  <2>2. h \in Held /\ h \in own[u]
    BY <1>1 DEF Held
  <2>3. QED
    BY <2>1, <2>2 DEF Sockets, IdleHasNoSocket
<1>5. ConnectingIsDialled'
  BY <1>1 DEF Sockets, ConnectingIsDialled, Connecting, OthersUnchanged
<1>6. QED
  BY <1>3, <1>4, <1>5 DEF Sockets

\* The pool's own steps: they change no place that is held.
LEMMA TableSockets ==
    ASSUME TypeOK, PlacesInRange, Ownership, Sockets, NEW t \in Threads,
           ImInit(t) \/ Scan(t) \/ PoolIsFull(t) \/ Take(t) \/ Free(t) \/ Clear(t)
    PROVE  Sockets'
<1> USE DEF TypeOK, PlacesInRange, Goto, Return, poolVars, history
<1>1. OthersUnchanged(t) /\ UNCHANGED <<sock, fds, dialled, own>>
  BY DEF ImInit, Scan, PoolIsFull, Take, Free, Clear, OthersUnchanged
<1>2. pc[t] # "call" /\ pc'[t] # "call"
  BY DEF ImInit, Scan, PoolIsFull, Take, Free, Clear
<1>3. \A h \in Held : pool'[h] = pool[h]
  <2> SUFFICES ASSUME NEW u \in Threads, NEW h \in own[u] PROVE pool'[h] = pool[h]
    BY DEF Held
  <2>1. CASE Take(t)
    <3>1. h # at[t]
      BY <2>1 DEF Take, Ownership, FoundFree, HeldHasSession
    <3>2. QED
      BY <2>1, <3>1 DEF Take
  <2>2. CASE Clear(t)
    <3>1. h # at[t]
      BY <2>2 DEF Clear, Ownership, OwnIsNotAt, AtPlace, ClaimsApart, Claims
    <3>2. QED
      BY <2>2, <3>1 DEF Clear
  <2>3. QED
    BY <2>1, <2>2 DEF ImInit, Scan, PoolIsFull, Free
<1>4. \A h \in Held : SockOf(h)' = SockOf(h)
  BY <1>1, <1>3 DEF SockOf
<1>5. QED
  BY <1>1, <1>2, <1>4, QuietSockets DEF Disconnecting

\* A call that neither connects nor disconnects.
LEMMA UseSockets ==
    ASSUME TypeOK, Sockets, NEW t \in Threads, Use(t)
    PROVE  Sockets'
<1> USE DEF TypeOK, Goto, Return, poolVars, history
<1>1. OthersUnchanged(t) /\ UNCHANGED <<pool, sock, fds, dialled, own>>
  BY DEF Use, OthersUnchanged
<1>2. \A h : ~Disconnecting(t, h)
  BY DEF Use, InCall, Exchanges, Settings, Disconnecting
<1>3. pc'[t] # "call"
  BY DEF Use
<1>4. \A h \in Held : SockOf(h)' = SockOf(h)
  BY <1>1 DEF SockOf
<1>5. QED
  BY <1>1, <1>2, <1>3, <1>4, QuietSockets

\* A new session has no socket.
LEMMA SetupSockets ==
    ASSUME TypeOK, PlacesInRange, Ownership, Sockets, NEW t \in Threads, Setup(t)
    PROVE  Sockets'
<1> USE DEF TypeOK, PlacesInRange
<1>1. /\ OthersUnchanged(t) /\ UNCHANGED <<pool, fds, dialled>>
      /\ pc[t] = "setup" /\ pc'[t] = "host"
  BY DEF Setup, OthersUnchanged, Goto, Return, history
<1>2. CASE pool[at[t]] = NULL
  <2>1. UNCHANGED <<sock, own>>
    BY <1>2 DEF Setup
  <2>2. \A h \in Held : SockOf(h)' = SockOf(h)
    BY <1>1, <2>1 DEF SockOf
  <2>3. QED
    BY <1>1, <2>1, <2>2, QuietSockets DEF Disconnecting
<1>3. CASE pool[at[t]] # NULL
  <2> PICK new : new = at[t]
    OBVIOUS
  <2>1. /\ own' = [own EXCEPT ![t] = @ \cup {new}] /\ sock' = [sock EXCEPT ![pool[new]] = 0]
        /\ new \in Handles /\ pool[new] \in Memory
    BY <1>1, <1>3 DEF Setup
  <2>2. own'[t] = own[t] \cup {new} /\ \A u \in Threads \ {t} : own'[u] = own[u]
    BY <2>1
  <2>3. Held' = Held \cup {new}
    BY <2>2 DEF Held
  <2>4. new \notin Held
    BY <1>1 DEF Ownership, OwnIsNotAt, AtPlace, ClaimsApart, Claims, Held
  <2>5. \A g \in Held : pool[g] # pool[new]
    <3>1. new \in Live
      BY <1>1, <1>3, <2>1, ClaimedIsLive DEF Claims
    <3>2. QED
      BY <2>4, <3>1, HeldSessions DEF Ownership, SessionsApart
  <2>6. SockOf(new)' = 0 /\ \A g \in Held : SockOf(g)' = SockOf(g)
    BY <1>1, <2>1, <2>5, HeldSessions DEF SockOf
  <2>7. SocketsAreHeld'
    <3>1. {SockOf(g)' : g \in Held'} = {SockOf(g) : g \in Held} \cup {0}
      BY <2>3, <2>6
    <3>2. QED
      BY <1>1, <3>1 DEF Sockets, SocketsAreHeld
  <2>8. SocketsApart'
    BY <2>3, <2>6, PoolAssumption DEF Sockets, SocketsApart
  <2>9. IdleHasNoSocket' /\ ConnectingIsDialled'
    <3> SUFFICES ASSUME NEW u \in Threads, NEW h \in own'[u]
                 PROVE  /\ ((h \notin dialled /\ ~Disconnecting(u, h)) \/ Connecting(u, h))'
                             => SockOf(h)' \in {0, -1}
                        /\ Connecting(u, h)' => h \in dialled'
      BY DEF IdleHasNoSocket, ConnectingIsDialled
    <3>1. CASE h = new /\ u = t
      BY <1>1, <2>6, <3>1 DEF Connecting
    <3>2. CASE h \in own[u]
      <4>1. h \in Held
        BY <3>2 DEF Held
      <4>2. (Disconnecting(u, h)' <=> Disconnecting(u, h)) /\ (Connecting(u, h)' <=> Connecting(u, h))
        BY <1>1 DEF Disconnecting, Connecting, OthersUnchanged
      <4>3. QED
        BY <1>1, <2>6, <3>2, <4>1, <4>2 DEF Sockets, IdleHasNoSocket, ConnectingIsDialled
    <3>3. QED
      BY <2>2, <3>1, <3>2
  <2>10. QED
    BY <2>7, <2>8, <2>9 DEF Sockets
<1>4. QED
  BY <1>2, <1>3

\* A handle is given back when its session is disconnected.
LEMMA ReleaseSockets ==
    ASSUME TypeOK, Ownership, Sockets, NEW t \in Threads, ImRelease(t), ~untidy'
    PROVE  Sockets'
<1>1. OthersUnchanged(t) /\ UNCHANGED <<pool, sock, fds, op>> /\ pc[t] = "host"
  BY DEF ImRelease, OthersUnchanged, TypeOK, Goto, poolVars
<1>2. PICK h \in own[t] :
          /\ own'[t] = own[t] \ {h} /\ dialled' = dialled \ {h} /\ h \notin dialled
          /\ pc'[t] \in {"host", "free"}
  BY DEF ImRelease, TypeOK, Goto
<1>3. \A g : SockOf(g)' = SockOf(g)
  BY <1>1 DEF SockOf
<1>4. SockOf(h) \in {0, -1}
  BY <1>1, <1>2 DEF Sockets, IdleHasNoSocket, Disconnecting
<1>5. Held' \subseteq Held /\ Held \subseteq Held' \cup {h}
  BY <1>1, <1>2 DEF Held, OthersUnchanged
<1>6. SocketsAreHeld'
  <2>1. {SockOf(g) : g \in Held} \ {0, -1} = {SockOf(g) : g \in Held'} \ {0, -1}
    BY <1>4, <1>5
  <2>2. {SockOf(g)' : g \in Held'} = {SockOf(g) : g \in Held'}
    BY <1>3
  <2>3. QED
    BY <1>1, <2>1, <2>2 DEF Sockets, SocketsAreHeld
<1>7. SocketsApart'
  BY <1>3, <1>5 DEF Sockets, SocketsApart
<1>8. IdleHasNoSocket' /\ ConnectingIsDialled'
  <2> SUFFICES ASSUME NEW u \in Threads, NEW g \in own'[u]
               PROVE  /\ ((g \notin dialled /\ ~Disconnecting(u, g)) \/ Connecting(u, g))'
                           => SockOf(g)' \in {0, -1}
                      /\ Connecting(u, g)' => g \in dialled'
    BY DEF IdleHasNoSocket, ConnectingIsDialled
  <2>1. g \in own[u] /\ g # h
    BY <1>1, <1>2 DEF OthersUnchanged, Ownership, ClaimsApart, Claims
  <2>2. (g \in dialled' <=> g \in dialled)
    BY <1>2, <2>1
  <2>3. (Disconnecting(u, g)' <=> Disconnecting(u, g)) /\ (Connecting(u, g)' <=> Connecting(u, g))
    BY <1>1, <1>2 DEF Disconnecting, Connecting, OthersUnchanged
  <2>4. QED
    BY <1>3, <2>1, <2>2, <2>3 DEF Sockets, IdleHasNoSocket, ConnectingIsDialled
<1>9. QED
  BY <1>6, <1>7, <1>8 DEF Sockets

\* A call begins: a connect only on a session without a socket.
LEMMA LookupSockets ==
    ASSUME TypeOK, Ownership, Sockets, NEW t \in Threads, NEW o \in Ops, Lookup(t, o), ~untidy'
    PROVE  Sockets'
<1>1. OthersUnchanged(t) /\ UNCHANGED <<pool, sock, fds, own>> /\ pc[t] = "host"
  BY DEF Lookup, OthersUnchanged, TypeOK, Goto, poolVars
<1>2. PICK h \in Passed(t) :
          /\ IF h \in Handles /\ pool[h] # NULL
             THEN pc'[t] = "call" /\ at'[t] = h /\ op'[t] = o
             ELSE UNCHANGED pc
          /\ Dialling(o, h)
  BY DEF Lookup, TypeOK, Goto
<1>3. h \in Handles => h \in own[t] /\ pool[h] # NULL
  BY PoolAssumption DEF Passed, Handles, Ownership, HeldHasSession
<1>4. h \notin Handles => UNCHANGED dialled
  BY <1>2 DEF Dialling, TypeOK
<1>5. \A g : g # h => (g \in dialled' <=> g \in dialled)
  BY <1>2 DEF Dialling
<1>6. h \in Handles /\ o \in Connects => h \notin dialled /\ h \in dialled'
  BY <1>2 DEF Dialling
<1>7. \A g : SockOf(g)' = SockOf(g)
  BY <1>1 DEF SockOf
<1>8. Held' = Held
  BY <1>1 DEF Held
<1>9. SocketsAreHeld' /\ SocketsApart'
  <2>1. {SockOf(g)' : g \in Held'} = {SockOf(g) : g \in Held}
    BY <1>7, <1>8
  <2>2. QED
    BY <1>1, <1>7, <1>8, <2>1 DEF Sockets, SocketsAreHeld, SocketsApart
<1>10. ASSUME NEW u \in Threads, NEW g \in own'[u]
       PROVE  /\ ((g \notin dialled /\ ~Disconnecting(u, g)) \/ Connecting(u, g))'
                   => SockOf(g)' \in {0, -1}
              /\ Connecting(u, g)' => g \in dialled'
  <2>1. CASE u = t /\ g = h
    <3>1. h \in Handles /\ h \in own[t] /\ pool[h] # NULL
      BY <1>1, <1>3, <2>1 DEF TypeOK
    <3>2. pc'[t] = "call" /\ at'[t] = h /\ op'[t] = o
      BY <1>1, <1>2, <3>1
    <3>3. h \notin dialled => SockOf(h) \in {0, -1}
      BY <1>1, <3>1 DEF Sockets, IdleHasNoSocket, Disconnecting
    <3>4. o \notin Connects /\ o # "ImDisconnect" => UNCHANGED dialled
      BY <1>2 DEF Dialling
    <3>5. QED
      BY <1>6, <1>7, <2>1, <3>1, <3>2, <3>3, <3>4 DEF Disconnecting, Connecting
  <2>2. CASE ~(u = t /\ g = h)
    <3>1. g \in own[u] /\ (g \in dialled' <=> g \in dialled)
      <4>1. g \in own[u]
        BY <1>1
      <4>2. CASE g # h
        BY <1>5, <4>1, <4>2
      <4>3. CASE g = h
        <5>1. h \in Handles => u = t
          BY <1>3, <4>1, <4>3 DEF Ownership, ClaimsApart, Claims
        <5>2. QED
          BY <1>4, <2>2, <4>1, <4>3, <5>1
      <4>4. QED
        BY <4>2, <4>3
    <3>2. /\ Disconnecting(u, g)' <=> Disconnecting(u, g)
          /\ Connecting(u, g)' <=> Connecting(u, g)
      BY <1>1, <1>2, <2>2 DEF Disconnecting, Connecting, OthersUnchanged
    <3>3. QED
      BY <1>7, <3>1, <3>2 DEF Sockets, IdleHasNoSocket, ConnectingIsDialled
  <2>3. QED
    BY <2>1, <2>2
<1>11. IdleHasNoSocket' /\ ConnectingIsDialled'
  BY <1>10 DEF IdleHasNoSocket, ConnectingIsDialled
<1>12. QED
  BY <1>9, <1>11 DEF Sockets

\* A session that is held, and the one a call works on, in an ImConnect or ImDisconnect.
LEMMA CalledSession ==
    ASSUME TypeOK, Ownership, NEW t \in Threads, pc[t] = "call"
    PROVE  /\ at[t] \in own[t] /\ at[t] \in Held
           /\ ptr[t] = pool[at[t]] /\ ptr[t] \in Memory
           /\ \A g \in Held : g # at[t] => pool[g] # ptr[t]
           /\ \A u \in Threads : at[t] \in own[u] => u = t
<1>1. at[t] \in own[t] /\ ptr[t] = pool[at[t]]
  BY DEF Ownership, CalledIsHeld
<1>2. at[t] \in Held
  BY <1>1 DEF Held
<1>3. \A u \in Threads : at[t] \in own[u] => u = t
  BY <1>1 DEF Ownership, ClaimsApart, Claims
<1>4. QED
  BY <1>1, <1>2, <1>3, HeldSessions

\* The socket of the session that a thread calls with is another.
LEMMA SocketChanged ==
    ASSUME TypeOK, Ownership, NEW t \in Threads, pc[t] = "call", NEW f \in Int,
           sock' = [sock EXCEPT ![ptr[t]] = f], UNCHANGED pool
    PROVE  /\ \A h \in Held : h = at[t] => SockOf(h)' = f
           /\ \A h \in Held : h # at[t] => SockOf(h)' = SockOf(h)
BY CalledSession, HeldSessions DEF SockOf, TypeOK

\* When the call returns, IdleHasNoSocket asks of the session it worked on only that it
\* has no socket if it is not connected.
LEMMA CallReturnsIdle ==
    ASSUME TypeOK, Ownership, Sockets, NEW t \in Threads, pc[t] = "call", pc'[t] # "call",
           OthersUnchanged(t), UNCHANGED <<own, dialled>>,
           \A h \in Held : h # at[t] => SockOf(h)' = SockOf(h),
           at[t] \notin dialled => \A h \in Held : h = at[t] => SockOf(h)' \in {0, -1}
    PROVE  IdleHasNoSocket' /\ ConnectingIsDialled'
<1> SUFFICES ASSUME NEW u \in Threads, NEW g \in own[u]
             PROVE  /\ ((g \notin dialled /\ ~Disconnecting(u, g)) \/ Connecting(u, g))'
                         => SockOf(g)' \in {0, -1}
                    /\ Connecting(u, g)' => g \in dialled'
  BY DEF IdleHasNoSocket, ConnectingIsDialled
<1>1. g \in Held
  BY DEF Held
<1>2. CASE u = t
  <2>1. ~Connecting(u, g)'
    BY <1>2 DEF Connecting
  <2>2. CASE g = at[t]
    BY <1>1, <2>1, <2>2
  <2>3. CASE g # at[t]
    <3>1. ~Disconnecting(u, g)
      BY <1>2, <2>3 DEF Disconnecting
    <3>2. QED
      BY <1>1, <2>1, <2>3, <3>1 DEF Sockets, IdleHasNoSocket
  <2>4. QED
    BY <2>2, <2>3
<1>3. CASE u # t
  <2>1. g # at[t]
    BY <1>3, CalledSession
  <2>2. (Disconnecting(u, g)' <=> Disconnecting(u, g)) /\ (Connecting(u, g)' <=> Connecting(u, g))
    BY <1>3 DEF Disconnecting, Connecting, OthersUnchanged
  <2>3. QED
    BY <1>1, <2>1, <2>2 DEF Sockets, IdleHasNoSocket, ConnectingIsDialled
<1>4. QED
  BY <1>2, <1>3

\* A connect: the session gets a socket that nobody has, or none.
LEMMA ConnectSockets ==
    ASSUME TypeOK, Ownership, Sockets, NEW t \in Threads, Connect(t)
    PROVE  Sockets'
<1>1. OthersUnchanged(t) /\ UNCHANGED <<pool, own, dialled>> /\ pc[t] = "call" /\ pc'[t] = "host"
  BY DEF Connect, InCall, Return, Goto, OthersUnchanged, TypeOK, history
<1>2. PICK c : c = at[t]
  OBVIOUS
<1>3. Connecting(t, c) /\ c \in own[t] /\ c \in Held
  BY <1>1, <1>2, CalledSession DEF Connect, InCall, Connecting
<1>4. SockOf(c) \in {0, -1} /\ c \in dialled
  BY <1>3 DEF Sockets, IdleHasNoSocket, ConnectingIsDialled
<1>5. PICK f \in Int :
          /\ sock' = [sock EXCEPT ![ptr[t]] = f]
          /\ \/ f \in Descriptors /\ f \notin fds /\ fds' = fds \cup {f}
             \/ f = -1 /\ fds' = fds
  BY PoolAssumption DEF Connect
<1>6. SockOf(c)' = f /\ \A h \in Held : h # c => SockOf(h)' = SockOf(h)
  BY <1>1, <1>2, <1>3, <1>5, SocketChanged
<1>7. Held' = Held
  BY <1>1 DEF Held
<1>8. SocketsAreHeld'
  <2>1. {SockOf(h)' : h \in Held'} = {SockOf(h) : h \in Held \ {c}} \cup {f}
    BY <1>3, <1>6, <1>7
  <2>2. {SockOf(h) : h \in Held} \ {0, -1} = {SockOf(h) : h \in Held \ {c}} \ {0, -1}
    BY <1>4
  <2>3. f \in Descriptors => f # 0 /\ f # -1
    BY PoolAssumption
  <2>4. QED
    BY <1>5, <2>1, <2>2, <2>3 DEF Sockets, SocketsAreHeld
<1>9. SocketsApart'
  <2>1. f \in Descriptors => \A h \in Held : SockOf(h) # f
    <3>1. f \in Descriptors => f # 0 /\ f # -1
      BY PoolAssumption
    <3>2. f = -1 => f \notin Descriptors
      BY PoolAssumption
    <3>3. QED
      BY <1>5, <3>1, <3>2 DEF Sockets, SocketsAreHeld
  <2>2. QED
    BY <1>6, <1>7, <2>1 DEF Sockets, SocketsApart
<1>10. IdleHasNoSocket' /\ ConnectingIsDialled'
  BY <1>1, <1>2, <1>4, <1>6, CallReturnsIdle
<1>11. QED
  BY <1>8, <1>9, <1>10 DEF Sockets

\* A disconnect: the session's socket is closed, if it has one.
LEMMA DisconnectSockets ==
    ASSUME TypeOK, Ownership, Sockets, NEW t \in Threads, Disconnect(t)
    PROVE  Sockets'
<1>1. /\ OthersUnchanged(t) /\ UNCHANGED <<pool, own, dialled>>
      /\ pc[t] = "call" /\ pc'[t] = "host"
  BY DEF Disconnect, InCall, Return, Goto, OthersUnchanged, TypeOK, history
<1>2. PICK c : c = at[t]
  OBVIOUS
<1>3. c \in Held /\ SockOf(c) = sock[ptr[t]] /\ SockOf(c) \in Descriptors \cup {0, -1}
  BY <1>1, <1>2, CalledSession DEF SockOf, TypeOK
<1>4. \A h \in Held : SockOf(h) \in Descriptors \cup {0, -1}
  BY HeldSessions DEF SockOf, TypeOK
<1>5. fds' = fds \ {SockOf(c)}
  BY <1>3 DEF Disconnect
<1>6. SockOf(c)' \in {0, -1} /\ \A h \in Held : h # c => SockOf(h)' = SockOf(h)
  <2>1. CASE SockOf(c) > 0
    <3>1. sock' = [sock EXCEPT ![ptr[t]] = 0]
      BY <1>3, <2>1 DEF Disconnect
    <3>2. PICK f \in Int : f = 0
      OBVIOUS
    <3>3. sock' = [sock EXCEPT ![ptr[t]] = f]
      BY <3>1, <3>2
    <3>4. SockOf(c)' = f /\ \A h \in Held : h # c => SockOf(h)' = SockOf(h)
      BY <1>1, <1>2, <1>3, <3>3, SocketChanged
    <3>5. QED
      BY <3>2, <3>4
  <2>2. CASE ~(SockOf(c) > 0)
    <3>1. sock' = sock
      BY <1>3, <2>2 DEF Disconnect
    <3>2. \A h : SockOf(h)' = SockOf(h)
      BY <1>1, <3>1 DEF SockOf
    <3>3. SockOf(c) \in {0, -1}
      <4>1. PICK f : f = SockOf(c)
        OBVIOUS
      <4>2. f \in Descriptors => f > 0
        BY PoolAssumption
      <4>3. f \in {0, -1}
        BY <1>3, <2>2, <4>1, <4>2
      <4>4. QED
        BY <4>1, <4>3
    <3>4. SockOf(c)' = SockOf(c)
      BY <1>1, <3>1 DEF SockOf
    <3>5. QED
      BY <3>2, <3>3, <3>4
  <2>3. QED
    BY <2>1, <2>2
<1>7. Held' = Held
  BY <1>1 DEF Held
<1>8. \A h \in Held \ {c} : SockOf(h) = SockOf(c) => SockOf(h) \in {0, -1}
  BY <1>3 DEF Sockets, SocketsApart
<1>9. SocketsAreHeld'
  <2>1. {SockOf(h)' : h \in Held'} \ {0, -1} = {SockOf(h) : h \in Held \ {c}} \ {0, -1}
    BY <1>3, <1>6, <1>7
  <2>2. {SockOf(h) : h \in Held \ {c}} \ {0, -1} = ({SockOf(h) : h \in Held} \ {0, -1}) \ {SockOf(c)}
    BY <1>3, <1>8
  <2>3. QED
    BY <1>5, <2>1, <2>2 DEF Sockets, SocketsAreHeld
<1>10. SocketsApart'
  <2>1. 0 \notin Descriptors /\ -1 \notin Descriptors
    BY PoolAssumption
  <2>2. QED
    BY <1>6, <1>7, <2>1 DEF Sockets, SocketsApart
<1>11. IdleHasNoSocket' /\ ConnectingIsDialled'
  BY <1>1, <1>2, <1>6, CallReturnsIdle
<1>12. QED
  BY <1>9, <1>10, <1>11 DEF Sockets

\* What a step does to the sockets.
LEMMA SocketsStep ==
    ASSUME TypeOK, PlacesInRange, Ownership, Sockets, NEW t \in Threads, Step(t), ~untidy'
    PROVE  Sockets'
<1>1. CASE ImInit(t) \/ Scan(t) \/ PoolIsFull(t) \/ Take(t) \/ Free(t) \/ Clear(t)
  BY <1>1, TableSockets
<1>2. CASE Setup(t)
  BY <1>2, SetupSockets
<1>3. CASE ImRelease(t)
  BY <1>3, ReleaseSockets
<1>4. ASSUME NEW o \in Ops, Lookup(t, o) PROVE Sockets'
  BY <1>4, LookupSockets
<1>5. CASE Connect(t)
  BY <1>5, ConnectSockets
<1>6. CASE Disconnect(t)
  BY <1>6, DisconnectSockets
<1>7. CASE Use(t)
  BY <1>7, UseSockets
<1>8. QED
  BY <1>1, <1>2, <1>3, <1>4, <1>5, <1>6, <1>7 DEF Step

-----------------------------------------------------------------------------
(* The invariant, and what the pool promises *)

\* Every step of the pool keeps the inductive invariant.
LEMMA PoolStepInv ==
    ASSUME PoolInv, [Next]_vars
    PROVE  PoolInv'
<1>1. ASSUME NEW t \in Threads, Step(t) PROVE PoolInv'
  <2>1. TypeOK' /\ PlacesInRange'
    BY <1>1, TypeStep DEF PoolInv
  <2>2. (~overlap' => ~overlap) /\ (~untidy' => ~untidy)
    BY <1>1, HistoryGrows DEF PoolInv
  <2>3. ~overlap' => Ownership'
    BY <1>1, <2>2, OwnershipStep DEF PoolInv
  <2>4. ~overlap' /\ ~untidy' => Sockets'
    BY <1>1, <2>2, SocketsStep DEF PoolInv
  <2>5. QED
    BY <2>1, <2>3, <2>4 DEF PoolInv
<1>2. CASE UNCHANGED vars
  <2> USE <1>2 DEF vars, poolVars, threadVars, history
  <2>1. TypeOK' /\ PlacesInRange'
    BY DEF PoolInv, TypeOK, PlacesInRange
  <2>2. Ownership => Ownership'
    <3>1. Live' = Live
      BY DEF Live
    <3>2. QED
      BY <3>1 DEF Ownership, OneInInit, ClaimsApart, OwnIsNotAt, FoundFree, HeldHasSession,
         FreedIsAtPlace, CalledIsHeld, SessionsApart, HeapIsLive, InInit, Claims, AtPlace
  <2>3. Sockets => Sockets'
    BY DEF Sockets, IdleHasNoSocket, ConnectingIsDialled, SocketsAreHeld, SocketsApart, Held, SockOf,
       Disconnecting, Connecting
  <2>4. QED
    BY <2>1, <2>2, <2>3 DEF PoolInv
<1>3. QED
  BY <1>1, <1>2 DEF Next

\* The invariant holds in every state of the pool.
THEOREM PoolInvariant == Spec => []PoolInv
<1>1. PoolInv /\ [Next]_vars => PoolInv'
  BY PoolStepInv
<1>2. QED
  BY PoolInit, <1>1, PTL DEF Spec

\* The four promises of the pool follow from its invariant.
LEMMA PoolPromises ==
    ASSUME PoolInv
    PROVE  OnePlaceEach /\ NoUseAfterFree /\ NoSessionLost /\ NoSocketLost
<1>1. OnePlaceEach
  BY DEF PoolInv, Ownership, OnePlaceEach, ClaimsApart, SessionsApart
<1>2. NoSessionLost
  BY DEF PoolInv, Ownership, NoSessionLost, HeapIsLive
<1>3. NoSocketLost
  BY DEF PoolInv, Sockets, NoSocketLost, SocketsAreHeld, SocketsApart, Held, SockOf
<1>4. NoUseAfterFree
  <2> SUFFICES ASSUME ~overlap, NEW t \in Threads, pc[t] \in {"call", "free"}
               PROVE  ptr[t] \in heap
    BY DEF NoUseAfterFree
  <2>1. PICK h : h = at[t]
    OBVIOUS
  <2>2. h \in Handles /\ h \in Claims(t) /\ ptr[t] = pool[h] /\ pool[h] # NULL
    BY <2>1, PoolAssumption DEF PoolInv, TypeOK, PlacesInRange, Ownership, FreedIsAtPlace,
       CalledIsHeld, HeldHasSession, Claims
  <2>3. h \in Live
    BY <2>2, ClaimedIsLive DEF PoolInv
  <2>4. QED
    BY <2>2, <2>3 DEF PoolInv, Ownership, HeapIsLive
<1>5. QED
  BY <1>1, <1>2, <1>3, <1>4

\* sesspool_alloc and sesspool_free, for every schedule in which no two threads are in
\* ImInit together: a place and a session have one owner.
THEOREM PoolOnePlaceEach == Spec => []OnePlaceEach
BY PoolInvariant, PoolPromises, PTL

\* In the same schedules: no call works on a session that was freed, and none is freed twice.
THEOREM PoolNoUseAfterFree == Spec => []NoUseAfterFree
BY PoolInvariant, PoolPromises, PTL

\* In the same schedules: the heap has the sessions of the table, and no others.
THEOREM PoolNoSessionLost == Spec => []NoSessionLost
BY PoolInvariant, PoolPromises, PTL

\* With a host that disconnects what it has connected, too: the open sockets are those
\* of the sessions that are held, one each.
THEOREM PoolNoSocketLost == Spec => []NoSocketLost
BY PoolInvariant, PoolPromises, PTL

-----------------------------------------------------------------------------
(* The Java interface *)

\* Each of its steps is one of the pool, or leaves the pool alone.
LEMMA JavaStepIsPools ==
    ASSUME JNext
    PROVE  [Next]_vars
BY DEF JNext, Next, Step, PoolStep, JSetup, JReturn, JLookup, CallJava

\* The interface is the pool with something added: it implements the pool's specification.
THEOREM JavaIsPool == JSpec => Spec
<1>1. JInit => Init
  BY DEF JInit
<1>2. [JNext]_allVars => [Next]_vars
  BY JavaStepIsPools DEF allVars
<1>3. QED
  BY <1>1, <1>2, PTL DEF JSpec, Spec

\* A session that a host holds has the JNIEnv of the thread that holds it.
OwnsEnv == \A t \in Threads : \A h \in own[t] : host_evn[pool[h]] = t

\* The strings of a call are parameters of that call, those that may not be null among
\* them, and a thread outside of a call has none.
StringsOfCall ==
    /\ \A t \in Threads : pc[t] = "call" =>
          Required(op[t]) \subseteq pinned[t] /\ pinned[t] \subseteq Required(op[t]) \cup Optional(op[t])
    /\ \A t \in Threads : pc[t] # "call" => pinned[t] = {}
    /\ lost \subseteq {"strReturn", "ec_ip"}

JavaInv == PoolInv /\ JTypeOK /\ (~overlap => OwnsEnv) /\ StringsOfCall

\* The strings of a call are among the parameters of all.
LEMMA ParametersOfCall ==
    ASSUME NEW o \in Ops
    PROVE  Required(o) \subseteq Parameters /\ Optional(o) \subseteq Parameters
BY DEF Parameters

\* The address of ImConnectTo is the only string it needs.
LEMMA ConnectToNeeds == Required("ImConnectTo") = {"ec_ip"} /\ "ec_ip" \in Parameters
<1>1. Required("ImConnectTo") = {"ec_ip"}
  BY DEF Required
<1>2. "ImConnectTo" \in Ops
  BY DEF Ops, Connects
<1>3. QED
  BY <1>1, <1>2, ParametersOfCall

\* Before the first call.
LEMMA JavaInit == JInit => JavaInv
<1> SUFFICES ASSUME JInit PROVE JavaInv
  OBVIOUS
<1>1. PoolInv
  BY PoolInit DEF JInit
<1>2. JTypeOK
  BY <1>1 DEF JInit, JTypeOK, PoolInv
<1>3. OwnsEnv /\ StringsOfCall
  BY DEF JInit, Init, OwnsEnv, StringsOfCall
<1>4. QED
  BY <1>1, <1>2, <1>3 DEF JavaInv

\* The table and the places of a thread change only where no host holds the place.
LEMMA HeldKeepSession ==
    ASSUME PoolInv, ~overlap, NEW t \in Threads, Step(t), NEW u \in Threads, NEW h \in own[u]
    PROVE  pool'[h] = pool[h]
<1> USE DEF PoolInv, TypeOK, PlacesInRange
<1>1. CASE Take(t)
  <2>1. h # at[t]
    BY <1>1 DEF Take, Ownership, FoundFree, HeldHasSession
  <2>2. QED
    BY <1>1, <2>1 DEF Take
<1>2. CASE Clear(t)
  <2>1. h # at[t]
    BY <1>2 DEF Clear, Ownership, OwnIsNotAt, AtPlace, ClaimsApart, Claims
  <2>2. QED
    BY <1>2, <2>1 DEF Clear
<1>3. CASE \E o \in Ops : Lookup(t, o)
  BY <1>3 DEF Lookup, poolVars
<1>4. QED
  BY <1>1, <1>2, <1>3 DEF Step, ImInit, Scan, PoolIsFull, Setup, ImRelease, Free, Connect, Disconnect,
     Use, poolVars

\* The JNIEnvs that the interface keeps, under a step that adds no session.
LEMMA KeptEnv ==
    ASSUME PoolInv, ~overlap, OwnsEnv, NEW t \in Threads, Step(t), ~Setup(t), UNCHANGED host_evn
    PROVE  OwnsEnv'
<1>1. \A u \in Threads : own'[u] \subseteq own[u]
  BY DEF Step, ImInit, Scan, PoolIsFull, Take, ImRelease, Free, Clear, Lookup, Connect, Disconnect, Use,
     PoolInv, TypeOK
<1>2. \A u \in Threads : \A h \in own[u] : pool'[h] = pool[h]
  BY HeldKeepSession
<1>3. QED
  BY <1>1, <1>2 DEF OwnsEnv

\* ImInit notes its own JNIEnv in a session that no other handle leads to.
LEMMA SetupEnv ==
    ASSUME JavaInv, ~overlap, NEW t \in Threads, JSetup(t)
    PROVE  OwnsEnv'
<1> USE DEF JavaInv, PoolInv, TypeOK, JTypeOK, PlacesInRange
<1>1. pc[t] = "setup" /\ UNCHANGED pool
  BY DEF JSetup, Setup
<1>2. CASE pool[at[t]] = NULL
  BY <1>1, <1>2 DEF JSetup, Setup, OwnsEnv
<1>3. CASE pool[at[t]] # NULL
  <2> PICK new : new = at[t]
    OBVIOUS
  <2>1. /\ own' = [own EXCEPT ![t] = @ \cup {new}] /\ host_evn' = [host_evn EXCEPT ![pool[new]] = t]
        /\ new \in Handles /\ pool[new] \in Memory
    BY <1>1, <1>3 DEF JSetup, Setup
  <2>2. own'[t] = own[t] \cup {new} /\ \A u \in Threads \ {t} : own'[u] = own[u]
    BY <2>1
  <2>3. \A u \in Threads : new \notin own[u]
    BY <1>1 DEF Ownership, OwnIsNotAt, AtPlace, ClaimsApart, Claims
  <2>4. new \in Live
    BY <1>1, <1>3, <2>1, ClaimedIsLive DEF Claims
  <2>5. \A g \in Held : pool[g] \in Memory /\ pool[g] # pool[new]
    BY <2>3, <2>4, HeldSessions DEF Ownership, SessionsApart, Held
  <2>6. host_evn'[pool[new]] = t /\ \A g \in Held : host_evn'[pool[g]] = host_evn[pool[g]]
    BY <2>1, <2>5
  <2>7. QED
    BY <1>1, <2>2, <2>6 DEF OwnsEnv, Held
<1>4. QED
  BY <1>2, <1>3

\* Every step of the interface keeps to the strings of the call.
LEMMA StringsStep ==
    ASSUME JavaInv, JNext
    PROVE  JTypeOK' /\ StringsOfCall'
<1> USE DEF JavaInv, JTypeOK, PoolInv, TypeOK, StringsOfCall
<1>1. TypeOK'
  BY PoolStepInv, JavaStepIsPools
<1>2. ASSUME NEW t \in Threads, PoolStep(t) \/ JSetup(t)
      PROVE  JTypeOK' /\ StringsOfCall'
  <2>1. UNCHANGED <<pinned, lost>> /\ \A u \in Threads : pc[u] = "call" <=> pc'[u] = "call"
    BY <1>2 DEF PoolStep, JSetup, javaVars, ImInit, Scan, PoolIsFull, Take, Setup, ImRelease, Free, Clear,
       Goto, Return
  <2>2. \A u \in Threads : pc[u] = "call" => op'[u] = op[u]
    BY <1>2 DEF PoolStep, JSetup, ImInit, Scan, PoolIsFull, Take, Setup, ImRelease, Free, Clear, Goto, Return
  <2>3. host_evn' \in [Memory -> Threads \cup {NoEnv}] /\ callbacks' \in [Memory -> BOOLEAN]
    <3>1. CASE PoolStep(t)
      BY <3>1 DEF PoolStep, javaVars
    <3>2. CASE JSetup(t)
      <4>1. CASE pool[at[t]] = NULL
        BY <3>2, <4>1 DEF JSetup
      <4>2. CASE pool[at[t]] # NULL
        <5>1. host_evn' = [host_evn EXCEPT ![pool[at[t]]] = t]
          BY <3>2, <4>2 DEF JSetup
        <5>2. callbacks' = [callbacks EXCEPT ![pool[at[t]]] = FALSE]
          BY <3>2, <4>2 DEF JSetup
        <5>3. QED
          BY <5>1, <5>2
      <4>3. QED
        BY <4>1, <4>2
    <3>3. QED
      BY <1>2, <3>1, <3>2
  <2>4. QED
    BY <1>1, <2>1, <2>2, <2>3
<1>3. ASSUME NEW t \in Threads, JReturn(t)
      PROVE  JTypeOK' /\ StringsOfCall'
  <2>1. /\ pc[t] = "call" /\ pc' = [pc EXCEPT ![t] = "host"]
        /\ \A u \in Threads \ {t} : op'[u] = op[u]
    BY <1>3 DEF JReturn, Connect, Disconnect, Use, InCall, Return, Goto
  <2>2. pinned' = [pinned EXCEPT ![t] = {}] /\ lost' = lost /\ UNCHANGED host_evn
    BY <1>3, <2>1 DEF JReturn, Release
  <2>3. callbacks' \in [Memory -> BOOLEAN]
    BY <1>3 DEF JReturn
  <2>4. QED
    BY <1>1, <2>1, <2>2, <2>3
<1>4. ASSUME NEW t \in Threads, NEW o \in Ops, JLookup(t, o)
      PROVE  JTypeOK' /\ StringsOfCall'
  <2>1. UNCHANGED <<host_evn, callbacks>>
    BY <1>4 DEF JLookup
  <2>2. CASE pc'[t] = "call"
    <3>1. /\ UNCHANGED lost /\ pc[t] = "host"
          /\ \A u \in Threads \ {t} : pc'[u] = pc[u] /\ op'[u] = op[u]
          /\ op'[t] = o
      BY <1>4, <2>2 DEF JLookup, Lookup, Goto
    <3>2. PICK S \in SUBSET Optional(o) : pinned' = [pinned EXCEPT ![t] = Required(o) \cup S]
      BY <1>4, <2>2 DEF JLookup
    <3>3. pinned'[t] = Required(o) \cup S /\ \A u \in Threads \ {t} : pinned'[u] = pinned[u]
      BY <3>2
    <3>4. pinned' \in [Threads -> SUBSET Parameters]
      BY <3>2, ParametersOfCall
    <3>5. QED
      BY <1>1, <2>1, <2>2, <3>1, <3>3, <3>4
  <2>3. CASE pc'[t] # "call"
    <3>1. UNCHANGED <<pc, op, pinned>>
      BY <1>4, <2>3 DEF JLookup, Lookup, Goto
    <3>2. lost' \subseteq lost \cup {"ec_ip"}
      BY <1>4, <2>3, ConnectToNeeds DEF JLookup
    <3>3. QED
      BY <1>1, <2>1, <3>1, <3>2, ConnectToNeeds
  <2>4. QED
    BY <2>2, <2>3
<1>5. ASSUME NEW t \in Threads, NEW kind, CallJava(t, kind)
      PROVE  JTypeOK' /\ StringsOfCall'
  BY <1>1, <1>5 DEF CallJava, Answered, vars, threadVars
<1>6. QED
  BY <1>2, <1>3, <1>4, <1>5 DEF JNext

\* Every step of the Java interface keeps the inductive invariant.
LEMMA JavaStepInv ==
    ASSUME JavaInv, [JNext]_allVars
    PROVE  JavaInv'
<1>1. CASE JNext
  <2>1. PoolInv'
    BY <1>1, PoolStepInv, JavaStepIsPools DEF JavaInv
  <2>2. JTypeOK' /\ StringsOfCall'
    BY <1>1, StringsStep
  <2>3. ASSUME ~overlap' PROVE OwnsEnv'
    <3> PICK t \in Threads : \/ PoolStep(t) \/ JSetup(t) \/ JReturn(t)
                             \/ \E o \in Ops : JLookup(t, o)
                             \/ \E kind \in {"number", "string", "integer", "float", "boolean", "end"} :
                                   CallJava(t, kind)
      BY <1>1 DEF JNext
    <3>1. CASE PoolStep(t) \/ JReturn(t) \/ \E o \in Ops : JLookup(t, o)
      <4>1. Step(t) /\ UNCHANGED host_evn
        BY <3>1 DEF PoolStep, JReturn, JLookup, Step, javaVars
      <4>2. ~Setup(t)
        BY <3>1 DEF Setup, PoolStep, JReturn, JLookup, Lookup, ImInit, Scan, PoolIsFull, Take, ImRelease,
           Free, Clear, Connect, Disconnect, Use, InCall, JavaInv, PoolInv, TypeOK, Goto, Return
      <4>3. ~overlap
        BY <2>3, <4>1, HistoryGrows DEF JavaInv, PoolInv
      <4>4. QED
        BY <4>1, <4>2, <4>3, KeptEnv DEF JavaInv
    <3>2. CASE JSetup(t)
      BY <2>3, <3>2, SetupEnv DEF JSetup, Setup, history
    <3>3. CASE \E kind \in {"number", "string", "integer", "float", "boolean", "end"} : CallJava(t, kind)
      BY <2>3, <3>3 DEF CallJava, vars, poolVars, threadVars, history, JavaInv, OwnsEnv
    <3>4. QED
      BY <3>1, <3>2, <3>3
  <2>4. QED
    BY <2>1, <2>2, <2>3 DEF JavaInv
<1>2. CASE UNCHANGED allVars
  <2>1. PoolInv'
    BY <1>2, PoolStepInv DEF allVars, JavaInv
  <2>2. QED
    BY <1>2, <2>1 DEF allVars, javaVars, vars, poolVars, threadVars, history, JavaInv, JTypeOK, PoolInv,
       OwnsEnv, StringsOfCall
<1>3. QED
  BY <1>1, <1>2

\* The invariant holds in every state of the Java interface.
THEOREM JavaInvariant == JSpec => []JavaInv
<1>1. JavaInv /\ [JNext]_allVars => JavaInv'
  BY JavaStepInv
<1>2. QED
  BY JavaInit, <1>1, PTL DEF JSpec

\* What the runs check follows from the inductive invariant.
LEMMA JavaPromises == ASSUME JavaInv PROVE JTypeOK /\ OwnEnv /\ StringsReleased
<1>1. OwnEnv
  <2> SUFFICES ASSUME ~overlap, NEW t \in Threads, InCallback(t) PROVE host_evn[ptr[t]] = t
    BY DEF OwnEnv
  <2>1. pc[t] = "call"
    BY DEF InCallback, InCall
  <2>2. QED
    BY <2>1 DEF JavaInv, PoolInv, Ownership, CalledIsHeld, OwnsEnv
<1>2. StringsReleased
  BY DEF JavaInv, StringsOfCall, StringsReleased
<1>3. QED
  BY <1>1, <1>2 DEF JavaInv

\* The variables of the native methods have the values their types allow.
THEOREM JavaTypeOK == JSpec => []JTypeOK
BY JavaInvariant, JavaPromises, PTL

\* A callback calls Java with the JNIEnv of the thread it runs in.
THEOREM JavaOwnEnv == JSpec => []OwnEnv
BY JavaInvariant, JavaPromises, PTL

\* Each native method gives back the strings it has pinned, but for the two that never are.
THEOREM JavaStringsReleased == JSpec => []StringsReleased
BY JavaInvariant, JavaPromises, PTL

\* What the pool promises, it promises in the Java interface.
THEOREM JavaKeepsPool == JSpec => [](OnePlaceEach /\ NoUseAfterFree /\ NoSessionLost /\ NoSocketLost)
<1>1. JavaInv => PoolInv
  BY DEF JavaInv
<1>2. QED
  BY <1>1, JavaInvariant, PoolPromises, PTL
=============================================================================
