--------------------------- MODULE HttpServerProofs ---------------------------
(***************************************************************************)
(* Proofs about HttpServer, for any threads, accounts and bounds: its      *)
(* types, that a transaction comes to its COMMIT with the statements of    *)
(* one request, that nobody waits on everybody, that an administrator      *)
(* stays, that the audit log tells what became of an account, and that     *)
(* tokens keep their owner.                                                *)
(***************************************************************************)
EXTENDS HttpServer, SequenceTheorems, TLAPS

\* What a thread may have left to do: outside backendMutex, under it alone, under
\* it and storeMutex in a transaction, and under both without one.
Outside ==
    {<<>>, <<"log">>, RideRequest, StatusRequest, CancelRequest, ResetRequest,
     ActiveRequest, CreateRequest}

UnderBackend ==
    {<<"find", "begin", "commit", "unlock_backend">>,
     <<"find", "begin", "commit", "unlock_backend", "log">>,
     <<"begin", "commit", "unlock_backend">>,
     <<"begin", "commit", "unlock_backend", "log">>,
     <<"unlock_backend">>, <<"unlock_backend", "log">>,
     <<"clear", "unlock_backend", "log">>,
     <<"lock_store", "write", "unlock_store", "write", "insert", "unlock_backend">>,
     <<"write", "insert", "unlock_backend">>, <<"insert", "unlock_backend">>}

Saving == {<<"commit", "unlock_backend">>, <<"commit", "unlock_backend", "log">>}

UnderBoth ==
    {<<"write", "unlock_store", "write", "insert", "unlock_backend">>,
     <<"unlock_store", "write", "insert", "unlock_backend">>}

Administering == {ActiveRequest, CreateRequest}

Places == Outside \cup UnderBackend \cup Saving \cup UnderBoth

\* Where a thread stands is which mutexes it holds.
MutexInv ==
    /\ \A th \in Threads : threads[th].todo \in Places
    /\ \A th \in Threads :
          backendMutex = th <=> threads[th].todo \in UnderBackend \cup Saving \cup UnderBoth
    /\ \A th \in Threads : storeMutex = th <=> threads[th].todo \in Saving \cup UnderBoth
    /\ \A th \in Threads : threads[th].todo \in Saving => inTransaction = {th}

\* An account changes by the hand of an administrator, and not his own.
ActorInv ==
    \A th \in Threads :
        IF threads[th].todo \in Administering
        THEN /\ threads[th].actor \in Accounts
             /\ RoleOf[threads[th].actor] = "admin"
             /\ threads[th].target \in Accounts
             /\ threads[th].to \in {"active", "inactive"}
             /\ NotOneself(threads[th].actor, threads[th].target, threads[th].to)
             /\ threads[th].todo = CreateRequest => threads[th].to = "active"
        ELSE /\ threads[th].actor = Nobody
             /\ threads[th].target \in Accounts =>
                   /\ threads[th].todo = <<"log">>
                   /\ threads[th].to \in {"active", "inactive"}

\* Who still has a row to write about an account will write the truth, and is
\* the only one, unless the account is excused.
OwesInv ==
    \A e \in Accounts \ excused :
        /\ \A th \in Threads :
              Owes(th, e) => e \in DOMAIN users /\ users[e] = threads[th].to
        /\ \A th, other \in Threads : Owes(th, e) /\ Owes(other, e) => th = other

IInv == TypeOK /\ MutexInv /\ ActorInv /\ OwesInv /\ AuditTellsState /\ SomeAdminActive

-----------------------------------------------------------------------------
(* Tuples *)

\* What is left of a tuple without its head.
LEMMA TailOfTuple ==
    /\ \A a : Tail(<<a>>) = <<>>
    /\ \A a, b : Tail(<<a, b>>) = <<b>>
    /\ \A a, b, c : Tail(<<a, b, c>>) = <<b, c>>
    /\ \A a, b, c, d : Tail(<<a, b, c, d>>) = <<b, c, d>>
    /\ \A a, b, c, d, e : Tail(<<a, b, c, d, e>>) = <<b, c, d, e>>
    /\ \A a, b, c, d, e, f : Tail(<<a, b, c, d, e, f>>) = <<b, c, d, e, f>>
    /\ \A a, b, c, d, e, f, g : Tail(<<a, b, c, d, e, f, g>>) = <<b, c, d, e, f, g>>
<1>1. \A a : Tail(<<a>>) = <<>>
    OBVIOUS
<1>2. \A a, b : Tail(<<a, b>>) = <<b>>
    OBVIOUS
<1>3. \A a, b, c : Tail(<<a, b, c>>) = <<b, c>>
    OBVIOUS
<1>4. \A a, b, c, d : Tail(<<a, b, c, d>>) = <<b, c, d>>
    OBVIOUS
<1>5. \A a, b, c, d, e : Tail(<<a, b, c, d, e>>) = <<b, c, d, e>>
    OBVIOUS
<1>6. \A a, b, c, d, e, f : Tail(<<a, b, c, d, e, f>>) = <<b, c, d, e, f>>
    OBVIOUS
<1>7. \A a, b, c, d, e, f, g : Tail(<<a, b, c, d, e, f, g>>) = <<b, c, d, e, f, g>>
    OBVIOUS
<1> QED
    BY <1>1, <1>2, <1>3, <1>4, <1>5, <1>6, <1>7

\* Concatenations of short tuples, of which the requests are made.
LEMMA ConcatOfTuples ==
    /\ \A a, b : <<a>> \o <<b>> = <<a, b>>
    /\ \A a, b, c : <<a>> \o <<b, c>> = <<a, b, c>>
    /\ \A a, b, c, d : <<a>> \o <<b, c, d>> = <<a, b, c, d>>
    /\ \A a, b, c, d, e, f : <<a>> \o <<b, c, d, e, f>> = <<a, b, c, d, e, f>>
    /\ \A a, b, c : <<a, b>> \o <<c>> = <<a, b, c>>
    /\ \A a, b, c, d : <<a, b, c>> \o <<d>> = <<a, b, c, d>>
    /\ \A a, b, c, d, e : <<a, b, c, d>> \o <<e>> = <<a, b, c, d, e>>
    /\ \A a, b, c, d, e, f : <<a, b, c, d, e>> \o <<f>> = <<a, b, c, d, e, f>>
    /\ \A a, b, c, d, e, f, g : <<a, b, c, d, e, f>> \o <<g>> = <<a, b, c, d, e, f, g>>
<1>1. ASSUME NEW a, NEW b
     PROVE  <<a>> \o <<b>> = <<a, b>>
    <2> DEFINE S == {a, b}
    <2>1. <<a>> \o <<b>> \in Seq(S) /\ <<a, b>> \in Seq(S)
        OBVIOUS
    <2>2. Len(<<a>> \o <<b>>) = 2
        OBVIOUS
    <2>3. \A i \in 1 .. 2 : (<<a>> \o <<b>>)[i] = <<a, b>>[i]
        OBVIOUS
    <2> QED
        BY <2>1, <2>2, <2>3, SeqEqual
<1>2. ASSUME NEW a, NEW b, NEW c
     PROVE  <<a>> \o <<b, c>> = <<a, b, c>>
    <2> DEFINE S == {a, b, c}
    <2>1. <<a>> \o <<b, c>> \in Seq(S) /\ <<a, b, c>> \in Seq(S)
        OBVIOUS
    <2>2. Len(<<a>> \o <<b, c>>) = 3
        OBVIOUS
    <2>3. \A i \in 1 .. 3 : (<<a>> \o <<b, c>>)[i] = <<a, b, c>>[i]
        OBVIOUS
    <2> QED
        BY <2>1, <2>2, <2>3, SeqEqual
<1>3. ASSUME NEW a, NEW b, NEW c, NEW d
     PROVE  <<a>> \o <<b, c, d>> = <<a, b, c, d>>
    <2> DEFINE S == {a, b, c, d}
    <2>1. <<a>> \o <<b, c, d>> \in Seq(S) /\ <<a, b, c, d>> \in Seq(S)
        OBVIOUS
    <2>2. Len(<<a>> \o <<b, c, d>>) = 4
        OBVIOUS
    <2>3. \A i \in 1 .. 4 : (<<a>> \o <<b, c, d>>)[i] = <<a, b, c, d>>[i]
        OBVIOUS
    <2> QED
        BY <2>1, <2>2, <2>3, SeqEqual
<1>4. ASSUME NEW a, NEW b, NEW c, NEW d, NEW e, NEW f
     PROVE  <<a>> \o <<b, c, d, e, f>> = <<a, b, c, d, e, f>>
    <2> DEFINE S == {a, b, c, d, e, f}
    <2>1. <<a>> \o <<b, c, d, e, f>> \in Seq(S) /\ <<a, b, c, d, e, f>> \in Seq(S)
        OBVIOUS
    <2>2. Len(<<a>> \o <<b, c, d, e, f>>) = 6
        OBVIOUS
    <2>3. \A i \in 1 .. 6 : (<<a>> \o <<b, c, d, e, f>>)[i] = <<a, b, c, d, e, f>>[i]
        OBVIOUS
    <2> QED
        BY <2>1, <2>2, <2>3, SeqEqual
<1>5. ASSUME NEW a, NEW b, NEW c
     PROVE  <<a, b>> \o <<c>> = <<a, b, c>>
    <2> DEFINE S == {a, b, c}
    <2>1. <<a, b>> \o <<c>> \in Seq(S) /\ <<a, b, c>> \in Seq(S)
        OBVIOUS
    <2>2. Len(<<a, b>> \o <<c>>) = 3
        OBVIOUS
    <2>3. \A i \in 1 .. 3 : (<<a, b>> \o <<c>>)[i] = <<a, b, c>>[i]
        OBVIOUS
    <2> QED
        BY <2>1, <2>2, <2>3, SeqEqual
<1>6. ASSUME NEW a, NEW b, NEW c, NEW d
     PROVE  <<a, b, c>> \o <<d>> = <<a, b, c, d>>
    <2> DEFINE S == {a, b, c, d}
    <2>1. <<a, b, c>> \o <<d>> \in Seq(S) /\ <<a, b, c, d>> \in Seq(S)
        OBVIOUS
    <2>2. Len(<<a, b, c>> \o <<d>>) = 4
        OBVIOUS
    <2>3. \A i \in 1 .. 4 : (<<a, b, c>> \o <<d>>)[i] = <<a, b, c, d>>[i]
        OBVIOUS
    <2> QED
        BY <2>1, <2>2, <2>3, SeqEqual
<1>7. ASSUME NEW a, NEW b, NEW c, NEW d, NEW e
     PROVE  <<a, b, c, d>> \o <<e>> = <<a, b, c, d, e>>
    <2> DEFINE S == {a, b, c, d, e}
    <2>1. <<a, b, c, d>> \o <<e>> \in Seq(S) /\ <<a, b, c, d, e>> \in Seq(S)
        OBVIOUS
    <2>2. Len(<<a, b, c, d>> \o <<e>>) = 5
        OBVIOUS
    <2>3. \A i \in 1 .. 5 : (<<a, b, c, d>> \o <<e>>)[i] = <<a, b, c, d, e>>[i]
        OBVIOUS
    <2> QED
        BY <2>1, <2>2, <2>3, SeqEqual
<1>8. ASSUME NEW a, NEW b, NEW c, NEW d, NEW e, NEW f
     PROVE  <<a, b, c, d, e>> \o <<f>> = <<a, b, c, d, e, f>>
    <2> DEFINE S == {a, b, c, d, e, f}
    <2>1. <<a, b, c, d, e>> \o <<f>> \in Seq(S) /\ <<a, b, c, d, e, f>> \in Seq(S)
        OBVIOUS
    <2>2. Len(<<a, b, c, d, e>> \o <<f>>) = 6
        OBVIOUS
    <2>3. \A i \in 1 .. 6 : (<<a, b, c, d, e>> \o <<f>>)[i] = <<a, b, c, d, e, f>>[i]
        OBVIOUS
    <2> QED
        BY <2>1, <2>2, <2>3, SeqEqual
<1>9. ASSUME NEW a, NEW b, NEW c, NEW d, NEW e, NEW f, NEW g
     PROVE  <<a, b, c, d, e, f>> \o <<g>> = <<a, b, c, d, e, f, g>>
    <2> DEFINE S == {a, b, c, d, e, f, g}
    <2>1. <<a, b, c, d, e, f>> \o <<g>> \in Seq(S) /\ <<a, b, c, d, e, f, g>> \in Seq(S)
        OBVIOUS
    <2>2. Len(<<a, b, c, d, e, f>> \o <<g>>) = 7
        OBVIOUS
    <2>3. \A i \in 1 .. 7 : (<<a, b, c, d, e, f>> \o <<g>>)[i] = <<a, b, c, d, e, f, g>>[i]
        OBVIOUS
    <2> QED
        BY <2>1, <2>2, <2>3, SeqEqual
<1> QED
    BY <1>1, <1>2, <1>3, <1>4, <1>5, <1>6, <1>7, <1>8, <1>9

-----------------------------------------------------------------------------
(* What is left of a request after its next step *)

LEMMA RequestsAre ==
    /\ RideRequest = <<"lock_backend", "find", "begin", "commit", "unlock_backend">>
    /\ CancelRequest = <<"lock_backend", "find", "begin", "commit", "unlock_backend", "log">>
    /\ ResetRequest = <<"lock_backend", "clear", "unlock_backend", "log">>
    /\ StatusRequest = <<"lock_backend", "lock_store", "write", "unlock_store", "write",
                         "insert", "unlock_backend">>
<1>1. <<"find">> \o <<"begin", "commit">> = <<"find", "begin", "commit">>
    BY ConcatOfTuples
<1>2. <<"lock_backend">> \o <<"find", "begin", "commit">>
        = <<"lock_backend", "find", "begin", "commit">>
    BY ConcatOfTuples
<1>3. <<"lock_backend", "find", "begin", "commit">> \o <<"unlock_backend">>
        = <<"lock_backend", "find", "begin", "commit", "unlock_backend">>
    BY ConcatOfTuples
<1>4. RideRequest = <<"lock_backend", "find", "begin", "commit", "unlock_backend">>
    BY <1>1, <1>2, <1>3 DEF RideRequest, Backend, SaveRide
<1>5. <<"lock_backend", "find", "begin", "commit", "unlock_backend">> \o <<"log">>
        = <<"lock_backend", "find", "begin", "commit", "unlock_backend", "log">>
    BY ConcatOfTuples
<1>6. CancelRequest
        = <<"lock_backend", "find", "begin", "commit", "unlock_backend", "log">>
    BY <1>4, <1>5 DEF CancelRequest, RideRequest
<1>7. <<"lock_backend">> \o <<"clear">> = <<"lock_backend", "clear">>
    BY ConcatOfTuples
<1>8. <<"lock_backend", "clear">> \o <<"unlock_backend">>
        = <<"lock_backend", "clear", "unlock_backend">>
    BY ConcatOfTuples
<1>9. <<"lock_backend", "clear", "unlock_backend">> \o <<"log">>
        = <<"lock_backend", "clear", "unlock_backend", "log">>
    BY ConcatOfTuples
<1>10. ResetRequest = <<"lock_backend", "clear", "unlock_backend", "log">>
    BY <1>7, <1>8, <1>9 DEF ResetRequest, Backend
<1>11. <<"lock_store">> \o <<"write">> = <<"lock_store", "write">>
    BY ConcatOfTuples
<1>12. <<"lock_store", "write">> \o <<"unlock_store">>
         = <<"lock_store", "write", "unlock_store">>
    BY ConcatOfTuples
<1>13. GetDriverProfile = <<"lock_store", "write", "unlock_store">>
    BY <1>11, <1>12 DEF GetDriverProfile, SaveDriverProfile
<1>14. <<"lock_store", "write", "unlock_store">> \o <<"write">>
         = <<"lock_store", "write", "unlock_store", "write">>
    BY ConcatOfTuples
<1>15. <<"lock_store", "write", "unlock_store", "write">> \o <<"insert">>
         = <<"lock_store", "write", "unlock_store", "write", "insert">>
    BY ConcatOfTuples
<1>16. <<"lock_backend">> \o <<"lock_store", "write", "unlock_store", "write", "insert">>
         = <<"lock_backend", "lock_store", "write", "unlock_store", "write", "insert">>
    BY ConcatOfTuples
<1>17. <<"lock_backend", "lock_store", "write", "unlock_store", "write", "insert">> \o <<"unlock_backend">>
         = <<"lock_backend", "lock_store", "write", "unlock_store", "write", "insert", "unlock_backend">>
    BY ConcatOfTuples
<1>18. StatusRequest
         = <<"lock_backend", "lock_store", "write", "unlock_store", "write", "insert", "unlock_backend">>
    BY <1>13, <1>14, <1>15, <1>16, <1>17 DEF StatusRequest, SaveDriverProfile, Backend
<1> QED
    BY <1>4, <1>6, <1>10, <1>18

\* The places are sequences of instructions, and apart.
LEMMA PlacesAreTodos == Places \subseteq Seq(Instructions)
BY RequestsAre DEF Places, Outside, UnderBackend, Saving, UnderBoth, ActiveRequest,
    CreateRequest, Instructions

LEMMA PlacesApart ==
    /\ Outside \cap (UnderBackend \cup Saving \cup UnderBoth) = {}
    /\ UnderBackend \cap (Saving \cup UnderBoth) = {}
    /\ Saving \cap UnderBoth = {}
    /\ <<>> \notin Administering /\ <<"log">> \notin Administering
    /\ Administering \subseteq Outside
    /\ {RideRequest, StatusRequest, CancelRequest, ResetRequest} \cap Administering = {}
<1>1. \A s \in Outside : s = <<>> \/ Head(s) \in {"lock_backend", "log", "update", "register"}
    BY RequestsAre DEF Outside, ActiveRequest, CreateRequest
<1>2. \A s \in UnderBackend :
        /\ s # <<>>
        /\ \/ Head(s) \in {"find", "begin", "unlock_backend", "clear", "lock_store", "insert"}
           \/ Head(s) = "write" /\ Len(s) = 3
    BY DEF UnderBackend
<1>3. \A s \in Saving : s # <<>> /\ Head(s) = "commit"
    BY DEF Saving
<1>4. \A s \in UnderBoth :
        s # <<>> /\ (Head(s) = "unlock_store" \/ (Head(s) = "write" /\ Len(s) = 5))
    BY DEF UnderBoth
<1>5. <<>> \notin Administering /\ <<"log">> \notin Administering /\ Administering \subseteq Outside
    BY DEF Administering, Outside, ActiveRequest, CreateRequest
<1>6. {RideRequest, StatusRequest, CancelRequest, ResetRequest} \cap Administering = {}
    BY RequestsAre DEF Administering, ActiveRequest, CreateRequest
<1> QED
    BY <1>1, <1>2, <1>3, <1>4, <1>5, <1>6

\* Where the next step of each place leads.
LEMMA NextPlace ==
    ASSUME NEW s \in Places, s # <<>>
    PROVE  /\ Head(s) = "lock_backend" => s \in Outside \ Administering /\ Tail(s) \in UnderBackend
           /\ Head(s) = "unlock_backend" => s \in UnderBackend /\ Tail(s) \in {<<>>, <<"log">>}
           /\ Head(s) = "lock_store" => s \in UnderBackend /\ Tail(s) \in UnderBoth
           /\ Head(s) = "unlock_store" => s \in UnderBoth /\ Tail(s) \in UnderBackend
           /\ Head(s) = "find" => s \in UnderBackend /\ Tail(s) \in UnderBackend
           /\ Head(s) = "begin" =>
                 s \in UnderBackend /\ Tail(s) \in Saving /\ Tail(Tail(s)) \in UnderBackend
           /\ Head(s) = "commit" => s \in Saving /\ Tail(s) \in UnderBackend
           /\ Head(s) = "write" => \/ s \in UnderBackend /\ Tail(s) \in UnderBackend
                                   \/ s \in UnderBoth /\ Tail(s) \in UnderBoth
           /\ Head(s) \in {"insert", "clear"} => s \in UnderBackend /\ Tail(s) \in UnderBackend
           /\ Head(s) \in {"update", "register"} => s \in Administering /\ Tail(s) = <<"log">>
           /\ Head(s) = "log" => s = <<"log">> /\ Tail(s) = <<>>
<1> USE TailOfTuple, RequestsAre DEF Outside, UnderBackend, Saving, UnderBoth, Administering,
        ActiveRequest, CreateRequest
<1>1. CASE s \in Outside
    <2>1. CASE s = <<"log">>
        BY <2>1
    <2>2. CASE s = RideRequest
        BY <2>2
    <2>3. CASE s = StatusRequest
        BY <2>3
    <2>4. CASE s = CancelRequest
        BY <2>4
    <2>5. CASE s = ResetRequest
        BY <2>5
    <2>6. CASE s = ActiveRequest
        BY <2>6
    <2>7. CASE s = CreateRequest
        BY <2>7
    <2> QED
        BY <1>1, <2>1, <2>2, <2>3, <2>4, <2>5, <2>6, <2>7
<1>2. CASE s \in UnderBackend
    <2>1. CASE s = <<"find", "begin", "commit", "unlock_backend">>
        BY <2>1
    <2>2. CASE s = <<"find", "begin", "commit", "unlock_backend", "log">>
        BY <2>2
    <2>3. CASE s = <<"begin", "commit", "unlock_backend">>
        BY <2>3
    <2>4. CASE s = <<"begin", "commit", "unlock_backend", "log">>
        BY <2>4
    <2>5. CASE s = <<"unlock_backend">>
        BY <2>5
    <2>6. CASE s = <<"unlock_backend", "log">>
        BY <2>6
    <2>7. CASE s = <<"clear", "unlock_backend", "log">>
        BY <2>7
    <2>8. CASE s = <<"lock_store", "write", "unlock_store", "write", "insert", "unlock_backend">>
        BY <2>8
    <2>9. CASE s = <<"write", "insert", "unlock_backend">>
        BY <2>9
    <2>10. CASE s = <<"insert", "unlock_backend">>
        BY <2>10
    <2> QED
        BY <1>2, <2>1, <2>2, <2>3, <2>4, <2>5, <2>6, <2>7, <2>8, <2>9, <2>10
<1>3. CASE s \in Saving
    <2>1. CASE s = <<"commit", "unlock_backend">>
        BY <2>1
    <2>2. CASE s = <<"commit", "unlock_backend", "log">>
        BY <2>2
    <2> QED
        BY <1>3, <2>1, <2>2
<1>4. CASE s \in UnderBoth
    <2>1. CASE s = <<"write", "unlock_store", "write", "insert", "unlock_backend">>
        BY <2>1
    <2>2. CASE s = <<"unlock_store", "write", "insert", "unlock_backend">>
        BY <2>2
    <2> QED
        BY <1>4, <2>1, <2>2
<1> QED
    BY <1>1, <1>2, <1>3, <1>4 DEF Places

LEMMA OutsideHas == <<>> \in Outside /\ <<"log">> \in Outside
BY DEF Outside

-----------------------------------------------------------------------------
(* Types *)

LEMMA TodoTypes ==
    /\ Idle \in RequestType
    /\ {RideRequest, StatusRequest, CancelRequest, ResetRequest} \subseteq Seq(Instructions)
    /\ {ActiveRequest, CreateRequest} \subseteq Seq(Instructions)
<1>1. Places \subseteq Seq(Instructions)
    BY PlacesAreTodos
<1> QED
    BY <1>1 DEF Idle, RequestType, Places, Outside

\* The thread that makes a step, and the others.
LEMMA AfterLeft ==
    ASSUME threads \in [Threads -> RequestType], NEW th \in Threads,
           NEW todo \in Seq(Instructions), Left(th, todo)
    PROVE  /\ threads' \in [Threads -> RequestType]
           /\ \A other \in Threads : other # th => threads'[other] = threads[other]
           /\ threads'[th].todo = todo
           /\ todo = <<>> => threads'[th] = Idle
           /\ todo # <<>> =>
                 /\ threads'[th].actor = threads[th].actor
                 /\ threads'[th].target = threads[th].target
                 /\ threads'[th].to = threads[th].to
<1>1. CASE todo = <<>>
    BY <1>1, TodoTypes DEF Left, Idle
<1>2. CASE todo # <<>>
    BY <1>2 DEF Left, RequestType
<1> QED
    BY <1>1, <1>2

LEMMA AfterDone ==
    ASSUME threads \in [Threads -> RequestType], NEW th \in Threads,
           threads[th].todo # <<>>, Done(th)
    PROVE  /\ threads' \in [Threads -> RequestType]
           /\ \A other \in Threads : other # th => threads'[other] = threads[other]
           /\ threads'[th].todo = Tail(threads[th].todo)
           /\ threads'[th].todo = <<>> => threads'[th] = Idle
           /\ threads'[th].todo # <<>> =>
                 /\ threads'[th].actor = threads[th].actor
                 /\ threads'[th].target = threads[th].target
                 /\ threads'[th].to = threads[th].to
<1>1. threads[th].todo \in Seq(Instructions)
    BY DEF RequestType
<1>2. Tail(threads[th].todo) \in Seq(Instructions)
    BY <1>1
<1>3. Left(th, Tail(threads[th].todo))
    BY DEF Done
<1> HIDE DEF Done
<1> QED
    BY <1>2, <1>3, AfterLeft

LEMMA AfterCarries ==
    ASSUME threads \in [Threads -> RequestType], NEW th \in Threads,
           threads[th].todo # <<>>, Carries(th)
    PROVE  /\ threads' \in [Threads -> RequestType]
           /\ \A other \in Threads : other # th => threads'[other] = threads[other]
           /\ threads'[th].todo = Tail(threads[th].todo)
           /\ threads'[th].actor = Nobody
           /\ threads'[th].target = threads[th].target
           /\ threads'[th].to = threads[th].to
<1>1. Tail(threads[th].todo) \in Seq(Instructions)
    BY DEF RequestType
<1> QED
    BY <1>1 DEF Carries, RequestType

\* A step of a handler finds the thread at a place.
LEMMA DoingPlace ==
    ASSUME MutexInv, NEW th \in Threads, NEW what, Doing(th, what)
    PROVE  threads[th].todo \in Places /\ threads[th].todo # <<>> /\ Head(threads[th].todo) = what
BY DEF MutexInv, Doing

LEMMA AccountsType ==
    ASSUME SessionsTypeOK, NEW e \in Accounts,
           \/ RegisterAccount(e)
           \/ \E to \in {"active", "inactive"} : SetAccountActive(e, to),
           UNCHANGED session
    PROVE  SessionsTypeOK'
<1>1. CASE RegisterAccount(e)
    BY <1>1 DEF SessionsTypeOK, session, RegisterAccount
<1>2. CASE \E to \in {"active", "inactive"} : SetAccountActive(e, to)
    BY <1>2 DEF SessionsTypeOK, session, SetAccountActive
<1> QED
    BY <1>1, <1>2

LEMMA LoginTypeOK == ASSUME TypeOK, NEW e \in Accounts, Login(e) PROVE TypeOK'
<1>1. SessionsTypeOK'
    <2> USE SessionsAssumption DEF TypeOK, SessionsTypeOK, Login, Authenticate, NewToken, IsActive
    <2>1. NewToken \in 1 .. MaxSessions
        OBVIOUS
    <2>2. DOMAIN sessionToEmail' = DOMAIN sessionToEmail \cup {NewToken}
        OBVIOUS
    <2>3. \A t \in DOMAIN sessionToEmail' : sessionToEmail'[t] \in DOMAIN users
        OBVIOUS
    <2> QED
        BY <2>1, <2>2, <2>3
<1> QED
    BY <1>1 DEF TypeOK, Login, Authenticate, Unlocked, locks

LEMMA LogoutTypeOK ==
    ASSUME TypeOK, NEW t \in DOMAIN sessionToEmail, LogoutRequest(t) PROVE TypeOK'
BY DEF TypeOK, SessionsTypeOK, LogoutRequest, Logout, Unlocked, locks

LEMMA RegisterTypeOK == ASSUME TypeOK, NEW e \in Accounts, Register(e) PROVE TypeOK'
<1>1. SessionsTypeOK'
    BY AccountsType DEF TypeOK, Register
<1> QED
    BY <1>1 DEF TypeOK, Register, Unlocked, locks

LEMMA ServeTypeOK ==
    ASSUME TypeOK, NEW th \in Threads, NEW request \in RequestType, Serve(th, request)
    PROVE  TypeOK'
BY DEF TypeOK, Serve, locks, session, SessionsTypeOK

LEMMA HandlerTypeOK ==
    ASSUME TypeOK, MutexInv, ActorInv, NEW th \in Threads, HandlerStep(th)
    PROVE  TypeOK'
<1> USE DEF TypeOK, locks, session, SessionsTypeOK
<1>1. ASSUME threads[th].todo # <<>>, Done(th)
      PROVE  threads' \in [Threads -> RequestType]
    BY <1>1, AfterDone
<1>2. CASE LockBackend(th)
    BY <1>1, <1>2 DEF LockBackend, Doing
<1>3. CASE UnlockBackend(th)
    BY <1>1, <1>3 DEF UnlockBackend, Doing
<1>4. CASE LockStore(th)
    BY <1>1, <1>4 DEF LockStore, Doing
<1>5. CASE UnlockStore(th)
    BY <1>1, <1>5 DEF UnlockStore, Doing
<1>6. CASE Begin(th)
    BY <1>1, <1>6 DEF Begin, Doing
<1>7. CASE Commit(th)
    BY <1>1, <1>7 DEF Commit, Doing
<1>8. CASE Write(th)
    BY <1>1, <1>8 DEF Write, Joins, Doing
<1>9. CASE Insert(th)
    BY <1>1, <1>9 DEF Insert, Joins, Doing
<1>10. CASE Clear(th)
    BY <1>1, <1>10 DEF Clear, Joins, Doing
<1>11. CASE Log(th)
    <2>1. /\ auditTable' \in [Accounts -> {"none", "active", "inactive"}]
          /\ excused' \subseteq Accounts
        BY <1>11 DEF Log, RowWritten, RowLost, RequestType
    <2> QED
        BY <1>1, <1>11, <2>1 DEF Log, Joins, Doing
<1>12. CASE Find(th)
    <2>1. <<"unlock_backend">> \in Seq(Instructions)
        BY DEF Instructions
    <2> QED
        BY <1>1, <1>12, <2>1, AfterLeft DEF Find, Doing
<1>13. CASE UpdateUser(th)
    <2>1. threads[th].target \in Accounts /\ threads[th].to \in {"active", "inactive"}
        BY <1>13, NextPlace, DoingPlace DEF UpdateUser, ActorInv
    <2>2. SessionsTypeOK'
        BY <1>13, <2>1, AccountsType DEF UpdateUser
    <2>3. threads' \in [Threads -> RequestType]
        BY <1>13, AfterCarries DEF UpdateUser, Doing
    <2> QED
        BY <1>13, <2>1, <2>2, <2>3 DEF UpdateUser, Carries
<1>14. CASE RegisterUser(th)
    <2>1. threads[th].target \in Accounts
        BY <1>14, NextPlace, DoingPlace DEF RegisterUser, ActorInv
    <2>2. SessionsTypeOK'
        BY <1>14, <2>1, AccountsType DEF RegisterUser
    <2>3. threads' \in [Threads -> RequestType]
        BY <1>14, AfterCarries DEF RegisterUser, Doing
    <2> QED
        BY <1>14, <2>1, <2>2, <2>3 DEF RegisterUser, Carries
<1>15. CASE UserRefused(th)
    <2>1. <<>> \in Seq(Instructions)
        OBVIOUS
    <2> QED
        BY <1>15, <2>1, AfterLeft DEF UserRefused, AfterRefusal
<1>16. CASE BeginThrows(th)
    <2>1. Tail(Tail(threads[th].todo)) \in Seq(Instructions)
        BY <1>16, DoingPlace, NextPlace, PlacesAreTodos DEF BeginThrows, Places
    <2> QED
        BY <1>16, <2>1, AfterLeft DEF BeginThrows
<1>17. CASE CommitThrows(th)
    BY <1>1, <1>17 DEF CommitThrows, Doing
<1>18. CASE ClearThrows(th)
    <2>1. <<"unlock_backend">> \in Seq(Instructions)
        BY DEF Instructions
    <2>2. threads' \in [Threads -> RequestType]
        BY <1>18, <2>1, AfterLeft DEF ClearThrows
    <2> QED
        BY <1>18, <2>2 DEF ClearThrows, Joins
<1> QED
    BY <1>2, <1>3, <1>4, <1>5, <1>6, <1>7, <1>8, <1>9, <1>10, <1>11, <1>12, <1>13, <1>14, <1>15,
       <1>16, <1>17, <1>18 DEF HandlerStep

LEMMA RestartTypeOK == ASSUME TypeOK, Restart PROVE TypeOK'
<1>1. SessionsTypeOK'
    BY SessionsAssumption DEF TypeOK, Restart, RestartAuthStore, SessionsTypeOK
<1>2. threads' \in [Threads -> RequestType]
    BY TodoTypes DEF Restart
<1>3. auditTable' = auditTable /\ late' = late /\ excused' \subseteq Accounts
    BY DEF TypeOK, Restart
<1> QED
    BY <1>1, <1>2, <1>3 DEF TypeOK, Restart

-----------------------------------------------------------------------------
(* The mutexes *)

\* A step of a thread that leaves the other threads where they are.
LEMMA MutexStep ==
    ASSUME MutexInv, NEW th \in Threads,
           \A other \in Threads : other # th => threads'[other].todo = threads[other].todo,
           threads'[th].todo \in Places,
           LET before == threads[th].todo
               after == threads'[th].todo
               under == UnderBackend \cup Saving \cup UnderBoth
           IN
           /\ \/ before \in under /\ after \in under /\ backendMutex' = backendMutex
              \/ before \notin under /\ after \notin under /\ backendMutex' = backendMutex
              \/ before \notin under /\ after \in under /\ backendMutex = Nobody
                    /\ backendMutex' = th
              \/ before \in under /\ after \notin under /\ backendMutex' = Nobody
           /\ \/ before \in Saving /\ after \in Saving /\ storeMutex' = storeMutex
              \/ before \in UnderBoth /\ after \in UnderBoth /\ storeMutex' = storeMutex
              \/ before \notin Saving \cup UnderBoth /\ after \notin Saving \cup UnderBoth
                    /\ storeMutex' = storeMutex
              \/ before \notin Saving \cup UnderBoth /\ after \in Saving \cup UnderBoth
                    /\ storeMutex = Nobody /\ storeMutex' = th
              \/ before \in Saving \cup UnderBoth /\ after \notin Saving \cup UnderBoth
                    /\ storeMutex' = Nobody,
           \A t \in Threads : threads'[t].todo \in Saving => inTransaction' = {t}
    PROVE  MutexInv'
<1> DEFINE under == UnderBackend \cup Saving \cup UnderBoth
<1>1. Nobody \notin Threads
    BY ThreadsAssumption
<1>2. \A t \in Threads : threads'[t].todo \in Places
    BY DEF MutexInv
<1>3. \A t \in Threads : backendMutex' = t <=> threads'[t].todo \in under
    BY <1>1 DEF MutexInv
<1>4. \A t \in Threads : storeMutex' = t <=> threads'[t].todo \in Saving \cup UnderBoth
    BY <1>1 DEF MutexInv
<1> QED
    BY <1>2, <1>3, <1>4 DEF MutexInv

LEMMA HandlerMutexInv ==
    ASSUME TypeOK, MutexInv, NEW th \in Threads, HandlerStep(th)
    PROVE  MutexInv'
<1> DEFINE before == threads[th].todo
           after == threads'[th].todo
<1> USE PlacesApart
<1>1. Nobody \notin Threads
    BY ThreadsAssumption
<1>2. threads \in [Threads -> RequestType] /\ <<>> \in Seq(Instructions)
    BY DEF TypeOK
<1>3. storeMutex \in {Nobody, th} => \A other \in Threads \ {th} : threads[other].todo \notin Saving
    BY <1>1 DEF MutexInv
<1>4. backendMutex = th => \A other \in Threads \ {th} : threads[other].todo \notin Saving
    BY <1>1 DEF MutexInv
<1>5. \A s \in {<<>>, <<"log">>} : s \in Outside
    BY DEF Outside
<1>6. \A what : Doing(th, what) =>
          before \in Places /\ before # <<>> /\ Head(before) = what
    BY DoingPlace
<1>7. ASSUME NEW what, Doing(th, what), Done(th)
      PROVE  /\ \A other \in Threads : other # th => threads'[other].todo = threads[other].todo
             /\ after = Tail(before)
    BY <1>2, <1>6, <1>7, AfterDone
<1>8. CASE LockBackend(th)
    <2>1. Doing(th, "lock_backend") /\ Done(th)
        BY <1>8 DEF LockBackend
    <2>2. before \in Outside /\ after \in UnderBackend
        BY <1>5, <1>6, <1>7, <2>1, NextPlace
    <2>3. \A t \in Threads : threads'[t].todo \in Saving => inTransaction' = {t}
        BY <1>8, <1>3, <1>4, <1>7, <2>1, <2>2 DEF LockBackend, MutexInv
    <2> QED
        BY <1>8, <1>7, <2>1, <2>2, <2>3, MutexStep DEF LockBackend, Places
<1>9. CASE UnlockBackend(th)
    <2>1. Doing(th, "unlock_backend") /\ Done(th)
        BY <1>9 DEF UnlockBackend
    <2>2. before \in UnderBackend /\ after \in Outside
        BY <1>5, <1>6, <1>7, <2>1, NextPlace
    <2>3. \A t \in Threads : threads'[t].todo \in Saving => inTransaction' = {t}
        BY <1>9, <1>3, <1>4, <1>7, <2>1, <2>2 DEF UnlockBackend, MutexInv
    <2> QED
        BY <1>9, <1>7, <2>1, <2>2, <2>3, MutexStep DEF UnlockBackend, Places
<1>10. CASE LockStore(th)
    <2>1. Doing(th, "lock_store") /\ Done(th)
        BY <1>10 DEF LockStore
    <2>2. before \in UnderBackend /\ after \in UnderBoth
        BY <1>5, <1>6, <1>7, <2>1, NextPlace
    <2>3. \A t \in Threads : threads'[t].todo \in Saving => inTransaction' = {t}
        BY <1>10, <1>3, <1>4, <1>7, <2>1, <2>2 DEF LockStore, MutexInv
    <2> QED
        BY <1>10, <1>7, <2>1, <2>2, <2>3, MutexStep DEF LockStore, Places
<1>11. CASE UnlockStore(th)
    <2>1. Doing(th, "unlock_store") /\ Done(th)
        BY <1>11 DEF UnlockStore
    <2>2. before \in UnderBoth /\ after \in UnderBackend
        BY <1>5, <1>6, <1>7, <2>1, NextPlace
    <2>3. \A t \in Threads : threads'[t].todo \in Saving => inTransaction' = {t}
        BY <1>11, <1>3, <1>4, <1>7, <2>1, <2>2 DEF UnlockStore, MutexInv
    <2> QED
        BY <1>11, <1>7, <2>1, <2>2, <2>3, MutexStep DEF UnlockStore, Places
<1>12. CASE Begin(th)
    <2>1. Doing(th, "begin") /\ Done(th)
        BY <1>12 DEF Begin
    <2>2. before \in UnderBackend /\ after \in Saving
        BY <1>5, <1>6, <1>7, <2>1, NextPlace
    <2>3. \A t \in Threads : threads'[t].todo \in Saving => inTransaction' = {t}
        BY <1>12, <1>3, <1>4, <1>7, <2>1, <2>2 DEF Begin, MutexInv
    <2> QED
        BY <1>12, <1>7, <2>1, <2>2, <2>3, MutexStep DEF Begin, Places
<1>13. CASE Commit(th)
    <2>1. Doing(th, "commit") /\ Done(th)
        BY <1>13 DEF Commit
    <2>2. before \in Saving /\ after \in UnderBackend
        BY <1>5, <1>6, <1>7, <2>1, NextPlace
    <2>3. \A t \in Threads : threads'[t].todo \in Saving => inTransaction' = {t}
        BY <1>13, <1>3, <1>4, <1>7, <2>1, <2>2 DEF Commit, MutexInv
    <2> QED
        BY <1>13, <1>7, <2>1, <2>2, <2>3, MutexStep DEF Commit, Places
<1>14. CASE Insert(th)
    <2>1. Doing(th, "insert") /\ Done(th)
        BY <1>14 DEF Insert
    <2>2. before \in UnderBackend /\ after \in UnderBackend
        BY <1>5, <1>6, <1>7, <2>1, NextPlace
    <2>3. \A t \in Threads : threads'[t].todo \in Saving => inTransaction' = {t}
        BY <1>14, <1>3, <1>4, <1>7, <2>1, <2>2 DEF Insert, MutexInv, Joins, StoreFree
    <2> QED
        BY <1>14, <1>7, <2>1, <2>2, <2>3, MutexStep DEF Insert, Places, locks
<1>15. CASE Clear(th)
    <2>1. Doing(th, "clear") /\ Done(th)
        BY <1>15 DEF Clear
    <2>2. before \in UnderBackend /\ after \in UnderBackend
        BY <1>5, <1>6, <1>7, <2>1, NextPlace
    <2>3. \A t \in Threads : threads'[t].todo \in Saving => inTransaction' = {t}
        BY <1>15, <1>3, <1>4, <1>7, <2>1, <2>2 DEF Clear, MutexInv, Joins, StoreFree
    <2> QED
        BY <1>15, <1>7, <2>1, <2>2, <2>3, MutexStep DEF Clear, Places, locks
<1>16. CASE Log(th)
    <2>1. Doing(th, "log") /\ Done(th)
        BY <1>16 DEF Log
    <2>2. before \in Outside /\ after \in Outside
        BY <1>5, <1>6, <1>7, <2>1, NextPlace DEF Outside
    <2>3. \A t \in Threads : threads'[t].todo \in Saving => inTransaction' = {t}
        BY <1>16, <1>3, <1>4, <1>7, <2>1, <2>2 DEF Log, MutexInv, Joins, StoreFree
    <2> QED
        BY <1>16, <1>7, <2>1, <2>2, <2>3, MutexStep DEF Log, Places, locks
<1>17. CASE Write(th)
    <2>1. Doing(th, "write") /\ Done(th)
        BY <1>17 DEF Write
    <2>2. \/ before \in UnderBackend /\ after \in UnderBackend
          \/ before \in UnderBoth /\ after \in UnderBoth
        BY <1>6, <1>7, <2>1, NextPlace
    <2>3. \A t \in Threads : threads'[t].todo \in Saving => inTransaction' = {t}
        BY <1>17, <1>4, <1>7, <2>1, <2>2 DEF Write, MutexInv, Joins
    <2> QED
        BY <1>17, <1>7, <2>1, <2>2, <2>3, MutexStep DEF Write, Places, locks
<1>18. CASE Find(th)
    <2>1. Doing(th, "find") /\ before \in UnderBackend
        BY <1>18, <1>6, NextPlace DEF Find
    <2>2. /\ \A other \in Threads : other # th => threads'[other].todo = threads[other].todo
          /\ after \in UnderBackend
        <3>1. CASE Done(th)
            BY <1>6, <1>7, <2>1, <3>1, NextPlace
        <3>2. CASE Left(th, <<"unlock_backend">>)
            <4>1. <<"unlock_backend">> \in UnderBackend /\ <<"unlock_backend">> \in Seq(Instructions)
                BY DEF UnderBackend, Instructions
            <4> QED
                BY <1>2, <3>2, <4>1, AfterLeft
        <3> QED
            BY <1>18, <3>1, <3>2 DEF Find
    <2>3. \A t \in Threads : threads'[t].todo \in Saving => inTransaction' = {t}
        BY <1>18, <2>1, <2>2 DEF Find, MutexInv
    <2> QED
        BY <1>18, <2>1, <2>2, <2>3, MutexStep DEF Find, Places, locks
<1>19. CASE UpdateUser(th) \/ RegisterUser(th) \/ UserRefused(th)
    <2>1. before \in Outside
        BY <1>19, <1>6, NextPlace DEF UpdateUser, RegisterUser, UserRefused
    <2>2. /\ \A other \in Threads : other # th => threads'[other].todo = threads[other].todo
          /\ after \in Outside
        <3>1. CASE UpdateUser(th) \/ RegisterUser(th)
            <4>1. Tail(before) \in Outside
                BY <1>5, <1>6, <3>1, NextPlace DEF UpdateUser, RegisterUser
            <4> QED
                BY <1>2, <1>6, <3>1, <4>1, AfterCarries DEF UpdateUser, RegisterUser
        <3>2. CASE UserRefused(th)
            BY <1>2, <1>5, <3>2, AfterLeft DEF UserRefused, AfterRefusal
        <3> QED
            BY <1>19, <3>1, <3>2
    <2>3. UNCHANGED <<backendMutex, storeMutex, inTransaction>>
        BY <1>19 DEF UpdateUser, RegisterUser, UserRefused, locks
    <2>4. \A t \in Threads : threads'[t].todo \in Saving => inTransaction' = {t}
        BY <2>1, <2>2, <2>3 DEF MutexInv
    <2> QED
        BY <2>1, <2>2, <2>3, <2>4, MutexStep DEF Places
<1>20. CASE BeginThrows(th)
    <2>1. Doing(th, "begin") /\ Left(th, Tail(Tail(before)))
        BY <1>20 DEF BeginThrows
    <2>2. before \in UnderBackend /\ Tail(Tail(before)) \in UnderBackend
        BY <1>6, <2>1, NextPlace
    <2>3. Tail(Tail(before)) \in Seq(Instructions)
        BY <2>2, PlacesAreTodos DEF Places
    <2>4. /\ \A other \in Threads : other # th => threads'[other].todo = threads[other].todo
          /\ after \in UnderBackend
        BY <1>2, <2>1, <2>2, <2>3, AfterLeft
    <2>5. \A t \in Threads : threads'[t].todo \in Saving => inTransaction' = {t}
        BY <1>20, <2>4 DEF BeginThrows, MutexInv
    <2> QED
        BY <1>20, <2>2, <2>4, <2>5, MutexStep DEF BeginThrows, Places, locks
<1>21. CASE CommitThrows(th)
    <2>1. Doing(th, "commit") /\ Done(th)
        BY <1>21 DEF CommitThrows
    <2>2. before \in Saving /\ after \in UnderBackend
        BY <1>5, <1>6, <1>7, <2>1, NextPlace
    <2>3. \A t \in Threads : threads'[t].todo \in Saving => inTransaction' = {t}
        BY <1>3, <1>7, <2>1, <2>2 DEF MutexInv
    <2> QED
        BY <1>21, <1>7, <2>1, <2>2, <2>3, MutexStep DEF CommitThrows, Places
<1>22. CASE ClearThrows(th)
    <2>1. Doing(th, "clear") /\ Left(th, <<"unlock_backend">>)
        BY <1>22 DEF ClearThrows
    <2>2. before \in UnderBackend /\ <<"unlock_backend">> \in UnderBackend
        BY <1>6, <2>1, NextPlace DEF UnderBackend
    <2>3. <<"unlock_backend">> \in Seq(Instructions)
        BY DEF Instructions
    <2>4. /\ \A other \in Threads : other # th => threads'[other].todo = threads[other].todo
          /\ after \in UnderBackend
        BY <1>2, <2>1, <2>2, <2>3, AfterLeft
    <2>5. \A t \in Threads : threads'[t].todo \in Saving => inTransaction' = {t}
        BY <1>22, <1>3, <2>4 DEF ClearThrows, StoreFree
    <2> QED
        BY <1>22, <2>2, <2>4, <2>5, MutexStep DEF ClearThrows, Places, locks
<1> QED
    BY <1>8, <1>9, <1>10, <1>11, <1>12, <1>13, <1>14, <1>15, <1>16, <1>17, <1>18, <1>19, <1>20,
       <1>21, <1>22 DEF HandlerStep

LEMMA ServeMutexInv ==
    ASSUME TypeOK, MutexInv, NEW th \in Threads, NEW request \in RequestType,
           request.todo \in Outside, Serve(th, request)
    PROVE  MutexInv'
<1>1. threads[th].todo \in Outside
    BY DEF Serve, Idle, Outside
<1>2. threads'[th].todo \in Outside
    BY DEF Serve, TypeOK
<1>3. \A other \in Threads : other # th => threads'[other].todo = threads[other].todo
    BY DEF Serve, TypeOK
<1>4. UNCHANGED <<backendMutex, storeMutex, inTransaction>>
    BY DEF Serve, locks
<1>5. \A t \in Threads : threads'[t].todo \in Saving => inTransaction' = {t}
    BY <1>1, <1>2, <1>3, <1>4, PlacesApart DEF MutexInv
<1> QED
    BY <1>1, <1>2, <1>3, <1>4, <1>5, PlacesApart, MutexStep DEF Places

LEMMA RestartMutexInv == ASSUME TypeOK, Restart PROVE MutexInv'
<1>1. \A th \in Threads : threads'[th].todo = <<>>
    BY DEF Restart, Idle
<1>2. <<>> \in Outside
    BY DEF Outside
<1> QED
    BY <1>1, <1>2, ThreadsAssumption, PlacesApart DEF Restart, MutexInv, Places

-----------------------------------------------------------------------------
(* Who changes accounts *)

LEMMA HandlerActorInv ==
    ASSUME TypeOK, MutexInv, ActorInv, NEW th \in Threads, HandlerStep(th)
    PROVE  ActorInv'
<1> DEFINE before == threads[th].todo
           after == threads'[th].todo
<1> USE PlacesApart
<1>1. threads \in [Threads -> RequestType] /\ <<>> \in Seq(Instructions)
    BY DEF TypeOK
<1>2. \A what : Doing(th, what) =>
          before \in Places /\ before # <<>> /\ Head(before) = what
    BY DoingPlace
<1>3. ASSUME NEW todo \in Seq(Instructions), Left(th, todo), todo \notin Administering,
             threads[th].actor = Nobody \/ todo = <<>>,
             before # <<"log">>,
             before \notin Administering \/ todo = <<>>
      PROVE  ActorInv'
    BY <1>1, <1>3, AfterLeft, ThreadsAssumption DEF ActorInv, Idle
<1>4. ASSUME NEW what, Doing(th, what), Done(th),
             what \in {"lock_backend", "unlock_backend", "lock_store", "unlock_store", "find",
                       "begin", "commit", "write", "insert", "clear"}
      PROVE  ActorInv'
    <2>1. before \in Places /\ before # <<>> /\ Head(before) = what /\ after = Tail(before)
        BY <1>1, <1>2, <1>4, AfterDone
    <2>2. Head(<<"log">>) = "log"
        OBVIOUS
    <2>3. /\ before \in (Outside \ Administering) \cup UnderBackend \cup Saving \cup UnderBoth
          /\ after \in UnderBackend \cup Saving \cup UnderBoth \cup {<<>>, <<"log">>}
        BY <1>4, <2>1, NextPlace
    <2>4. before \notin Administering /\ before # <<"log">> /\ after \notin Administering
        BY <1>4, <2>1, <2>2, <2>3
    <2>5. Tail(before) \in Seq(Instructions) /\ Left(th, Tail(before))
        BY <1>1, <1>4, <2>1 DEF RequestType, Done
    <2> QED
        BY <1>3, <2>1, <2>4, <2>5 DEF ActorInv
<1>5. CASE Log(th)
    <2>1. before # <<>> /\ Tail(before) = <<>> /\ Done(th)
        BY <1>2, <1>5, NextPlace DEF Log
    <2>2. threads'[th].todo = <<>>
        BY <1>1, <2>1, AfterDone
    <2>3. /\ threads'[th] = Idle
          /\ \A other \in Threads : other # th => threads'[other] = threads[other]
        BY <1>1, <2>1, <2>2, AfterDone
    <2> QED
        BY <2>3, ThreadsAssumption DEF ActorInv, Idle
<1>6. CASE Find(th)
    <2>1. <<"unlock_backend">> \in Seq(Instructions) /\ <<"unlock_backend">> \notin Administering
        BY DEF Instructions, Administering, ActiveRequest, CreateRequest
    <2>2. Doing(th, "find") /\ before \notin Administering /\ before # <<"log">>
        BY <1>2, <1>6, NextPlace DEF Find
    <2> QED
        BY <1>3, <1>4, <1>6, <2>1, <2>2 DEF Find, ActorInv
<1>7. CASE UpdateUser(th) \/ RegisterUser(th)
    <2>1. before \in Administering /\ Tail(before) = <<"log">> /\ before # <<>>
        BY <1>2, <1>7, NextPlace DEF UpdateUser, RegisterUser
    <2>2. /\ \A other \in Threads : other # th => threads'[other] = threads[other]
          /\ threads'[th].todo = <<"log">> /\ threads'[th].actor = Nobody
          /\ threads'[th].to = threads[th].to
        BY <1>1, <1>7, <2>1, AfterCarries DEF UpdateUser, RegisterUser
    <2> QED
        BY <2>1, <2>2 DEF ActorInv
<1>8. CASE UserRefused(th)
    <2>1. before # <<"log">>
        BY <1>2, <1>8, NextPlace DEF UserRefused
    <2> QED
        BY <1>1, <1>3, <1>8, <2>1 DEF UserRefused, AfterRefusal
<1>9. CASE BeginThrows(th)
    <2>1. /\ before \in UnderBackend /\ Tail(Tail(before)) \in UnderBackend
          /\ Left(th, Tail(Tail(before)))
        BY <1>2, <1>9, NextPlace DEF BeginThrows
    <2>2. Tail(Tail(before)) \in Seq(Instructions)
        BY <2>1, PlacesAreTodos DEF Places
    <2>3. UnderBackend \cap Administering = {} /\ before # <<"log">>
        BY <2>1, OutsideHas
    <2> QED
        BY <1>3, <2>1, <2>2, <2>3 DEF ActorInv
<1>10. CASE ClearThrows(th)
    <2>1. <<"unlock_backend">> \in Seq(Instructions) /\ <<"unlock_backend">> \notin Administering
        BY DEF Instructions, Administering, ActiveRequest, CreateRequest
    <2>2. Doing(th, "clear") /\ before \notin Administering /\ before # <<"log">>
        BY <1>2, <1>10, NextPlace, OutsideHas DEF ClearThrows
    <2> QED
        BY <1>3, <1>10, <2>1, <2>2 DEF ClearThrows, ActorInv
<1> QED
    BY <1>4, <1>5, <1>6, <1>7, <1>8, <1>9, <1>10
       DEF HandlerStep, LockBackend, UnlockBackend, LockStore, UnlockStore, Begin, Commit,
           CommitThrows, Write, Insert, Clear

\* The requests that clients make.
Requests(e) ==
    {Request(todo) : todo \in {RideRequest, StatusRequest, CancelRequest, ResetRequest}} \cup
    {r \in RequestType :
        /\ r.todo \in Administering
        /\ r.actor = e /\ RoleOf[e] = "admin"
        /\ r.target \in Accounts
        /\ r.to \in {"active", "inactive"}
        /\ NotOneself(e, r.target, r.to)
        /\ r.todo = CreateRequest => r.to = "active"}

LEMMA ServeActorInv ==
    ASSUME TypeOK, ActorInv, NEW th \in Threads, NEW e \in Accounts,
           NEW request \in Requests(e), Serve(th, request)
    PROVE  ActorInv'
<1>1. \A other \in Threads : other # th => threads'[other] = threads[other]
    BY DEF Serve, TypeOK
<1>2. threads'[th] = request
    BY DEF Serve, TypeOK
<1>3. CASE request.todo \in Administering
    <2>1. request \notin {Request(todo) : todo \in {RideRequest, StatusRequest, CancelRequest,
                                                    ResetRequest}}
        BY <1>3, PlacesApart DEF Request, Idle
    <2> QED
        BY <1>1, <1>2, <1>3, <2>1 DEF Requests, ActorInv
<1>4. CASE request.todo \notin Administering
    <2>1. request.actor = Nobody /\ request.target = Nobody
        BY <1>4 DEF Requests, Request, Idle
    <2> QED
        BY <1>1, <1>2, <1>4, <2>1, ThreadsAssumption DEF ActorInv
<1> QED
    BY <1>3, <1>4

LEMMA RequestsFromClients ==
    ASSUME TypeOK, NEW th \in Threads, NEW e \in Accounts,
           \/ RideOrDrive(th, e)
           \/ Administer(th, e)
           \/ \E target \in Managed :
                 \/ CreateUser(th, e, target)
                 \/ \E to \in {"active", "inactive"} : SetUserActive(th, e, target, to)
    PROVE  \E request \in RequestType :
              /\ request \in Requests(e) /\ request.todo \in Outside
              /\ Serve(th, request)
<1>1. CASE RideOrDrive(th, e) \/ Administer(th, e)
    <2>1. PICK todo \in {RideRequest, StatusRequest, CancelRequest, ResetRequest} :
              Serve(th, Request(todo))
        BY <1>1 DEF RideOrDrive, Administer
    <2>2. Request(todo) \in RequestType /\ Request(todo).todo = todo
        BY TodoTypes DEF Request, RequestType, Idle
    <2> QED
        BY <2>1, <2>2 DEF Requests, Outside
<1>2. ASSUME NEW target \in Managed, CreateUser(th, e, target)
      PROVE  \E request \in RequestType :
                /\ request \in Requests(e) /\ request.todo \in Outside
                /\ Serve(th, request)
    <2> DEFINE request == [todo |-> CreateRequest, actor |-> e, target |-> target, to |-> "active"]
    <2>1. request \in RequestType
        BY TodoTypes, ThreadsAssumption DEF RequestType
    <2>2. request \in Requests(e) /\ request.todo \in Outside /\ Serve(th, request)
        BY <1>2, <2>1, ThreadsAssumption
           DEF CreateUser, Requests, Outside, Administering, RequireRole, NotOneself
    <2> QED
        BY <2>1, <2>2
<1>3. ASSUME NEW target \in Managed, NEW to \in {"active", "inactive"},
             SetUserActive(th, e, target, to)
      PROVE  \E request \in RequestType :
                /\ request \in Requests(e) /\ request.todo \in Outside
                /\ Serve(th, request)
    <2> DEFINE request == [todo |-> ActiveRequest, actor |-> e, target |-> target, to |-> to]
    <2>1. request \in RequestType
        BY TodoTypes, ThreadsAssumption DEF RequestType
    <2>2. request \in Requests(e) /\ request.todo \in Outside /\ Serve(th, request)
        BY <1>3, <2>1, ThreadsAssumption
           DEF SetUserActive, Requests, Outside, Administering, RequireRole, ActiveRequest,
               CreateRequest
    <2> QED
        BY <2>1, <2>2
<1> QED
    BY <1>1, <1>2, <1>3

LEMMA RestartActorInv == ASSUME Restart PROVE ActorInv'
BY PlacesApart, ThreadsAssumption DEF Restart, ActorInv, Idle

-----------------------------------------------------------------------------
(* Administrators, audit rows, tokens *)

\* What a step can do to users: nothing, a new account, or what a thread carries.
UsersGrow ==
    \/ UNCHANGED users
    \/ \E e \in Accounts : RegisterAccount(e)

LEMMA CarriesType ==
    ASSUME TypeOK, MutexInv, ActorInv, NEW th \in Threads, UpdateUser(th) \/ RegisterUser(th)
    PROVE  /\ threads[th].actor \in Accounts
           /\ RoleOf[threads[th].actor] = "admin"
           /\ threads[th].target \in Accounts
           /\ threads[th].to \in {"active", "inactive"}
           /\ NotOneself(threads[th].actor, threads[th].target, threads[th].to)
           /\ threads[th].todo # <<>>
           /\ Carries(th)
BY DoingPlace, NextPlace DEF UpdateUser, RegisterUser, ActorInv

LEMMA UsersGrowKeepsAdmin ==
    ASSUME SomeAdminActive, UsersGrow, late' = late
    PROVE  SomeAdminActive'
BY DEF SomeAdminActive, UsersGrow, RegisterAccount, IsActive

LEMMA UpdateKeepsAdmin ==
    ASSUME TypeOK, MutexInv, ActorInv, SomeAdminActive, NEW th \in Threads, UpdateUser(th)
    PROVE  SomeAdminActive'
<1> DEFINE request == threads[th]
<1>1. /\ request.actor \in Accounts /\ RoleOf[request.actor] = "admin"
      /\ request.target \in Accounts
      /\ request.to \in {"active", "inactive"}
      /\ request.to = "inactive" => request.target # request.actor
    BY CarriesType DEF NotOneself
<1>2. users' = [users EXCEPT ![request.target] = request.to] /\ request.target \in DOMAIN users
    BY DEF UpdateUser, SetAccountActive
<1>3. late' = (late \/ (request.to = "inactive" /\ ~IsActive(request.actor)))
    BY DEF UpdateUser, Carries
<1>4. CASE request.to = "active"
    BY <1>2, <1>3, <1>4 DEF SomeAdminActive, IsActive
<1>5. CASE request.to = "inactive" /\ ~IsActive(request.actor)
    BY <1>3, <1>5 DEF SomeAdminActive
<1>6. CASE request.to = "inactive" /\ IsActive(request.actor)
    <2>1. PICK admin \in Accounts : admin = request.actor
        BY <1>1
    <2>2. admin \in DOMAIN users' /\ users'[admin] = "active"
        BY <1>1, <1>2, <1>6, <2>1 DEF IsActive
    <2> QED
        BY <1>1, <2>1, <2>2 DEF SomeAdminActive, IsActive
<1> QED
    BY <1>1, <1>4, <1>5, <1>6

\* What has a row to write, and what the rows say.
AuditInv == OwesInv /\ AuditTellsState

LEMMA OwesLog ==
    ASSUME ActorInv, NEW th \in Threads, NEW e \in Accounts, Owes(th, e)
    PROVE  threads[th].todo = <<"log">> /\ threads[th].to \in {"active", "inactive"}
BY PlacesApart, ThreadsAssumption DEF ActorInv, Owes

\* Nobody comes to owe a row, and no row is written.
LEMMA AuditStep ==
    ASSUME AuditInv, UsersGrow,
           \A th \in Threads, e \in Accounts :
              Owes(th, e)' <=> Owes(th, e),
           \A th \in Threads, e \in Accounts :
              Owes(th, e)' => threads'[th].to = threads[th].to,
           UNCHANGED <<auditTable, excused>>
    PROVE  AuditInv'
<1>1. \A e \in DOMAIN users : e \in DOMAIN users' /\ users'[e] = users[e]
    BY DEF UsersGrow, RegisterAccount
<1>2. OwesInv'
    BY <1>1 DEF AuditInv, OwesInv
<1>3. AuditTellsState'
    BY <1>1 DEF AuditInv, AuditTellsState
<1> QED
    BY <1>2, <1>3 DEF AuditInv

LEMMA CarriesAudit ==
    ASSUME TypeOK, MutexInv, ActorInv, AuditInv,
           NEW th \in Threads, UpdateUser(th) \/ RegisterUser(th)
    PROVE  AuditInv'
<1> DEFINE target == threads[th].target
           to == threads[th].to
<1>1. threads \in [Threads -> RequestType]
    BY DEF TypeOK
<1>2. /\ target \in Accounts /\ threads[th].actor \in Accounts
      /\ threads[th].todo # <<>> /\ Carries(th)
    BY CarriesType
<1>3. /\ \A other \in Threads : other # th => threads'[other] = threads[other]
      /\ threads'[th].actor = Nobody /\ threads'[th].target = target /\ threads'[th].to = to
    BY <1>1, <1>2, AfterCarries
<1>4. \A e \in Accounts : ~Owes(th, e) /\ (Owes(th, e)' <=> e = target)
    BY <1>2, <1>3, ThreadsAssumption DEF Owes
<1>5. \A other \in Threads, e \in Accounts : other # th => (Owes(other, e)' <=> Owes(other, e))
    BY <1>3 DEF Owes
<1>6. /\ target \in DOMAIN users' /\ users'[target] = to
      /\ \A e \in DOMAIN users : e # target => e \in DOMAIN users' /\ users'[e] = users[e]
    <2>1. CASE UpdateUser(th)
        BY <2>1 DEF UpdateUser, SetAccountActive
    <2>2. CASE RegisterUser(th)
        <3>1. Head(threads[th].todo) = "register" /\ threads[th].todo \in Administering
            BY <2>2, DoingPlace, NextPlace DEF RegisterUser
        <3>2. Head(<<"update", "log">>) = "update"
            OBVIOUS
        <3>3. to = "active"
            BY <3>1, <3>2 DEF ActorInv, Administering, ActiveRequest
        <3> QED
            BY <2>2, <3>3 DEF RegisterUser, RegisterAccount
    <2> QED
        BY <2>1, <2>2
<1>7. excused' = IF \E other \in Threads : Owes(other, target)
                 THEN excused \cup {target} ELSE excused \ {target}
    BY <1>2 DEF Carries
<1>8. auditTable' = auditTable
    BY DEF UpdateUser, RegisterUser
<1>9. OwesInv'
    BY <1>3, <1>4, <1>5, <1>6, <1>7 DEF AuditInv, OwesInv
<1>10. AuditTellsState'
    BY <1>4, <1>5, <1>6, <1>7, <1>8 DEF AuditInv, AuditTellsState
<1> QED
    BY <1>9, <1>10 DEF AuditInv

\* A step of a handler other than Log and the changes of an account.
LEMMA OtherAudit ==
    ASSUME TypeOK, ActorInv, AuditInv, NEW th \in Threads, NEW todo \in Seq(Instructions),
           threads[th].todo # <<"log">>, Left(th, todo), UNCHANGED users,
           auditTable' \in {auditTable, [e \in Accounts |-> "none"]}, excused' = excused
    PROVE  AuditInv'
<1>1. \A e \in Accounts : ~Owes(th, e)
    BY OwesLog
<1>2. /\ \A other \in Threads : other # th => threads'[other] = threads[other]
      /\ todo = <<>> => threads'[th] = Idle
      /\ todo # <<>> =>
            /\ threads'[th].actor = threads[th].actor
            /\ threads'[th].target = threads[th].target
    BY AfterLeft DEF TypeOK
<1>3. \A e \in Accounts : ~Owes(th, e)'
    BY <1>1, <1>2, ThreadsAssumption DEF Owes, Idle
<1>4. OwesInv'
    BY <1>1, <1>2, <1>3 DEF AuditInv, OwesInv, Owes
<1>5. AuditTellsState'
    BY <1>1, <1>2, <1>3 DEF AuditInv, AuditTellsState, Owes
<1> QED
    BY <1>4, <1>5 DEF AuditInv

LEMMA LogAudit ==
    ASSUME TypeOK, MutexInv, ActorInv, AuditInv, NEW th \in Threads, Log(th)
    PROVE  AuditInv'
<1>1. threads[th].todo = <<"log">> /\ threads[th].todo # <<>> /\ Tail(threads[th].todo) = <<>>
    BY DoingPlace, NextPlace DEF Log
<1>2. /\ threads'[th] = Idle
      /\ \A other \in Threads : other # th => threads'[other] = threads[other]
    BY <1>1, AfterDone DEF Log, TypeOK
<1>3. threads[th].actor = Nobody
    BY <1>1, PlacesApart DEF ActorInv
<1>4. \A other \in Threads, e \in Accounts : Owes(other, e)' <=> other # th /\ Owes(other, e)
    BY <1>2, ThreadsAssumption DEF Owes, Idle
<1>5. \A e \in Accounts : Owes(th, e) <=> e = threads[th].target
    BY <1>3 DEF Owes
<1>6. users' = users /\ excused \subseteq excused'
    BY DEF Log, RowWritten, RowLost
<1>7. OwesInv'
    BY <1>2, <1>4, <1>6 DEF AuditInv, OwesInv
<1>8. CASE RowWritten(th)
    <2>1. \A e \in Accounts : IF Owes(th, e) THEN auditTable'[e] = threads[th].to
                              ELSE auditTable'[e] = auditTable[e]
        BY <1>5, <1>8 DEF RowWritten
    <2>2. AuditTellsState'
        BY <1>4, <1>6, <1>8, <2>1 DEF RowWritten, AuditInv, AuditTellsState, OwesInv
    <2> QED
        BY <1>7, <2>2 DEF AuditInv
<1>9. CASE RowLost(th)
    <2>1. \A e \in Accounts \ excused' : ~Owes(th, e) /\ auditTable'[e] = auditTable[e]
        BY <1>5, <1>9 DEF RowLost
    <2>2. AuditTellsState'
        BY <1>4, <1>6, <2>1 DEF AuditInv, AuditTellsState
    <2> QED
        BY <1>7, <2>2 DEF AuditInv
<1> QED
    BY <1>8, <1>9 DEF Log

LEMMA HandlerAudit ==
    ASSUME TypeOK, MutexInv, ActorInv, AuditInv, NEW th \in Threads, HandlerStep(th)
    PROVE  AuditInv'
<1>1. ASSUME NEW what, Doing(th, what), Done(th),
             what \in {"lock_backend", "unlock_backend", "lock_store", "unlock_store", "find",
                       "begin", "commit", "write", "insert", "clear"},
             UNCHANGED users, excused' = excused,
             auditTable' \in {auditTable, [e \in Accounts |-> "none"]}
      PROVE  AuditInv'
    <2>1. threads[th].todo # <<"log">>
        <3>1. Head(<<"log">>) = "log"
            OBVIOUS
        <3> QED
            BY <1>1, <3>1 DEF Doing
    <2>2. Tail(threads[th].todo) \in Seq(Instructions)
        BY <1>1 DEF Doing, TypeOK, RequestType
    <2> QED
        BY <1>1, <2>1, <2>2, OtherAudit DEF Done
<1>2. CASE Find(th)
    <2>1. <<"unlock_backend">> \in Seq(Instructions) /\ threads[th].todo # <<"log">>
        <3>1. Head(<<"log">>) = "log" /\ <<"unlock_backend">> \in Seq(Instructions)
            BY DEF Instructions
        <3> QED
            BY <1>2, <3>1 DEF Doing, Find
    <2> QED
        BY <1>1, <1>2, <2>1, OtherAudit DEF Find
<1>3. CASE UserRefused(th)
    <2>1. <<>> \in Seq(Instructions) /\ threads[th].todo # <<"log">>
        <3>1. Head(<<"log">>) = "log"
            OBVIOUS
        <3> QED
            BY <1>3, <3>1 DEF Doing, UserRefused
    <2> QED
        BY <1>3, <2>1, OtherAudit DEF UserRefused, AfterRefusal
<1>4. CASE Log(th)
    BY <1>4, LogAudit
<1>5. CASE UpdateUser(th) \/ RegisterUser(th)
    BY <1>5, CarriesAudit
<1>6. CASE \/ LockBackend(th) \/ UnlockBackend(th)
           \/ LockStore(th) \/ UnlockStore(th)
           \/ Begin(th) \/ Commit(th) \/ CommitThrows(th)
    BY <1>1, <1>6 DEF LockBackend, UnlockBackend, LockStore, UnlockStore, Begin, Commit,
        CommitThrows
<1>7. CASE Write(th) \/ Insert(th) \/ Clear(th)
    BY <1>1, <1>7 DEF Write, Insert, Clear
<1>8. CASE BeginThrows(th)
    <2>1. /\ threads[th].todo \in UnderBackend /\ Tail(Tail(threads[th].todo)) \in UnderBackend
          /\ Left(th, Tail(Tail(threads[th].todo)))
        BY <1>8, DoingPlace, NextPlace DEF BeginThrows
    <2>2. Tail(Tail(threads[th].todo)) \in Seq(Instructions) /\ threads[th].todo # <<"log">>
        BY <2>1, PlacesAreTodos, PlacesApart, OutsideHas DEF Places
    <2> QED
        BY <1>8, <2>1, <2>2, OtherAudit DEF BeginThrows
<1>9. CASE ClearThrows(th)
    <2>1. <<"unlock_backend">> \in Seq(Instructions) /\ threads[th].todo # <<"log">>
        <3>1. Head(<<"log">>) = "log" /\ <<"unlock_backend">> \in Seq(Instructions)
            BY DEF Instructions
        <3> QED
            BY <1>9, <3>1 DEF Doing, ClearThrows
    <2> QED
        BY <1>9, <2>1, OtherAudit DEF ClearThrows
<1> QED
    BY <1>2, <1>3, <1>4, <1>5, <1>6, <1>7, <1>8, <1>9 DEF HandlerStep

LEMMA HandlerAdmin ==
    ASSUME TypeOK, MutexInv, ActorInv, SomeAdminActive, NEW th \in Threads, HandlerStep(th)
    PROVE  SomeAdminActive'
<1>1. CASE UpdateUser(th)
    BY <1>1, UpdateKeepsAdmin
<1>2. CASE RegisterUser(th)
    BY <1>2, CarriesType DEF RegisterUser, RegisterAccount, Carries, SomeAdminActive, IsActive
<1>3. CASE users' = users /\ late' = late
    BY <1>3 DEF SomeAdminActive, IsActive
<1> QED
    BY <1>1, <1>2, <1>3 DEF HandlerStep, LockBackend, UnlockBackend, LockStore, UnlockStore, Find,
        Begin, BeginThrows, Commit, CommitThrows, Write, Insert, Clear, ClearThrows, UserRefused,
        Log

-----------------------------------------------------------------------------
(* The invariant *)

LEMMA InitIInv == Init => IInv
<1> SUFFICES ASSUME Init PROVE IInv
    OBVIOUS
<1>1. TypeOK
    <2>1. SessionsTypeOK
        BY SessionsAssumption DEF Init, SessionsInit, SessionsTypeOK
    <2>2. threads \in [Threads -> RequestType]
        BY TodoTypes DEF Init
    <2>3. auditTable \in [Accounts -> {"none", "active", "inactive"}] /\ excused \subseteq Accounts
        BY DEF Init
    <2> QED
        BY <2>1, <2>2, <2>3 DEF Init, TypeOK
<1>2. MutexInv
    <2>1. \A th \in Threads : threads[th].todo = <<>>
        BY DEF Init, Idle
    <2>2. <<>> \in Outside
        BY DEF Outside
    <2> QED
        BY <2>1, <2>2, ThreadsAssumption, PlacesApart DEF Init, MutexInv, Places
<1>3. ActorInv
    BY PlacesApart, ThreadsAssumption DEF Init, ActorInv, Idle
<1>4. OwesInv
    BY ThreadsAssumption DEF Init, OwesInv, Owes, Idle
<1>5. AuditTellsState
    BY DEF Init, AuditTellsState
<1>6. SomeAdminActive
    BY SessionsAssumption DEF Init, SessionsInit, SomeAdminActive, IsActive
<1> QED
    BY <1>1, <1>2, <1>3, <1>4, <1>5, <1>6 DEF IInv

\* AuthStore alone answers: threads and mutexes stay as they are.
LEMMA UnlockedIInv == ASSUME IInv, TypeOK', UsersGrow, Unlocked PROVE IInv'
<1>1. MutexInv'
    BY DEF IInv, MutexInv, Unlocked, locks
<1>2. ActorInv'
    BY DEF IInv, ActorInv, Unlocked
<1>3. AuditInv'
    BY AuditStep DEF IInv, AuditInv, Unlocked, Owes
<1>4. SomeAdminActive'
    BY UsersGrowKeepsAdmin DEF IInv, Unlocked
<1> QED
    BY <1>1, <1>2, <1>3, <1>4 DEF IInv, AuditInv

LEMMA ServeIInv ==
    ASSUME IInv, NEW th \in Threads, NEW e \in Accounts,
           \/ RideOrDrive(th, e)
           \/ Administer(th, e)
           \/ \E target \in Managed :
                 \/ CreateUser(th, e, target)
                 \/ \E to \in {"active", "inactive"} : SetUserActive(th, e, target, to)
    PROVE  IInv'
<1>1. PICK request \in RequestType :
          /\ request \in Requests(e) /\ request.todo \in Outside
          /\ Serve(th, request)
    BY RequestsFromClients DEF IInv
<1>2. TypeOK' /\ MutexInv' /\ ActorInv'
    BY <1>1, ServeTypeOK, ServeMutexInv, ServeActorInv DEF IInv
<1>3. AuditInv'
    <2>1. /\ threads'[th] = request
          /\ \A other \in Threads : other # th => threads'[other] = threads[other]
        BY <1>1 DEF Serve, IInv, TypeOK
    <2>2. threads[th].target = Nobody
        BY <1>1 DEF Serve, Idle
    <2>3. request.target = Nobody \/ request.actor = e
        BY <1>1 DEF Requests, Request, Idle
    <2>4. \A t \in Threads, x \in Accounts : Owes(t, x)' <=> Owes(t, x)
        BY <2>1, <2>2, <2>3, ThreadsAssumption DEF Owes
    <2>5. \A t \in Threads, x \in Accounts : Owes(t, x) => threads'[t].to = threads[t].to
        BY <2>1, <2>2, ThreadsAssumption DEF Owes
    <2> QED
        BY <1>1, <2>4, <2>5, AuditStep DEF Serve, IInv, AuditInv, UsersGrow
<1>4. SomeAdminActive'
    BY <1>1, UsersGrowKeepsAdmin DEF Serve, IInv, UsersGrow
<1> QED
    BY <1>2, <1>3, <1>4 DEF IInv, AuditInv

LEMMA RestartIInv == ASSUME IInv, Restart PROVE IInv'
<1>1. TypeOK' /\ MutexInv' /\ ActorInv'
    BY RestartTypeOK, RestartMutexInv, RestartActorInv DEF IInv
<1>2. \A th \in Threads, e \in Accounts : ~Owes(th, e)'
    BY ThreadsAssumption DEF Restart, Owes, Idle
<1>3. OwesInv'
    BY <1>2 DEF OwesInv
<1>4. AuditTellsState'
    BY DEF IInv, AuditTellsState, Restart, RestartAuthStore
<1>5. SomeAdminActive'
    BY UsersGrowKeepsAdmin DEF IInv, UsersGrow, Restart, RestartAuthStore
<1> QED
    BY <1>1, <1>3, <1>4, <1>5 DEF IInv

LEMMA NextIInv == IInv /\ [Next]_vars => IInv'
<1> SUFFICES ASSUME IInv, [Next]_vars PROVE IInv'
    OBVIOUS
<1>1. ASSUME NEW e \in Accounts, Register(e) PROVE IInv'
    BY <1>1, RegisterTypeOK, UnlockedIInv DEF IInv, Register, UsersGrow
<1>2. ASSUME NEW e \in Accounts, Login(e) PROVE IInv'
    BY <1>2, LoginTypeOK, UnlockedIInv DEF IInv, Login, Authenticate, UsersGrow
<1>3. ASSUME NEW t \in DOMAIN sessionToEmail, LogoutRequest(t) PROVE IInv'
    BY <1>3, LogoutTypeOK, UnlockedIInv DEF IInv, LogoutRequest, Logout, UsersGrow
<1>4. ASSUME NEW th \in Threads, HandlerStep(th) PROVE IInv'
    BY <1>4, HandlerTypeOK, HandlerMutexInv, HandlerActorInv, HandlerAudit, HandlerAdmin
       DEF IInv, AuditInv
<1>5. CASE UNCHANGED vars
    <2>1. TypeOK'
        BY <1>5 DEF IInv, TypeOK, SessionsTypeOK, vars, session, locks
    <2> QED
        BY <1>5, <2>1, UnlockedIInv DEF vars, UsersGrow, Unlocked
<1> QED
    BY <1>1, <1>2, <1>3, <1>4, <1>5, ServeIInv, RestartIInv DEF Next

\* The invariant holds in every state of the server.
THEOREM Invariant == Spec => []IInv
BY InitIInv, NextIInv, PTL DEF Spec

\* Whatever requests are made, threads, mutexes, sessions and rows are what the
\* code's types say.
THEOREM TypeCorrect == Spec => []TypeOK
<1>1. IInv => TypeOK
    BY DEF IInv
<1> QED
    BY <1>1, Invariant, PTL

\* What a request's COMMIT commits is its own statements alone, for any number of
\* server threads, whatever other requests' COMMITs have thrown before.
THEOREM TransactionsKeptApart == Spec => []TransactionIsOwn
<1>1. IInv => TransactionIsOwn
    BY DoingPlace, NextPlace DEF IInv, MutexInv, TransactionIsOwn
<1> QED
    BY <1>1, Invariant, PTL

\* Whoever holds storeMutex never asks for a mutex again before giving it back, and
\* whoever holds backendMutex asks only for storeMutex; so of all threads that are
\* busy, one goes on.
LEMMA HolderGoesOn ==
    ASSUME MutexInv, NEW th \in Threads
    PROVE  /\ storeMutex = th => GoesOn(th)
           /\ backendMutex = th /\ storeMutex = Nobody => GoesOn(th)
<1> DEFINE s == threads[th].todo
<1>1. s # <<>> => threads[th] # Idle
    BY DEF Idle
<1>2. CASE storeMutex = th
    <2>1. s \in Saving \cup UnderBoth /\ s \in Places
        BY <1>2 DEF MutexInv
    <2>2. s # <<>>
        BY <2>1, PlacesApart, OutsideHas
    <2> HIDE DEF s
    <2>3. Head(s) \notin {"lock_backend", "lock_store", "begin", "insert", "clear", "log"}
        BY <2>1, <2>2, NextPlace, PlacesApart, OutsideHas
    <2> QED
        BY <1>1, <2>2, <2>3, ThreadsAssumption DEF GoesOn, Doing, TakesStore, s
<1>3. CASE backendMutex = th /\ storeMutex = Nobody
    <2>1. s \in UnderBackend \cup Saving \cup UnderBoth /\ s \in Places
        BY <1>3 DEF MutexInv
    <2>2. s # <<>>
        BY <2>1, PlacesApart, OutsideHas
    <2> HIDE DEF s
    <2>3. Head(s) # "lock_backend"
        BY <2>1, <2>2, NextPlace, PlacesApart
    <2> QED
        BY <1>1, <1>3, <2>2, <2>3 DEF GoesOn, Doing, s
<1> QED
    BY <1>2, <1>3

\* The requests never bring each other, or themselves, to a halt, for any number of
\* server threads.
THEOREM NoDeadlock == Spec => []SomebodyGoesOn
<1>1. IInv => SomebodyGoesOn
    <2> SUFFICES ASSUME IInv, NEW busy \in Threads, threads[busy] # Idle
                 PROVE  \E th \in Threads : GoesOn(th)
        BY DEF SomebodyGoesOn, Busy
    <2>1. /\ backendMutex \in Threads \cup {Nobody} /\ storeMutex \in Threads \cup {Nobody}
          /\ MutexInv
        BY DEF IInv, TypeOK
    <2>2. CASE storeMutex \in Threads
        BY <2>1, <2>2, HolderGoesOn
    <2>3. CASE storeMutex = Nobody /\ backendMutex \in Threads
        BY <2>1, <2>3, HolderGoesOn
    <2>4. CASE storeMutex = Nobody /\ backendMutex = Nobody
        BY <2>4 DEF GoesOn
    <2> QED
        BY <2>1, <2>2, <2>3, <2>4
<1> QED
    BY <1>1, Invariant, PTL

\* An administrator stays active, unless a check was overtaken.
THEOREM AdministratorStays == Spec => []SomeAdminActive
<1>1. IInv => SomeAdminActive
    BY DEF IInv
<1> QED
    BY <1>1, Invariant, PTL

\* The audit log tells the state of every account that no two requests changed at
\* once and whose last row was neither cut off by a crash, refused by the file nor
\* left in a transaction that nobody commits.
THEOREM AuditIsTrue == Spec => []AuditTellsState
<1>1. IInv => AuditTellsState
    BY DEF IInv
<1> QED
    BY <1>1, Invariant, PTL

\* A token stays with the account it was given to.
THEOREM TokensKeepOwner == Spec => SessionsKeepOwner
<1> DEFINE A == \A t \in 1 .. nextSessionId :
                    t \in DOMAIN sessionToEmail' =>
                        t \in DOMAIN sessionToEmail /\ sessionToEmail'[t] = sessionToEmail[t]
<1>1. IInv /\ [Next]_vars => [A]_session
    <2> SUFFICES ASSUME IInv, Next, session' # session PROVE A
        BY DEF vars, session
    <2>1. ASSUME NEW e \in Accounts, Login(e) PROVE A
        <3>1. nextSessionId \in Nat
            BY SessionsAssumption DEF IInv, TypeOK, SessionsTypeOK
        <3> QED
            BY <2>1, <3>1 DEF Login, Authenticate, NewToken
    <2>2. ASSUME NEW t \in DOMAIN sessionToEmail, LogoutRequest(t) PROVE A
        BY <2>2 DEF LogoutRequest, Logout
    <2>3. CASE Restart
        BY <2>3 DEF Restart, RestartAuthStore
    <2>4. ASSUME NEW e \in Accounts, Register(e) PROVE FALSE
        BY <2>4 DEF Register, session
    <2>5. ASSUME NEW th \in Threads, HandlerStep(th) PROVE FALSE
        BY <2>5 DEF HandlerStep, LockBackend, UnlockBackend, LockStore, UnlockStore, Find, Begin,
            BeginThrows, Commit, CommitThrows, Write, Insert, Clear, ClearThrows, UpdateUser,
            RegisterUser, UserRefused, Log, session
    <2>6. ASSUME NEW th \in Threads, NEW request, Serve(th, request) PROVE FALSE
        BY <2>6 DEF Serve, session
    <2> QED
        BY <2>1, <2>2, <2>3, <2>4, <2>5, <2>6 DEF Next, RideOrDrive, Administer, CreateUser,
            SetUserActive
<1> QED
    BY <1>1, Invariant, PTL DEF Spec, SessionsKeepOwner
===============================================================================
