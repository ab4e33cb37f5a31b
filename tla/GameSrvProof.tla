---------------------------- MODULE GameSrvProof ----------------------------
(* Proofs about GameSrv, for every value of its constants: first under any *)
(* clients, then under orderly ones, where scenes are exact, nothing       *)
(* leaks, no load meets a role that has its data, and the servers          *)
(* implement Account.                                                      *)
EXTENDS OrderlyClients, SequenceTheorems, WellFoundedInduction, TLAPS

Inv1 == TypeOK /\ IndexInv

(* ById and BySession find roles of the used list.                         *)
LEMMA LookupsUsed ==
  ASSUME IndexInv, TypeOK
  PROVE  /\ \A id : ById(id) \subseteq used /\ ById(id) \subseteq Slot
         /\ \A s : BySession(s) \subseteq used /\ BySession(s) \subseteq Slot
BY DEF IndexInv, TypeOK, ById, BySession

(* The store of a role with a scene is a well-formed request.              *)
LEMMA StoreOfType ==
  ASSUME TypeOK, IndexInv, NEW r \in used, scene[r] # None,
         NEW mon \in [Slot -> 0..MaxMoney]
  PROVE  StoreOf(r, mon) \in Request
<1>1. roleId[r] \in RoleId /\ scene[r] \in RowScene /\ mon[r] \in 0..MaxMoney
  BY DEF TypeOK, IndexInv, RowScene
<1> QED
  BY <1>1 DEF StoreOf, Request, Row

(* So is what the release of any roles of the used list sends.             *)
LEMMA StoreRequestsType ==
  ASSUME TypeOK, IndexInv, NEW E \in SUBSET used,
         NEW mon \in [Slot -> 0..MaxMoney]
  PROVE  StoreRequests(E, mon) \in Seq(Request)
<1>1. CASE Storable(E) = {}
  BY <1>1, EmptySeq DEF StoreRequests
<1>2. CASE Storable(E) # {}
  <2> DEFINE r == CHOOSE q \in Storable(E) : TRUE
  <2>1. r \in Storable(E)
    BY <1>2
  <2>2. r \in used /\ scene[r] # None
    BY <2>1 DEF Storable
  <2> HIDE DEF r
  <2>3. StoreOf(r, mon) \in Request
    BY <2>2, StoreOfType
  <2>4. StoreRequests(E, mon) = <<StoreOf(r, mon)>>
    BY <1>2 DEF StoreRequests, r
  <2> QED
    BY <2>3, <2>4
<1> QED
  BY <1>1, <1>2

(* A dying process leaves a prefix of its requests and no index.           *)
LEMMA GoDownInv1 ==
  ASSUME TypeOK, IndexInv, GoDown, UNCHANGED <<used, roleId, session, named, scene, bag, inst, things>>,
         money' \in [Slot -> 0..MaxMoney]
  PROVE  TypeOK' /\ IndexInv'
<1>1. toDb' \in Seq(Request)
  <2>1. PICK n \in 0..Len(toDb) : toDb' = SubSeq(toDb, 1, n)
    BY DEF GoDown, Forget
  <2>2. toDb \in Seq(Request) /\ Len(toDb) \in Nat
    BY LenProperties DEF TypeOK
  <2>3. \A i \in 1..n : toDb[i] \in Request
    BY <2>1, <2>2, ElementOfSeq
  <2> QED
    BY <2>1, <2>2, <2>3, SubSeqProperties
<1>2. crashes' \in 0..MaxCrash
  BY ConstantsAssumption DEF GoDown, Forget, TypeOK
<1>3. fromDb' \in Seq(Answer)
  BY EmptySeq DEF GoDown, Forget
<1> QED
  BY <1>1, <1>2, <1>3 DEF GoDown, Forget, TypeOK, IndexInv, things

(* A role admitted to the pool, under any account and session, keeps the   *)
(* types of the pool and its fields, and the indexes exact.                *)
LEMMA AdmitRoleInv1 ==
  ASSUME TypeOK, IndexInv, NEW E \in SUBSET used, NEW s \in Session, NEW id \in RoleId,
         AdmitRole(E, s, id)
  PROVE  /\ used' \subseteq Slot /\ idIdx' \subseteq Slot /\ fdIdx' \subseteq Slot
         /\ roleId' \in [Slot -> RoleId \cup {None}]
         /\ session' \in [Slot -> Session \cup {None}]
         /\ named' \in [Slot -> BOOLEAN]
         /\ scene' \in [Slot -> Scene \cup {None}]
         /\ bag' \in [Slot -> Bag \cup {None}]
         /\ inst' \in [Slot -> Instance \cup {None}]
         /\ money' \in [Slot -> 0..MaxMoney]
         /\ IndexInv'
<1>1. PICK r \in Slot \ (used \ E) :
        /\ used' = (used \ E) \cup {r}
        /\ idIdx' = LinkId(idIdx \ E, r, id)
        /\ fdIdx' = LinkFd(idIdx \ E, fdIdx \ E, r, id, s)
        /\ roleId' = [roleId EXCEPT ![r] = id]
        /\ session' = [session EXCEPT ![r] = s]
        /\ InitRoleData(E, r)
  BY DEF AdmitRole, Enlist
<1>2. used' \subseteq Slot /\ idIdx' \subseteq Slot /\ fdIdx' \subseteq Slot
  BY <1>1 DEF TypeOK, LinkId, LinkFd
<1>3. /\ roleId' \in [Slot -> RoleId \cup {None}]
      /\ session' \in [Slot -> Session \cup {None}]
      /\ named' \in [Slot -> BOOLEAN]
      /\ scene' \in [Slot -> Scene \cup {None}]
      /\ bag' \in [Slot -> Bag \cup {None}]
      /\ money' \in [Slot -> 0..MaxMoney]
  BY <1>1 DEF TypeOK, InitRoleData
<1>4. inst' \in [Slot -> Instance \cup {None}]
  BY <1>1 DEF TypeOK, InitRoleData, InstWithout
<1>5. r \notin idIdx \ E /\ r \notin fdIdx \ E
  BY <1>1 DEF IndexInv
<1>6. \A q \in Slot : q # r => roleId'[q] = roleId[q] /\ session'[q] = session[q]
  BY <1>1 DEF TypeOK
<1>7. roleId'[r] = id /\ session'[r] = s
  BY <1>1 DEF TypeOK
<1>8. None \notin RoleId /\ None \notin Session
  BY ConstantsAssumption
<1>9. IndexInv'
  <2>1. idIdx' \subseteq used' /\ fdIdx' \subseteq idIdx'
    BY <1>1 DEF IndexInv, LinkId, LinkFd
  <2>2. \A q \in used' : roleId'[q] # None /\ session'[q] # None
    BY <1>1, <1>6, <1>7, <1>8 DEF IndexInv, TypeOK
  <2>3. ASSUME NEW p \in idIdx', NEW q \in idIdx', roleId'[p] = roleId'[q]
        PROVE  p = q
    <3>1. CASE \E e \in idIdx \ E : roleId[e] = id
      BY <1>1, <1>5, <1>6, <2>3, <3>1 DEF IndexInv, LinkId, TypeOK
    <3>2. CASE ~ \E e \in idIdx \ E : roleId[e] = id
      BY <1>1, <1>5, <1>6, <1>7, <2>3, <3>2 DEF IndexInv, LinkId, TypeOK
    <3> QED
      BY <3>1, <3>2
  <2>4. ASSUME NEW p \in fdIdx', NEW q \in fdIdx', session'[p] = session'[q]
        PROVE  p = q
    <3> DEFINE dup == \/ \E e \in idIdx \ E : roleId[e] = id
                      \/ \E e \in fdIdx \ E : session[e] = s
    <3>1. CASE dup
      BY <1>1, <1>5, <1>6, <2>4, <3>1 DEF IndexInv, LinkFd, TypeOK
    <3>2. CASE ~ dup
      BY <1>1, <1>5, <1>6, <1>7, <2>4, <3>2 DEF IndexInv, LinkFd, TypeOK
    <3> QED
      BY <3>1, <3>2
  <2> QED
    BY <2>1, <2>2, <2>3, <2>4 DEF IndexInv
<1> QED
  BY <1>2, <1>3, <1>4, <1>9

(* Leaving scenes, bags and instances keeps their types.                   *)
LEMMA ReleaseThingsType ==
  ASSUME TypeOK, NEW E \in SUBSET used
  PROVE  /\ ScenesWithout(E) \in [Scene -> SUBSET Slot]
         /\ BagsWithout(E) \subseteq Bag
         /\ InstsWithout(E) \subseteq Instance
         /\ TeamWithout(E) \in [Instance -> SUBSET Slot]
         /\ InstWithout(E) \in [Slot -> Instance \cup {None}]
BY DEF TypeOK, ScenesWithout, BagsWithout, InstsWithout, TeamWithout, InstWithout

(* Joining a scene keeps the lists well typed.                             *)
LEMMA JoinSceneType ==
  ASSUME NEW mem \in [Scene -> SUBSET Slot], NEW sc, NEW r \in Slot
  PROVE  JoinScene(mem, sc, r) \in [Scene -> SUBSET Slot]
BY DEF JoinScene

(* Removing roles from the pool and both indexes keeps IndexInv.           *)
LEMMA ReleaseRolesInv1 ==
  ASSUME TypeOK, IndexInv, NEW E \in SUBSET used, ReleaseRoles(E)
  PROVE  /\ used' \subseteq Slot /\ idIdx' \subseteq Slot /\ fdIdx' \subseteq Slot
         /\ inst' \in [Slot -> Instance \cup {None}]
         /\ IndexInv'
<1>1. inst' \in [Slot -> Instance \cup {None}]
  BY ReleaseThingsType DEF ReleaseRoles, Delist
<1> QED
  BY <1>1 DEF ReleaseRoles, Delist, TypeOK, IndexInv

(* A fetch of an account is a well-formed request.                         *)
LEMMA FetchRequestType ==
  ASSUME NEW id \in RoleId
  PROVE  FetchRequest(id) \in Seq(Request)
BY DEF FetchRequest, Request

(* A login, with or without a kick, keeps types and indexes.               *)
LEMMA LoginInv1 ==
  ASSUME Inv1, NEW s \in Session, NEW id \in RoleId, NEW a \in Area, LoginRequest(s, id, a)
  PROVE  Inv1'
<1> DEFINE E == IF a = 0 THEN ById(id) ELSE {}
<1>1. E \in SUBSET used
  BY LookupsUsed DEF Inv1
<1> HIDE DEF E
<1>2. /\ ReleaseThings(E)
      /\ AdmitRole(E, s, id)
      /\ toDb' = toDb \o LoginMessages(E, id)
      /\ UNCHANGED <<proc, crashes, row, failed, fromDb>>
  BY DEF LoginRequest, E
<1>3. toDb' \in Seq(Request)
  <2>1. StoreRequests(E, money) \in Seq(Request)
    BY <1>1, StoreRequestsType DEF Inv1, TypeOK
  <2>2. LoginMessages(E, id) \in Seq(Request)
    BY <2>1, FetchRequestType, ConcatProperties DEF LoginMessages
  <2> QED
    BY <1>2, <2>2, ConcatProperties DEF Inv1, TypeOK
<1>4. /\ members' \in [Scene -> SUBSET Slot] /\ bags' \subseteq Bag
      /\ insts' \subseteq Instance /\ team' \in [Instance -> SUBSET Slot]
  BY <1>1, <1>2, ReleaseThingsType DEF ReleaseThings, Inv1
<1> QED
  BY <1>1, <1>2, <1>3, <1>4, AdmitRoleInv1 DEF Inv1, TypeOK

(* A createrole request does, with a role or without one.                  *)
LEMMA CreateroleInv1 ==
  ASSUME Inv1, NEW s \in Session, NEW id \in RoleId,
         CreateroleRequest(s, id) \/ CreateroleNewRole(s, id)
  PROVE  Inv1'
<1>1. toDb' \in Seq(Request)
  <2>1. [type |-> "create", id |-> id] \in Request
    BY DEF Request
  <2>2. toDb' = Append(toDb, [type |-> "create", id |-> id])
    BY DEF CreateroleRequest, CreateroleNewRole
  <2> QED
    BY <2>1, <2>2, AppendProperties DEF Inv1, TypeOK
<1>2. CASE CreateroleRequest(s, id)
  BY <1>1, <1>2 DEF CreateroleRequest, Inv1, TypeOK, IndexInv, indexes, fields, things
<1>3. CASE CreateroleNewRole(s, id)
  <2>1. AdmitRole({}, s, id) /\ UNCHANGED <<proc, crashes, things, row, failed, fromDb>>
    BY <1>3 DEF CreateroleNewRole
  <2> QED
    BY <1>1, <2>1, AdmitRoleInv1 DEF Inv1, TypeOK, things
<1> QED
  BY <1>2, <1>3

(* A logout does.                                                          *)
LEMMA LogoutInv1 ==
  ASSUME Inv1, NEW s \in Session, LogoutRequest(s)
  PROVE  Inv1'
<1> DEFINE E == BySession(s)
<1>1. E \in SUBSET used
  BY LookupsUsed DEF Inv1
<1> HIDE DEF E
<1>2. /\ ReleaseThings(E)
      /\ ReleaseRoles(E)
      /\ toDb' = toDb \o StoreRequests(E, money)
      /\ UNCHANGED <<proc, crashes, money, row, failed, fromDb>>
  BY DEF LogoutRequest, E
<1>3. toDb' \in Seq(Request)
  <2>1. StoreRequests(E, money) \in Seq(Request)
    BY <1>1, StoreRequestsType DEF Inv1, TypeOK
  <2> QED
    BY <1>2, <2>1, ConcatProperties DEF Inv1, TypeOK
<1>4. /\ members' \in [Scene -> SUBSET Slot] /\ bags' \subseteq Bag
      /\ insts' \subseteq Instance /\ team' \in [Instance -> SUBSET Slot]
  BY <1>1, <1>2, ReleaseThingsType DEF ReleaseThings, Inv1
<1>5. /\ used' \subseteq Slot /\ idIdx' \subseteq Slot /\ fdIdx' \subseteq Slot
      /\ inst' \in [Slot -> Instance \cup {None}]
      /\ IndexInv'
  BY <1>1, <1>2, ReleaseRolesInv1 DEF Inv1
<1>6. UNCHANGED <<roleId, session, named, scene, bag>>
  BY <1>2 DEF ReleaseRoles, Delist
<1> QED
  BY <1>2, <1>3, <1>4, <1>5, <1>6 DEF Inv1, TypeOK

(* Playing (scenes, instances, money) does.                                *)
LEMMA PlayInv1 ==
  ASSUME Inv1, NEW s \in Session,
         \/ \E sc \in Scene : TransportRequest(s, sc)
         \/ EnterInstanceRequest(s)
         \/ LeaveInstanceRequest(s)
         \/ EarnMoney(s)
  PROVE  Inv1'
<1> USE DEF Inv1
<1>1. ASSUME NEW sc \in Scene, TransportRequest(s, sc)
      PROVE  Inv1'
  <2>1. PICK r \in BySession(s) :
          /\ members' = JoinScene(ScenesWithout({r}), sc, r)
          /\ scene' = [scene EXCEPT ![r] = IF Refuses(ScenesWithout({r}), sc, r) THEN @ ELSE sc]
    BY <1>1 DEF TransportRequest
  <2>2. r \in Slot /\ {r} \in SUBSET used
    BY LookupsUsed
  <2>3. members' \in [Scene -> SUBSET Slot]
    BY <2>1, <2>2, ReleaseThingsType, JoinSceneType
  <2>4. scene' \in [Slot -> Scene \cup {None}]
    BY <2>1, <2>2 DEF TypeOK
  <2>5. UNCHANGED <<proc, crashes, used, idIdx, fdIdx, roleId, session, named, bag, inst,
                    money, bags, insts, team, row, failed, toDb, fromDb>>
    BY <1>1 DEF TransportRequest, indexes
  <2>6. TypeOK'
    BY <2>3, <2>4, <2>5 DEF TypeOK
  <2>7. IndexInv'
    BY <2>5 DEF IndexInv
  <2> QED
    BY <2>6, <2>7
<1>2. CASE EnterInstanceRequest(s)
  <2>1. PICK r \in BySession(s), i \in Instance \ insts :
          /\ insts' = insts \cup {i}
          /\ team' = [team EXCEPT ![i] = {r}]
          /\ inst' = [inst EXCEPT ![r] = i]
          /\ members' = ScenesWithout({r})
    BY <1>2 DEF EnterInstanceRequest
  <2>2. r \in Slot /\ {r} \in SUBSET used
    BY LookupsUsed
  <2>3. members' \in [Scene -> SUBSET Slot]
    BY <2>1, <2>2, ReleaseThingsType
  <2>4. /\ insts' \subseteq Instance /\ team' \in [Instance -> SUBSET Slot]
        /\ inst' \in [Slot -> Instance \cup {None}]
    BY <2>1, <2>2 DEF TypeOK
  <2> QED
    BY <1>2, <2>3, <2>4 DEF EnterInstanceRequest, TypeOK, IndexInv, indexes
<1>3. CASE LeaveInstanceRequest(s)
  <2>1. PICK r \in BySession(s) :
          /\ scene[r] # None
          /\ insts' = InstsWithout({r})
          /\ team' = TeamWithout({r})
          /\ inst' = InstWithout({r})
          /\ members' = JoinScene(members, scene[r], r)
    BY <1>3 DEF LeaveInstanceRequest
  <2>2. r \in Slot /\ {r} \in SUBSET used /\ scene[r] \in Scene
    BY <2>1, LookupsUsed DEF TypeOK
  <2>3. members' \in [Scene -> SUBSET Slot]
    BY <2>1, <2>2, JoinSceneType DEF TypeOK
  <2>4. /\ insts' \subseteq Instance /\ team' \in [Instance -> SUBSET Slot]
        /\ inst' \in [Slot -> Instance \cup {None}]
    BY <2>1, <2>2, ReleaseThingsType
  <2> QED
    BY <1>3, <2>3, <2>4 DEF LeaveInstanceRequest, TypeOK, IndexInv, indexes
<1>4. CASE EarnMoney(s)
  <2>1. PICK r \in BySession(s) : money[r] < MaxMoney /\ money' = [money EXCEPT ![r] = @ + 1]
    BY <1>4 DEF EarnMoney
  <2>2. r \in Slot
    BY LookupsUsed
  <2>3. money[r] + 1 \in 0..MaxMoney
    BY <2>1, <2>2, ConstantsAssumption DEF TypeOK
  <2>4. money' \in [Slot -> 0..MaxMoney]
    BY <2>1, <2>2, <2>3 DEF TypeOK
  <2> QED
    BY <1>4, <2>4 DEF EarnMoney, TypeOK, IndexInv, indexes, things
<1> QED
  BY <1>1, <1>2, <1>3, <1>4

(* A kill or a fault does, whatever the handler had changed before it.     *)
LEMMA DeathInv1 ==
  ASSUME Inv1,
         \/ Kill
         \/ \E s \in Session :
              \/ \E id \in RoleId, a \in Area : LoginPoolFull(s, id, a)
              \/ CreaterolePoolFull(s)
              \/ TransportNoRole(s)
  PROVE  Inv1'
<1>1. GoDown /\ UNCHANGED <<used, fields, things>>
  BY DEF Kill, LoginPoolFull, CreaterolePoolFull, TransportNoRole
<1>2. UNCHANGED <<used, roleId, session, named, scene, bag, inst, things>>
  BY <1>1 DEF fields
<1>3. money' \in [Slot -> 0..MaxMoney]
  BY <1>1 DEF fields, Inv1, TypeOK
<1> QED
  BY <1>1, <1>2, <1>3, GoDownInv1 DEF Inv1

(* An answer to a load does, whether it fits the role or not.              *)
LEMMA LoadInv1 ==
  ASSUME Inv1, RoleDataResponse
  PROVE  Inv1'
<1> USE DEF Inv1
<1> DEFINE m == Head(fromDb)
<1>1. m \in Answer /\ Tail(fromDb) \in Seq(Answer)
  BY HeadTailProperties DEF RoleDataResponse, TypeOK
<1>2. m.type \in {"fetch", "create"}
  BY DEF RoleDataResponse
<1>3. m.data \in Row \cup {None}
  BY <1>1, <1>2 DEF Answer
<1> HIDE DEF m
<1>4. CASE /\ fromDb' = Tail(fromDb)
           /\ UNCHANGED <<proc, crashes, used, indexes, fields, things, row, failed, toDb>>
  BY <1>1, <1>4 DEF TypeOK, IndexInv, indexes, fields, things
<1>5. ASSUME fromDb' = Tail(fromDb), NEW r \in ById(m.id), RefusedLogin(r)
      PROVE  Inv1'
  <2>1. r \in Slot
    BY LookupsUsed
  <2>2. members' \in [Scene -> SUBSET Slot]
    BY <1>5, <2>1, JoinSceneType DEF RefusedLogin, TypeOK
  <2> QED
    BY <1>1, <1>5, <2>2 DEF RefusedLogin, TypeOK, IndexInv, indexes, fields
<1>6. ASSUME fromDb' = Tail(fromDb), NEW r \in ById(m.id), m.data # None,
             LoadSucceeds(r, m.data)
      PROVE  Inv1'
  <2>1. r \in Slot
    BY LookupsUsed
  <2>2. m.data.scene \in Scene /\ m.data.money \in 0..MaxMoney
    BY <1>3, <1>6 DEF LoadSucceeds, Row
  <2>3. members' \in [Scene -> SUBSET Slot]
    BY <1>6, <2>1, JoinSceneType DEF LoadSucceeds, TypeOK
  <2>4. bags' \subseteq Bag /\ bag' \in [Slot -> Bag \cup {None}]
    BY <1>6, <2>1 DEF LoadSucceeds, FreeBags, TypeOK
  <2>5. /\ named' \in [Slot -> BOOLEAN]
        /\ scene' \in [Slot -> Scene \cup {None}]
        /\ money' \in [Slot -> 0..MaxMoney]
    BY <1>6, <2>1, <2>2 DEF LoadSucceeds, TypeOK
  <2> QED
    BY <1>1, <1>6, <2>3, <2>4, <2>5 DEF LoadSucceeds, TypeOK, IndexInv, indexes
<1>7. ASSUME fromDb' = Tail(fromDb), NEW r \in ById(m.id), m.data # None,
             LoadFails(r, m.data)
      PROVE  Inv1'
  <2>1. r \in Slot /\ {r} \in SUBSET used
    BY LookupsUsed
  <2>2. money' \in [Slot -> 0..MaxMoney] /\ money' = [money EXCEPT ![r] = m.data.money]
    BY <1>3, <1>7, <2>1 DEF LoadFails, Row, TypeOK
  <2>3. toDb' \in Seq(Request)
    <3>1. StoreRequests({r}, money') \in Seq(Request)
      BY <2>1, <2>2, StoreRequestsType
    <3>2. toDb' = toDb \o StoreRequests({r}, money')
      BY <1>7, <2>2 DEF LoadFails
    <3> QED
      BY <3>1, <3>2, ConcatProperties DEF TypeOK
  <2>4. members' \in [Scene -> SUBSET Slot]
    BY <1>7, <2>1, ReleaseThingsType, JoinSceneType DEF LoadFails, TypeOK
  <2>5. /\ bags' \subseteq Bag /\ insts' \subseteq Instance /\ team' \in [Instance -> SUBSET Slot]
    BY <1>7, <2>1, ReleaseThingsType DEF LoadFails
  <2>6. ReleaseRoles({r}) /\ UNCHANGED <<proc, crashes, row, failed>>
    BY <1>7 DEF LoadFails
  <2>7. /\ used' \subseteq Slot /\ idIdx' \subseteq Slot /\ fdIdx' \subseteq Slot
        /\ inst' \in [Slot -> Instance \cup {None}]
        /\ IndexInv'
    BY <2>1, <2>6, ReleaseRolesInv1
  <2>8. UNCHANGED <<roleId, session, named, scene, bag>>
    BY <2>6 DEF ReleaseRoles, Delist
  <2> QED
    BY <1>1, <1>7, <2>2, <2>3, <2>4, <2>5, <2>6, <2>7, <2>8 DEF TypeOK
<1>8. ASSUME NEW r \in ById(m.id), m.data # None, LoadFaults(r, m.data)
      PROVE  Inv1'
  <2>1. r \in Slot
    BY LookupsUsed
  <2>2. money' \in [Slot -> 0..MaxMoney]
    BY <1>3, <1>8, <2>1 DEF LoadFaults, Row, TypeOK
  <2> QED
    BY <1>8, <2>2, GoDownInv1 DEF LoadFaults
<1> QED
  BY <1>4, <1>5, <1>6, <1>7, <1>8 DEF RoleDataResponse, m

(* db_srv answers with what its table holds.                               *)
LEMMA DbServerInv1 ==
  ASSUME Inv1, DbServer
  PROVE  Inv1'
<1> USE DEF Inv1
<1> DEFINE q == Head(toDb)
<1>1. DbHandle
  BY DEF DbServer, FetchRole, CreateRole, StoreRole
<1>2. q \in Request /\ toDb' \in Seq(Request)
  BY <1>1, HeadTailProperties DEF DbHandle, TypeOK
<1>3. q.id \in RoleId /\ (q.type = "store" => q.data \in Row)
  BY <1>2 DEF Request
<1> HIDE DEF q
<1>4. ASSUME NEW m \in Answer, DbAnswers(m)
      PROVE  fromDb' \in Seq(Answer)
  <2>1. fromDb \in Seq(Answer)
    BY DEF TypeOK
  <2>2. Append(fromDb, m) \in Seq(Answer)
    BY <2>1, AppendProperties
  <2> QED
    BY <1>4, <2>1, <2>2 DEF DbAnswers
<1>5. row' \in [RoleId -> Row \cup {None}] /\ fromDb' \in Seq(Answer)
  <2>1. CASE FetchRole
    <3>1. \A d \in Row \cup {None} : [type |-> "fetch", id |-> q.id, data |-> d] \in Answer
      BY <1>3 DEF Answer
    <3>2. row[q.id] \in Row \cup {None}
      BY <1>3 DEF TypeOK
    <3>3. \/ DbAnswers([type |-> "fetch", id |-> q.id, data |-> row[q.id]])
          \/ DbAnswers([type |-> "fetch", id |-> q.id, data |-> None])
      BY <2>1 DEF FetchRole, q
    <3>4. row' = row
      BY <2>1 DEF FetchRole, QueryFails
    <3> QED
      BY <1>4, <3>1, <3>2, <3>3, <3>4 DEF TypeOK
  <2>2. CASE CreateRole
    <3> DEFINE new == [scene |-> StartScene, money |-> 0]
    <3>1. new \in Row
      BY ConstantsAssumption DEF Row
    <3>2. \A d \in Row \cup {None} : [type |-> "create", id |-> q.id, data |-> d] \in Answer
      BY <1>3 DEF Answer
    <3>3. row' = row \/ row' = [row EXCEPT ![q.id] = new]
      BY <2>2 DEF CreateRole, q
    <3>4. \/ DbAnswers([type |-> "create", id |-> q.id, data |-> new])
          \/ DbAnswers([type |-> "create", id |-> q.id, data |-> None])
      BY <2>2 DEF CreateRole, q
    <3> HIDE DEF new
    <3> QED
      BY <1>3, <1>4, <3>1, <3>2, <3>3, <3>4 DEF TypeOK
  <2>3. CASE StoreRole
    <3>1. [type |-> "store", id |-> q.id] \in Answer
      BY <1>3 DEF Answer
    <3>2. q.type = "store" /\ DbAnswers([type |-> "store", id |-> q.id])
      BY <2>3 DEF StoreRole, q
    <3>3. row' = row \/ row' = [row EXCEPT ![q.id] = IF @ = None THEN @ ELSE q.data]
      BY <2>3 DEF StoreRole, QueryFails, q
    <3> QED
      BY <1>3, <1>4, <3>1, <3>2, <3>3 DEF TypeOK
  <2> QED
    BY <2>1, <2>2, <2>3 DEF DbServer
<1>6. failed' \in [RoleId -> {0, 1}]
  <2>1. failed' = failed \/ failed' = [failed EXCEPT ![q.id] = 1 - @]
    <3>1. CASE FetchRole
      BY <3>1 DEF FetchRole, QueryFails, q
    <3>2. CASE CreateRole
      BY <3>2 DEF CreateRole
    <3>3. CASE StoreRole
      BY <3>3 DEF StoreRole, QueryFails, q
    <3> QED
      BY <3>1, <3>2, <3>3 DEF DbServer
  <2>2. failed \in [RoleId -> {0, 1}]
    BY DEF TypeOK
  <2>3. \A n \in {0, 1} : 1 - n \in {0, 1}
    OBVIOUS
  <2> QED
    BY <2>1, <2>2, <2>3
<1> QED
  BY <1>1, <1>2, <1>5, <1>6 DEF DbHandle, TypeOK, IndexInv, indexes, fields, things

(* Resuming from shared memory links one role for each key.                *)
LEMMA ResumeInv1 ==
  ASSUME Inv1, Resume
  PROVE  Inv1'
<1> USE DEF Inv1
<1>1. PICK ids \in SUBSET used, fds \in SUBSET used :
        /\ OneForEachKey(ids, used, roleId)
        /\ fds \subseteq ids
        /\ OneForEachKey(fds, ids, session)
        /\ idIdx' = ids
        /\ fdIdx' = fds
  BY DEF Resume, Relink
<1>2. /\ proc' = "up"
      /\ UNCHANGED <<crashes, used, fields, things, row, failed, toDb, fromDb>>
  BY DEF Resume, Relink
<1>3. IndexInv'
  BY <1>1, <1>2 DEF OneForEachKey, IndexInv, fields
<1> QED
  BY <1>1, <1>2, <1>3 DEF TypeOK, fields, things

(* Types and indexes are kept by every step of the servers.                *)
LEMMA StepInv1 == Inv1 /\ [Next]_vars => Inv1'
<1> SUFFICES ASSUME Inv1, [Next]_vars
             PROVE  Inv1'
  OBVIOUS
<1>1. CASE ClientRequest
  <2>1. PICK s \in Session :
          \/ \E id \in RoleId :
               \/ \E a \in Area : LoginRequest(s, id, a) \/ LoginPoolFull(s, id, a)
               \/ CreateroleRequest(s, id)
               \/ CreateroleNewRole(s, id)
          \/ CreaterolePoolFull(s)
          \/ LogoutRequest(s)
          \/ \E sc \in Scene : TransportRequest(s, sc)
          \/ TransportNoRole(s)
          \/ EnterInstanceRequest(s)
          \/ LeaveInstanceRequest(s)
          \/ EarnMoney(s)
    BY <1>1 DEF ClientRequest
  <2> QED
    BY <2>1, LoginInv1, CreateroleInv1, LogoutInv1, PlayInv1, DeathInv1
<1>2. CASE RoleDataResponse
  BY <1>2, LoadInv1
<1>3. CASE StoreResponse
  <2>1. fromDb' \in Seq(Answer)
    BY <1>3, HeadTailProperties DEF StoreResponse, Inv1, TypeOK
  <2> QED
    BY <1>3, <2>1 DEF StoreResponse, Inv1, TypeOK, IndexInv, indexes, fields, things
<1>4. CASE DbServer
  BY <1>4, DbServerInv1
<1>5. CASE Kill
  BY <1>5, DeathInv1
<1>6. CASE Resume
  BY <1>6, ResumeInv1
<1>7. CASE UNCHANGED vars
  BY <1>7 DEF vars, Inv1, TypeOK, IndexInv, indexes, fields, things
<1> QED
  BY <1>1, <1>2, <1>3, <1>4, <1>5, <1>6, <1>7 DEF Next, DbResponse

(* An empty pool with empty indexes is where it starts.                    *)
LEMMA InitInv1 == Init => Inv1
<1> SUFFICES ASSUME Init PROVE Inv1
  OBVIOUS
<1>1. row \in [RoleId -> Row \cup {None}]
  BY ConstantsAssumption DEF Init, Row
<1>2. money \in [Slot -> 0..MaxMoney] /\ crashes \in 0..MaxCrash
  BY ConstantsAssumption DEF Init
<1> QED
  BY <1>1, <1>2, EmptySeq DEF Init, Inv1, TypeOK, IndexInv

(* Hence types and indexes hold in every reachable state.                  *)
LEMMA Inv1Always == Spec => []Inv1
BY InitInv1, StepInv1, PTL DEF Spec

(* Every variable has its type in every reachable state, for any number of *)
(* slots, accounts, sessions, scenes, bags and instances.                  *)
THEOREM TypeCorrect == Spec => []TypeOK
<1>1. Inv1 => TypeOK
  BY DEF Inv1
<1> QED
  BY <1>1, Inv1Always, PTL

(* The indexes find used roles only and each key once, under any order of  *)
(* logins, duplicate logins, kicks, logouts, loads, kills and restarts.    *)
THEOREM IndexCorrect == Spec => []IndexInv
<1>1. Inv1 => IndexInv
  BY DEF Inv1
<1> QED
  BY <1>1, Inv1Always, PTL

-----------------------------------------------------------------------------
(* What a step does to the pools: nothing, or it admits, releases, moves   *)
(* or loads a role.                                                        *)
Pools == <<used, named, scene, bag, inst, bags, insts, team>>

GiveUp(E) == /\ bags' = BagsWithout(E)
             /\ insts' = InstsWithout(E)
             /\ team' = TeamWithout(E)

Admits   == \E E \in SUBSET used, s \in Session, id \in RoleId :
              AdmitRole(E, s, id) /\ GiveUp(E)
Releases == \E E \in SUBSET used : ReleaseRoles(E) /\ GiveUp(E)
Moves    == \E s \in Session :
              \/ \E sc \in Scene : TransportRequest(s, sc)
              \/ EnterInstanceRequest(s)
              \/ LeaveInstanceRequest(s)
Loads    == \E r \in used, d \in Row : LoadSucceeds(r, d)

(* Answers of db_srv leave the pools alone, load a role or release one.    *)
LEMMA LoadCases ==
  ASSUME Inv1, RoleDataResponse
  PROVE  UNCHANGED Pools \/ Releases \/ Loads
<1> DEFINE m == Head(fromDb)
<1>1. m \in Answer /\ m.type \in {"fetch", "create"}
  BY HeadTailProperties DEF RoleDataResponse, Inv1, TypeOK
<1>2. m.data \in Row \cup {None}
  BY <1>1 DEF Answer
<1>3. \A r \in ById(m.id) : r \in used
  BY LookupsUsed DEF Inv1
<1>4. \/ UNCHANGED <<used, fields, things>>
      \/ \E r \in ById(m.id) :
           \/ RefusedLogin(r)
           \/ m.data # None /\ (LoadSucceeds(r, m.data) \/ LoadFails(r, m.data) \/ LoadFaults(r, m.data))
  BY DEF RoleDataResponse
<1> HIDE DEF m
<1>5. CASE UNCHANGED <<used, fields, things>>
  BY <1>5 DEF Pools, fields, things
<1>6. ASSUME NEW r \in ById(m.id), RefusedLogin(r)
      PROVE  UNCHANGED Pools
  BY <1>6 DEF RefusedLogin, Pools, fields
<1>7. ASSUME NEW r \in ById(m.id), m.data # None, LoadSucceeds(r, m.data)
      PROVE  Loads
  BY <1>2, <1>3, <1>7 DEF Loads
<1>8. ASSUME NEW r \in ById(m.id), LoadFails(r, m.data)
      PROVE  Releases
  <2>1. {r} \in SUBSET used
    BY <1>3
  <2>2. ReleaseRoles({r}) /\ GiveUp({r})
    BY <1>8 DEF LoadFails, GiveUp
  <2> QED
    BY <2>1, <2>2 DEF Releases
<1>9. ASSUME NEW r \in ById(m.id), LoadFaults(r, m.data)
      PROVE  UNCHANGED Pools
  BY <1>9 DEF LoadFaults, Pools, things
<1> QED
  BY <1>4, <1>5, <1>6, <1>7, <1>8, <1>9

(* Every step is one of these.                                             *)
LEMMA StepCases ==
  ASSUME Inv1, [Next]_vars
  PROVE  UNCHANGED Pools \/ Admits \/ Releases \/ Moves \/ Loads
<1>1. ASSUME NEW s \in Session, NEW id \in RoleId, NEW a \in Area, LoginRequest(s, id, a)
      PROVE  Admits
  <2> DEFINE E == IF a = 0 THEN ById(id) ELSE {}
  <2>1. E \in SUBSET used
    BY LookupsUsed DEF Inv1
  <2>2. AdmitRole(E, s, id) /\ ReleaseThings(E)
    BY <1>1 DEF LoginRequest
  <2> HIDE DEF E
  <2> QED
    BY <2>1, <2>2 DEF Admits, GiveUp, ReleaseThings
<1>2. ASSUME NEW s \in Session, NEW id \in RoleId, CreateroleNewRole(s, id)
      PROVE  Admits
  <2>1. AdmitRole({}, s, id) /\ UNCHANGED things
    BY <1>2 DEF CreateroleNewRole
  <2>2. BagsWithout({}) = bags /\ InstsWithout({}) = insts /\ TeamWithout({}) = team
    BY DEF BagsWithout, InstsWithout, TeamWithout, Inv1, TypeOK
  <2>3. GiveUp({})
    BY <2>1, <2>2 DEF GiveUp, things
  <2> QED
    BY <2>1, <2>3 DEF Admits
<1>3. ASSUME NEW s \in Session, LogoutRequest(s)
      PROVE  Releases
  <2>1. BySession(s) \in SUBSET used
    BY LookupsUsed DEF Inv1
  <2>2. ReleaseRoles(BySession(s)) /\ GiveUp(BySession(s))
    BY <1>3 DEF LogoutRequest, GiveUp, ReleaseThings
  <2> QED
    BY <2>1, <2>2 DEF Releases
<1>4. CASE ClientRequest
  <2>1. PICK s \in Session :
          \/ \E id \in RoleId :
               \/ \E a \in Area : LoginRequest(s, id, a) \/ LoginPoolFull(s, id, a)
               \/ CreateroleRequest(s, id)
               \/ CreateroleNewRole(s, id)
          \/ CreaterolePoolFull(s)
          \/ LogoutRequest(s)
          \/ \E sc \in Scene : TransportRequest(s, sc)
          \/ TransportNoRole(s)
          \/ EnterInstanceRequest(s)
          \/ LeaveInstanceRequest(s)
          \/ EarnMoney(s)
    BY <1>4 DEF ClientRequest
  <2>2. \A id \in RoleId, a \in Area : LoginPoolFull(s, id, a) => UNCHANGED Pools
    BY DEF LoginPoolFull, Pools, fields, things
  <2>3. \A id \in RoleId : CreateroleRequest(s, id) => UNCHANGED Pools
    BY DEF CreateroleRequest, Pools, fields, things
  <2>4. CreaterolePoolFull(s) \/ TransportNoRole(s) => UNCHANGED Pools
    BY DEF CreaterolePoolFull, TransportNoRole, Pools, fields, things
  <2>5. EarnMoney(s) => UNCHANGED Pools
    BY DEF EarnMoney, Pools, things
  <2> QED
    BY <1>1, <1>2, <1>3, <2>1, <2>2, <2>3, <2>4, <2>5 DEF Moves
<1>5. CASE RoleDataResponse
  BY <1>5, LoadCases
<1>6. CASE StoreResponse \/ DbServer \/ Kill \/ Resume \/ UNCHANGED vars
  BY <1>6 DEF StoreResponse, DbServer, FetchRole, CreateRole, StoreRole, DbHandle,
              Kill, Resume, Relink, vars, Pools, fields, things
<1> QED
  BY <1>4, <1>5, <1>6 DEF Next, DbResponse

(* A role with a name keeps its scene and its bag.                         *)
LEMMA StepNamed ==
  ASSUME Inv1, NamedInv, [Next]_vars
  PROVE  NamedInv'
<1> USE DEF NamedInv
<1>1. CASE UNCHANGED Pools
  BY <1>1 DEF Pools
<1>2. CASE Admits
  <2>1. PICK E \in SUBSET used : \E s, id : AdmitRole(E, s, id)
    BY <1>2 DEF Admits
  <2>2. PICK r \in Slot \ (used \ E) :
          used' = (used \ E) \cup {r} /\ InitRoleData(E, r)
    BY <2>1 DEF AdmitRole, Enlist
  <2> QED
    BY <2>2 DEF InitRoleData, Inv1, TypeOK
<1>3. CASE Releases
  BY <1>3 DEF Releases, ReleaseRoles, Delist
<1>4. CASE Moves
  <2>1. None \notin Scene
    BY ConstantsAssumption DEF RowScene
  <2>2. /\ UNCHANGED <<used, named, bag>>
        /\ \A q \in Slot : scene'[q] = scene[q] \/ scene'[q] \in Scene
    BY <1>4 DEF Moves, TransportRequest, EnterInstanceRequest, LeaveInstanceRequest, Inv1, TypeOK
  <2> QED
    BY <2>1, <2>2 DEF Inv1, TypeOK
<1>5. CASE Loads
  <2>1. PICK r \in used, d \in Row, b \in FreeBags :
          /\ d.scene \in Scene
          /\ bag' = [bag EXCEPT ![r] = b]
          /\ named' = [named EXCEPT ![r] = TRUE]
          /\ scene' = [scene EXCEPT ![r] = d.scene]
          /\ used' = used
    BY <1>5 DEF Loads, LoadSucceeds
  <2>2. None \notin Scene /\ None \notin Bag
    BY ConstantsAssumption DEF RowScene
  <2> QED
    BY <2>1, <2>2 DEF FreeBags, Inv1, TypeOK
<1> QED
  BY <1>1, <1>2, <1>3, <1>4, <1>5, StepCases

(* No step makes two roles share a bag, or frees a bag in use.             *)
LEMMA StepBag ==
  ASSUME Inv1, BagInv, [Next]_vars
  PROVE  BagInv'
<1> USE DEF BagInv
<1>1. CASE UNCHANGED Pools
  BY <1>1 DEF Pools
<1>2. CASE Admits
  <2>1. PICK E \in SUBSET used : GiveUp(E) /\ \E s, id : AdmitRole(E, s, id)
    BY <1>2 DEF Admits
  <2>2. PICK r \in Slot \ (used \ E) :
          used' = (used \ E) \cup {r} /\ InitRoleData(E, r)
    BY <2>1 DEF AdmitRole, Enlist
  <2>3. bag' = [bag EXCEPT ![r] = None] /\ bags' = BagsWithout(E)
    BY <2>1, <2>2 DEF InitRoleData, GiveUp
  <2>4. bag'[r] = None /\ \A q \in used' : q # r => q \in used \ E /\ bag'[q] = bag[q]
    BY <2>2, <2>3 DEF Inv1, TypeOK
  <2>5. \A q \in used \ E : bag[q] # None => bag[q] \in bags'
    BY <2>3 DEF BagsWithout
  <2> QED
    BY <2>2, <2>4, <2>5
<1>3. CASE Releases
  BY <1>3 DEF Releases, ReleaseRoles, Delist, GiveUp, BagsWithout
<1>4. CASE Moves
  BY <1>4 DEF Moves, TransportRequest, EnterInstanceRequest, LeaveInstanceRequest
<1>5. CASE Loads
  <2>1. PICK r \in used, b \in FreeBags :
          /\ bags' = bags \cup {b}
          /\ bag' = [bag EXCEPT ![r] = b]
          /\ used' = used
    BY <1>5 DEF Loads, LoadSucceeds
  <2> QED
    BY <2>1 DEF FreeBags, Inv1, TypeOK
<1> QED
  BY <1>1, <1>2, <1>3, <1>4, <1>5, StepCases

(* Giving up the roles E leaves each instance the others, and destroys the *)
(* instances that have none left.                                          *)
LEMMA GiveUpInstances ==
  ASSUME InstanceInv, NEW E \in SUBSET used,
         insts' = InstsWithout(E), team' = TeamWithout(E)
  PROVE  /\ insts' = {i \in Instance : team'[i] # {}}
         /\ \A i \in Instance : team'[i] = {q \in used \ E : inst[q] = i}
<1>1. \A i \in Instance : team'[i] = team[i] \ {q \in E : inst[q] = i}
  BY DEF TeamWithout
<1>2. \A i \in Instance : team'[i] = {q \in used \ E : inst[q] = i}
  BY <1>1 DEF InstanceInv
<1>3. insts' = {i \in insts : team'[i] # {} \/ \A q \in E : inst[q] # i}
  BY DEF InstsWithout
<1>4. \A i \in Instance : (\A q \in E : inst[q] # i) => team'[i] = team[i]
  BY <1>1
<1>5. \A i \in Instance : team'[i] # {} => i \in insts
  BY <1>1 DEF InstanceInv
<1> QED
  BY <1>2, <1>3, <1>4, <1>5 DEF InstanceInv

(* No step leaves an instance without roles, or a role without its entry.  *)
LEMMA StepInstance ==
  ASSUME Inv1, InstanceInv, [Next]_vars
  PROVE  InstanceInv'
<1>0. None \notin Instance
  BY ConstantsAssumption
<1>1. CASE UNCHANGED Pools
  BY <1>1 DEF Pools, InstanceInv
<1>2. CASE Admits
  <2>1. PICK E \in SUBSET used : GiveUp(E) /\ \E s, id : AdmitRole(E, s, id)
    BY <1>2 DEF Admits
  <2>2. PICK r \in Slot \ (used \ E) :
          used' = (used \ E) \cup {r} /\ InitRoleData(E, r)
    BY <2>1 DEF AdmitRole, Enlist
  <2>3. inst' = [InstWithout(E) EXCEPT ![r] = None]
    BY <2>2 DEF InitRoleData
  <2>4. inst'[r] = None /\ \A q \in used \ E : q # r /\ inst'[q] = inst[q]
    BY <2>2, <2>3 DEF InstWithout, Inv1, TypeOK
  <2>5. \A i \in Instance : {q \in used \ E : inst[q] = i} = {q \in used' : inst'[q] = i}
    BY <1>0, <2>2, <2>4
  <2> QED
    BY <2>1, <2>5, GiveUpInstances DEF InstanceInv, GiveUp
<1>3. CASE Releases
  <2>1. PICK E \in SUBSET used : GiveUp(E) /\ ReleaseRoles(E)
    BY <1>3 DEF Releases
  <2>2. used' = used \ E /\ \A q \in used \ E : inst'[q] = inst[q]
    BY <2>1 DEF ReleaseRoles, Delist, InstWithout, Inv1, TypeOK
  <2>3. \A i \in Instance : {q \in used \ E : inst[q] = i} = {q \in used' : inst'[q] = i}
    BY <2>2
  <2> QED
    BY <2>1, <2>3, GiveUpInstances DEF InstanceInv, GiveUp
<1>4. CASE Moves
  <2>1. PICK s \in Session :
          \/ \E sc \in Scene : TransportRequest(s, sc)
          \/ EnterInstanceRequest(s)
          \/ LeaveInstanceRequest(s)
    BY <1>4 DEF Moves
  <2>2. ASSUME NEW sc \in Scene, TransportRequest(s, sc)
        PROVE  InstanceInv'
    BY <2>2 DEF TransportRequest, InstanceInv
  <2>3. CASE EnterInstanceRequest(s)
    <3>1. PICK r \in BySession(s), i \in Instance \ insts :
            /\ inst[r] = None
            /\ insts' = insts \cup {i}
            /\ team' = [team EXCEPT ![i] = {r}]
            /\ inst' = [inst EXCEPT ![r] = i]
            /\ used' = used
      BY <2>3 DEF EnterInstanceRequest
    <3>2. r \in used /\ r \in Slot
      BY LookupsUsed DEF Inv1
    <3>3. team[i] = {}
      BY <3>1 DEF InstanceInv
    <3>4. inst'[r] = i /\ \A q \in used : q # r => inst'[q] = inst[q]
      BY <3>1, <3>2 DEF Inv1, TypeOK
    <3>5. team'[i] = {r} /\ \A j \in Instance : j # i => team'[j] = team[j]
      BY <3>1 DEF Inv1, TypeOK
    <3>6. \A j \in Instance : team'[j] = {q \in used' : inst'[q] = j}
      BY <1>0, <3>1, <3>2, <3>3, <3>4, <3>5 DEF InstanceInv
    <3>7. insts' = {j \in Instance : team'[j] # {}}
      BY <3>1, <3>5 DEF InstanceInv
    <3> QED
      BY <3>6, <3>7 DEF InstanceInv
  <2>4. CASE LeaveInstanceRequest(s)
    <3>1. PICK r \in BySession(s) :
            /\ insts' = InstsWithout({r})
            /\ team' = TeamWithout({r})
            /\ inst' = InstWithout({r})
            /\ used' = used
      BY <2>4 DEF LeaveInstanceRequest
    <3>2. {r} \in SUBSET used
      BY LookupsUsed DEF Inv1
    <3>3. /\ insts' = {i \in Instance : team'[i] # {}}
          /\ \A i \in Instance : team'[i] = {q \in used \ {r} : inst[q] = i}
      BY <3>1, <3>2, GiveUpInstances
    <3>4. inst'[r] = None /\ \A q \in used \ {r} : inst'[q] = inst[q]
      BY <3>1, <3>2 DEF InstWithout, Inv1, TypeOK
    <3>5. \A i \in Instance : {q \in used \ {r} : inst[q] = i} = {q \in used' : inst'[q] = i}
      BY <1>0, <3>1, <3>4
    <3> QED
      BY <3>3, <3>5 DEF InstanceInv
  <2> QED
    BY <2>1, <2>2, <2>3, <2>4
<1>5. CASE Loads
  BY <1>5 DEF Loads, LoadSucceeds, InstanceInv
<1> QED
  BY <1>1, <1>2, <1>3, <1>4, <1>5, StepCases

IInv == Inv1 /\ NamedInv /\ BagInv /\ InstanceInv

(* The four invariants together are inductive.                             *)
LEMMA IInvAlways == Spec => []IInv
<1>1. Init => IInv
  <2>1. Init => NamedInv /\ BagInv /\ InstanceInv
    BY DEF Init, NamedInv, BagInv, InstanceInv
  <2> QED
    BY <2>1, InitInv1 DEF IInv
<1>2. IInv /\ [Next]_vars => IInv'
  BY StepInv1, StepNamed, StepBag, StepInstance DEF IInv
<1> QED
  BY <1>1, <1>2, PTL DEF Spec

(* A role that plays can always be stored: it has a scene and a bag.       *)
THEOREM NamedCorrect == Spec => []NamedInv
<1>1. IInv => NamedInv
  BY DEF IInv
<1> QED
  BY <1>1, IInvAlways, PTL

(* No bag is shared and none is freed under a role, whatever the clients   *)
(* do and wherever game_srv is killed.                                     *)
THEOREM BagsCorrect == Spec => []BagInv
<1>1. IInv => BagInv
  BY DEF IInv
<1> QED
  BY <1>1, IInvAlways, PTL

(* Instances and roles point at each other, and no instance outlives its   *)
(* last role.                                                              *)
THEOREM InstancesCorrect == Spec => []InstanceInv
<1>1. IInv => InstanceInv
  BY DEF IInv
<1> QED
  BY <1>1, IInvAlways, PTL

(* Bags and instances have exactly the owners that point at them, whatever *)
(* happens to role_logout, load and kick in between.                       *)
THEOREM OwnersCorrect == Spec => []OwnersInv
<1>1. IInv => OwnersInv
  BY DEF IInv, OwnersInv
<1> QED
  BY <1>1, IInvAlways, PTL

-----------------------------------------------------------------------------
(* Nothing is released unstored.                                           *)

Stored(r) ==
  \E k \in Len(toDb) + 1 .. Len(toDb') :
    toDb'[k] = [type |-> "store", id |-> roleId[r],
                data |-> [scene |-> scene[r], money |-> money'[r]]]

(* What is sent first stands right behind what was sent before.            *)
LEMMA FirstBehind ==
  ASSUME NEW S, NEW sent \in Seq(S), NEW x \in S, NEW rest \in Seq(S)
  PROVE  \E k \in Len(sent) + 1 .. Len(sent \o (<<x>> \o rest)) :
           (sent \o (<<x>> \o rest))[k] = x
<1> DEFINE one == <<x>>
           more == one \o rest
           t == sent \o more
<1>1. one \in Seq(S) /\ Len(one) = 1 /\ one[1] = x
  OBVIOUS
<1> HIDE DEF one
<1>2. more \in Seq(S) /\ Len(more) = 1 + Len(rest) /\ more[1] = x
  <2>1. /\ more \in Seq(S) /\ Len(more) = Len(one) + Len(rest)
        /\ \A i \in 1 .. Len(one) + Len(rest) :
             more[i] = IF i <= Len(one) THEN one[i] ELSE rest[i - Len(one)]
    BY <1>1, ConcatProperties
  <2>2. Len(rest) \in Nat
    BY LenProperties
  <2> HIDE DEF more
  <2> QED
    BY <1>1, <2>1, <2>2
<1> HIDE DEF more
<1>3. Len(sent) \in Nat /\ Len(rest) \in Nat
  BY LenProperties
<1>4. Len(t) = Len(sent) + Len(more)
  BY <1>2, ConcatProperties
<1>5. t[Len(sent) + 1] = more[1]
  <2>1. \A i \in 1 .. Len(sent) + Len(more) :
          t[i] = IF i <= Len(sent) THEN sent[i] ELSE more[i - Len(sent)]
    BY <1>2, ConcatProperties
  <2>2. Len(sent) + 1 \in 1 .. Len(sent) + Len(more)
    BY <1>2, <1>3
  <2>3. Len(sent) + 1 - Len(sent) = 1 /\ ~(Len(sent) + 1 <= Len(sent))
    BY <1>3
  <2> HIDE DEF t
  <2> QED
    BY <2>1, <2>2, <2>3
<1>6. Len(sent) + 1 \in Len(sent) + 1 .. Len(t)
  BY <1>2, <1>3, <1>4
<1>7. t[Len(sent) + 1] = x
  BY <1>2, <1>5
<1> HIDE DEF t
<1>8. \E k \in Len(sent) + 1 .. Len(t) : t[k] = x
  BY <1>6, <1>7
<1> QED
  BY <1>8 DEF t, more, one

(* Requests that begin with the store of r hold it behind the old ones.    *)
LEMMA StoreIsSent ==
  ASSUME Inv1, NamedInv, NEW r \in used, named[r],
         NEW mon \in [Slot -> 0..MaxMoney], mon[r] = money'[r],
         NEW rest \in Seq(Request),
         toDb' = toDb \o (StoreRequests({r}, mon) \o rest)
  PROVE  Stored(r)
<1>1. Storable({r}) = {r}
  BY DEF Storable, NamedInv
<1>2. (CHOOSE q \in Storable({r}) : TRUE) = r
  BY <1>1
<1>3. StoreRequests({r}, mon) = <<StoreOf(r, mon)>>
  BY <1>1, <1>2 DEF StoreRequests
<1>4. StoreOf(r, mon) \in Request
  BY StoreOfType DEF Inv1, NamedInv
<1>5. toDb \in Seq(Request)
  BY DEF Inv1, TypeOK
<1>6. toDb' = toDb \o (<<StoreOf(r, mon)>> \o rest)
  BY <1>3
<1> DEFINE x == StoreOf(r, mon)
           t == toDb \o (<<x>> \o rest)
<1> HIDE DEF x
<1>7. \E k \in Len(toDb) + 1 .. Len(t) : t[k] = x
  <2>1. x \in Request
    BY <1>4 DEF x
  <2> QED
    BY <1>5, <2>1, FirstBehind
<1>8. toDb' = t
  BY <1>6 DEF x
<1> HIDE DEF t
<1> QED
  BY <1>7, <1>8 DEF Stored, StoreOf, x

(* A lookup returns the role alone.                                        *)
LEMMA LookupSingle ==
  ASSUME IndexInv
  PROVE  /\ \A id : \A r \in ById(id) : ById(id) = {r}
         /\ \A s : \A r \in BySession(s) : BySession(s) = {r}
BY DEF IndexInv, ById, BySession

(* A kick, a logout and a refused load store the role they release.        *)
LEMMA StepStored ==
  ASSUME Inv1, NamedInv, [Next]_vars, NEW r \in used, named[r], r \notin used' \/ ~named'[r]
  PROVE  Stored(r)
<1>0. r \in Slot /\ money \in [Slot -> 0..MaxMoney] /\ toDb \in Seq(Request)
  BY DEF Inv1, TypeOK
<1>1. ASSUME NEW s \in Session, NEW id \in RoleId, NEW a \in Area, LoginRequest(s, id, a)
      PROVE  Stored(r)
  <2> DEFINE E == IF a = 0 THEN ById(id) ELSE {}
  <2>1. AdmitRole(E, s, id) /\ toDb' = toDb \o LoginMessages(E, id)
    BY <1>1 DEF LoginRequest
  <2>2. \A q \in E : E = {q}
    BY LookupSingle DEF Inv1
  <2> HIDE DEF E
  <2>3. r \in E
    BY <1>0, <2>1 DEF AdmitRole, Enlist, InitRoleData, Inv1, TypeOK
  <2>4. E = {r}
    BY <2>2, <2>3
  <2>5. money' = money
    BY <2>1 DEF AdmitRole, Enlist, InitRoleData
  <2> QED
    BY <1>0, <2>1, <2>4, <2>5, FetchRequestType, StoreIsSent DEF LoginMessages
<1>2. ASSUME NEW s \in Session, NEW id \in RoleId, CreateroleNewRole(s, id)
      PROVE  FALSE
  <2>1. AdmitRole({}, s, id)
    BY <1>2 DEF CreateroleNewRole
  <2> QED
    BY <1>0, <2>1 DEF AdmitRole, Enlist, InitRoleData, Inv1, TypeOK
<1>3. ASSUME NEW s \in Session, LogoutRequest(s)
      PROVE  Stored(r)
  <2> DEFINE E == BySession(s)
  <2>1. ReleaseRoles(E) /\ toDb' = toDb \o StoreRequests(E, money) /\ money' = money
    BY <1>3 DEF LogoutRequest
  <2>2. \A q \in E : E = {q}
    BY LookupSingle DEF Inv1
  <2> HIDE DEF E
  <2>3. E = {r}
    BY <2>1, <2>2 DEF ReleaseRoles, Delist
  <2>4. StoreRequests({r}, money) \in Seq(Request)
    BY <1>0, StoreRequestsType DEF Inv1
  <2>5. StoreRequests({r}, money) \o <<>> = StoreRequests({r}, money) /\ <<>> \in Seq(Request)
    BY <2>4, ConcatEmptySeq, EmptySeq
  <2> QED
    BY <1>0, <2>1, <2>3, <2>5, StoreIsSent
<1>4. CASE ClientRequest
  <2>1. PICK s \in Session :
          \/ \E id \in RoleId :
               \/ \E a \in Area : LoginRequest(s, id, a) \/ LoginPoolFull(s, id, a)
               \/ CreateroleRequest(s, id)
               \/ CreateroleNewRole(s, id)
          \/ CreaterolePoolFull(s)
          \/ LogoutRequest(s)
          \/ \E sc \in Scene : TransportRequest(s, sc)
          \/ TransportNoRole(s)
          \/ EnterInstanceRequest(s)
          \/ LeaveInstanceRequest(s)
          \/ EarnMoney(s)
    BY <1>4 DEF ClientRequest
  <2>2. \A id \in RoleId, a \in Area :
          LoginPoolFull(s, id, a) \/ CreateroleRequest(s, id) => UNCHANGED <<used, named>>
    BY DEF LoginPoolFull, CreateroleRequest, fields
  <2>3. CreaterolePoolFull(s) \/ TransportNoRole(s) => UNCHANGED <<used, named>>
    BY DEF CreaterolePoolFull, TransportNoRole, fields
  <2>4. EnterInstanceRequest(s) \/ LeaveInstanceRequest(s) \/ EarnMoney(s) => UNCHANGED <<used, named>>
    BY DEF EnterInstanceRequest, LeaveInstanceRequest, EarnMoney
  <2>5. \A sc \in Scene : TransportRequest(s, sc) => UNCHANGED <<used, named>>
    BY DEF TransportRequest
  <2>6. \A id \in RoleId : CreateroleRequest(s, id) => UNCHANGED <<used, named>>
    BY DEF CreateroleRequest, fields
  <2> QED
    BY <1>1, <1>2, <1>3, <2>1, <2>2, <2>3, <2>4, <2>5, <2>6
<1>5. CASE RoleDataResponse
  <2> DEFINE m == Head(fromDb)
  <2>1. \/ UNCHANGED <<used, named>>
        \/ \E q \in ById(m.id) :
             m.data # None /\ (LoadSucceeds(q, m.data) \/ LoadFails(q, m.data))
    BY <1>5 DEF RoleDataResponse, RefusedLogin, LoadFaults, fields
  <2>2. PICK q \in ById(m.id) :
          m.data # None /\ (LoadSucceeds(q, m.data) \/ LoadFails(q, m.data))
    BY <2>1
  <2>3. CASE LoadSucceeds(q, m.data)
    BY <1>0, <2>3 DEF LoadSucceeds, Inv1, TypeOK
  <2>4. CASE LoadFails(q, m.data)
    <3> DEFINE mon == [money EXCEPT ![q] = m.data.money]
    <3>1. ReleaseRoles({q}) /\ money' = mon /\ toDb' = toDb \o StoreRequests({q}, mon)
      BY <2>4 DEF LoadFails
    <3>2. q = r
      BY <3>1 DEF ReleaseRoles, Delist
    <3>3. mon \in [Slot -> 0..MaxMoney]
      <4>1. m \in Answer /\ m.type \in {"fetch", "create"}
        BY <1>5, HeadTailProperties DEF RoleDataResponse, Inv1, TypeOK
      <4>2. m.data \in Row
        BY <2>2, <4>1 DEF Answer
      <4> QED
        BY <1>0, <4>2 DEF Row
    <3> HIDE DEF mon
    <3>4. StoreRequests({r}, mon) \in Seq(Request)
      BY <3>3, StoreRequestsType DEF Inv1
    <3>5. StoreRequests({r}, mon) \o <<>> = StoreRequests({r}, mon) /\ <<>> \in Seq(Request)
      BY <3>4, ConcatEmptySeq, EmptySeq
    <3> QED
      BY <3>1, <3>2, <3>3, <3>5, StoreIsSent
  <2> QED
    BY <2>2, <2>3, <2>4
<1>6. CASE StoreResponse \/ DbServer \/ Kill \/ Resume \/ UNCHANGED vars
  BY <1>6 DEF StoreResponse, DbServer, FetchRole, CreateRole, StoreRole, DbHandle,
              Kill, Resume, Relink, vars, fields
<1> QED
  BY <1>4, <1>5, <1>6 DEF Next, DbResponse

(* No role with data ever leaves game_srv without a store of its last      *)
(* scene and money behind everything sent before, in any instance and with *)
(* kills of the server.                                                    *)
THEOREM ReleaseStores == Spec => StoredOnRelease
<1>1. IInv /\ [Next]_vars =>
        [\A r \in used :
           named[r] /\ (r \notin used' \/ ~named'[r]) =>
             \E k \in Len(toDb) + 1 .. Len(toDb') :
               toDb'[k] = [type |-> "store", id |-> roleId[r],
                           data |-> [scene |-> scene[r], money |-> money'[r]]]]_vars
  BY StepStored DEF IInv, Stored
<1> QED
  BY <1>1, IInvAlways, PTL DEF Spec, StoredOnRelease

-----------------------------------------------------------------------------
(* No load is stale.                                                       *)

Line == Seq(Request \cup Answer)

(* The message at k is the last load of id in the line s.                  *)
LastLoad(s, id, k) ==
  /\ k \in DOMAIN s /\ s[k].type # "store" /\ s[k].id = id
  /\ \A j \in k + 1 .. Len(s) : s[j].id = id => s[j].type = "store"

(* No store of id is behind its last load.                                 *)
NotOvertaken(s, id) ==
  \A k \in DOMAIN s : LastLoad(s, id, k) => \A j \in k + 1 .. Len(s) : s[j].id # id

(* What answers the last load of id is what the table holds.               *)
AnswerFresh(id) ==
  \A k \in DOMAIN fromDb :
    LastLoad(InFlight, id, k) /\ fromDb[k].data # None => fromDb[k].data = row[id]

Fresh(id) == NotOvertaken(InFlight, id) /\ AnswerFresh(id)

(* The line is the answers with the requests behind them.                  *)
LEMMA LineOf ==
  ASSUME NEW a \in Seq(Answer), NEW b \in Seq(Request)
  PROVE  /\ a \in Line /\ b \in Line /\ a \o b \in Line
         /\ Len(a) \in Nat /\ Len(b) \in Nat
         /\ Len(a \o b) = Len(a) + Len(b)
         /\ DOMAIN a = 1 .. Len(a) /\ DOMAIN b = 1 .. Len(b)
         /\ DOMAIN (a \o b) = 1 .. Len(a \o b)
         /\ \A k \in 1 .. Len(a) : (a \o b)[k] = a[k]
         /\ \A k \in 1 .. Len(b) : (a \o b)[Len(a) + k] = b[k]
<1>1. a \in Line /\ b \in Line
  BY SeqMonotonic DEF Line
<1>2. /\ a \o b \in Line
      /\ Len(a \o b) = Len(a) + Len(b)
      /\ \A i \in 1 .. Len(a) + Len(b) :
           (a \o b)[i] = IF i <= Len(a) THEN a[i] ELSE b[i - Len(a)]
  BY <1>1, ConcatProperties DEF Line
<1>3. /\ Len(a) \in Nat /\ Len(b) \in Nat
      /\ DOMAIN a = 1 .. Len(a) /\ DOMAIN b = 1 .. Len(b)
      /\ DOMAIN (a \o b) = 1 .. Len(a \o b)
  BY <1>1, <1>2, LenProperties DEF Line
<1>4. /\ \A k \in 1 .. Len(a) : (a \o b)[k] = a[k]
      /\ \A k \in 1 .. Len(b) : (a \o b)[Len(a) + k] = b[k]
  BY <1>2, <1>3
<1> QED
  BY <1>1, <1>2, <1>3, <1>4

(* LoadIsFresh says that every linked account is fresh until the first     *)
(* kill.                                                                   *)
LEMMA FreshMeans ==
  ASSUME Inv1
  PROVE  LoadIsFresh <=> (crashes = 0 => \A r \in idIdx : Fresh(roleId[r]))
<1>1. \A r \in idIdx : \A k \in DOMAIN InFlight :
        LastLoad(InFlight, roleId[r], k) <=>
          /\ InFlight[k].type # "store"
          /\ InFlight[k].id = roleId[r]
          /\ \A j \in k + 1 .. Len(InFlight) :
               InFlight[j].id = InFlight[k].id => InFlight[j].type = "store"
  BY DEF LastLoad
<1>2. \A k \in DOMAIN fromDb : k \in DOMAIN InFlight /\ InFlight[k] = fromDb[k]
  BY LineOf DEF Inv1, TypeOK, InFlight
<1>3. ASSUME LoadIsFresh, crashes = 0, NEW r \in idIdx
      PROVE  Fresh(roleId[r])
  <2>1. NotOvertaken(InFlight, roleId[r])
    BY <1>1, <1>3 DEF LoadIsFresh, NotOvertaken, LastLoad
  <2>2. AnswerFresh(roleId[r])
    BY <1>1, <1>2, <1>3 DEF LoadIsFresh, AnswerFresh, LastLoad
  <2> QED
    BY <2>1, <2>2 DEF Fresh
<1>4. ASSUME crashes = 0 => \A r \in idIdx : Fresh(roleId[r])
      PROVE  LoadIsFresh
  BY <1>1, <1>2, <1>4 DEF LoadIsFresh, Fresh, NotOvertaken, AnswerFresh, LastLoad
<1> QED
  BY <1>3, <1>4

(* A line that ends in a load of id has that load for the last one.        *)
LEMMA EndsInLoad ==
  ASSUME NEW s \in Line, NEW id, Len(s) # 0, s[Len(s)].type # "store", s[Len(s)].id = id
  PROVE  NotOvertaken(s, id) /\ \A k : LastLoad(s, id, k) => k = Len(s)
<1>1. Len(s) \in Nat /\ DOMAIN s = 1 .. Len(s)
  BY LenProperties DEF Line
<1>2. \A k : LastLoad(s, id, k) => k = Len(s)
  BY <1>1 DEF LastLoad
<1> QED
  BY <1>1, <1>2 DEF NotOvertaken

(* Messages of other accounts behind the line change nothing for id.       *)
LEMMA OthersBehind ==
  ASSUME NEW s \in Line, NEW t \in Line, NEW id, Len(s) <= Len(t),
         \A k \in 1 .. Len(s) : t[k] = s[k],
         \A k \in Len(s) + 1 .. Len(t) : t[k].id # id
  PROVE  /\ \A k : LastLoad(t, id, k) => LastLoad(s, id, k)
         /\ NotOvertaken(s, id) => NotOvertaken(t, id)
<1>1. /\ Len(s) \in Nat /\ DOMAIN s = 1 .. Len(s)
      /\ Len(t) \in Nat /\ DOMAIN t = 1 .. Len(t)
  BY LenProperties DEF Line
<1>2. \A k : LastLoad(t, id, k) => LastLoad(s, id, k)
  BY <1>1 DEF LastLoad
<1> QED
  BY <1>1, <1>2 DEF NotOvertaken, LastLoad

(* Nor does the loss of the first message.                                 *)
LEMMA FirstTaken ==
  ASSUME NEW s \in Line, NEW id, s # <<>>
  PROVE  /\ \A k : LastLoad(Tail(s), id, k) => LastLoad(s, id, k + 1)
         /\ NotOvertaken(s, id) => NotOvertaken(Tail(s), id)
<1>1. /\ Tail(s) \in Line /\ Len(Tail(s)) = Len(s) - 1
      /\ \A i \in 1 .. Len(Tail(s)) : Tail(s)[i] = s[i + 1]
  BY HeadTailProperties DEF Line
<1>2. /\ Len(s) \in Nat /\ DOMAIN s = 1 .. Len(s)
      /\ DOMAIN Tail(s) = 1 .. Len(Tail(s))
  BY <1>1, LenProperties DEF Line
<1> DEFINE t == Tail(s)
<1> HIDE DEF t
<1>3. ASSUME NEW k, LastLoad(t, id, k)
      PROVE  LastLoad(s, id, k + 1)
  <2>1. k \in 1 .. Len(t) /\ t[k] = s[k + 1]
    BY <1>1, <1>2, <1>3 DEF LastLoad, t
  <2>2. ASSUME NEW j \in k + 1 + 1 .. Len(s), s[j].id = id
        PROVE  s[j].type = "store"
    <3>1. j - 1 \in k + 1 .. Len(t) /\ t[j - 1] = s[j]
      BY <1>1, <1>2, <2>1 DEF t
    <3> QED
      BY <1>3, <2>2, <3>1 DEF LastLoad
  <2> QED
    BY <1>1, <1>2, <1>3, <2>1, <2>2 DEF LastLoad, t
<1>4. ASSUME NotOvertaken(s, id), NEW k \in DOMAIN t, LastLoad(t, id, k), NEW j \in k + 1 .. Len(t)
      PROVE  t[j].id # id
  <2>1. LastLoad(s, id, k + 1) /\ k + 1 \in DOMAIN s /\ j + 1 \in k + 1 + 1 .. Len(s)
    BY <1>1, <1>2, <1>3, <1>4 DEF t
  <2>2. t[j] = s[j + 1]
    BY <1>1, <1>2, <1>4 DEF t
  <2> QED
    BY <1>4, <2>1, <2>2 DEF NotOvertaken
<1> QED
  BY <1>3, <1>4 DEF NotOvertaken, t

(* Nor does a message that is replaced by one of the same kind.            *)
LEMMA OneAnswered ==
  ASSUME NEW s \in Line, NEW t \in Line, NEW id, Len(s) = Len(t),
         \A k \in 1 .. Len(s) : s[k].type = t[k].type /\ s[k].id = t[k].id
  PROVE  /\ \A k : LastLoad(t, id, k) <=> LastLoad(s, id, k)
         /\ NotOvertaken(s, id) => NotOvertaken(t, id)
<1>1. /\ Len(s) \in Nat /\ DOMAIN s = 1 .. Len(s)
      /\ DOMAIN t = 1 .. Len(t)
  BY LenProperties DEF Line
<1>2. \A k : LastLoad(t, id, k) <=> LastLoad(s, id, k)
  BY <1>1 DEF LastLoad
<1> QED
  BY <1>1, <1>2 DEF NotOvertaken

(* The first answer leaves the line when it leaves the answers.            *)
LEMMA FirstLeaves ==
  ASSUME NEW a \in Seq(Answer), NEW b \in Seq(Request), a # <<>>
  PROVE  /\ Tail(a) \in Seq(Answer)
         /\ a \o b # <<>> /\ Tail(a \o b) = Tail(a) \o b
         /\ \A k \in DOMAIN Tail(a) : k + 1 \in DOMAIN a /\ Tail(a)[k] = a[k + 1]
<1>1. /\ Tail(a) \in Seq(Answer) /\ Len(Tail(a)) = Len(a) - 1
      /\ \A k \in 1 .. Len(Tail(a)) : Tail(a)[k] = a[k + 1]
  BY HeadTailProperties
<1>2. Len(a) \in Nat \ {0} /\ DOMAIN a = 1 .. Len(a) /\ DOMAIN Tail(a) = 1 .. Len(Tail(a))
  BY <1>1, EmptySeq, LenProperties
<1> DEFINE s == a \o b
           t == Tail(a) \o b
<1>3. /\ s \in Line /\ Len(s) = Len(a) + Len(b) /\ Len(b) \in Nat
      /\ \A k \in 1 .. Len(a) : s[k] = a[k]
      /\ \A k \in 1 .. Len(b) : s[Len(a) + k] = b[k]
  BY LineOf
<1>4. /\ t \in Line /\ Len(t) = Len(Tail(a)) + Len(b)
      /\ \A k \in 1 .. Len(Tail(a)) : t[k] = Tail(a)[k]
      /\ \A k \in 1 .. Len(b) : t[Len(Tail(a)) + k] = b[k]
  BY <1>1, LineOf
<1>5. s # <<>>
  BY LineOf, ConcatEqualIffEmpty DEF Line
<1> HIDE DEF s, t
<1>6. /\ Tail(s) \in Line /\ Len(Tail(s)) = Len(s) - 1
      /\ \A k \in 1 .. Len(Tail(s)) : Tail(s)[k] = s[k + 1]
  BY <1>3, <1>5, HeadTailProperties DEF Line
<1>7. ASSUME NEW k \in 1 .. Len(t)
      PROVE  t[k] = Tail(s)[k]
  <2>1. CASE k <= Len(Tail(a))
    BY <1>1, <1>2, <1>3, <1>4, <1>6, <2>1
  <2>2. CASE ~(k <= Len(Tail(a)))
    <3> DEFINE i == k - Len(Tail(a))
    <3>1. i \in 1 .. Len(b) /\ k = Len(Tail(a)) + i /\ k + 1 = Len(a) + i /\ k \in 1 .. Len(Tail(s))
      BY <1>1, <1>2, <1>3, <1>4, <1>6, <2>2
    <3> HIDE DEF i
    <3>2. t[k] = b[i]
      BY <1>4, <3>1
    <3>3. s[k + 1] = b[i]
      BY <1>3, <3>1
    <3>4. Tail(s)[k] = s[k + 1]
      BY <1>6, <3>1
    <3> QED
      BY <3>2, <3>3, <3>4
  <2> QED
    BY <2>1, <2>2
<1>8. Tail(s) = t
  BY <1>1, <1>2, <1>3, <1>4, <1>6, <1>7, SeqEqual DEF Line
<1> QED
  BY <1>1, <1>2, <1>5, <1>8 DEF s, t

(* Taking an answer keeps fresh what was fresh.                            *)
LEMMA FreshTaken ==
  ASSUME NEW a \in Seq(Answer), NEW b \in Seq(Request), NEW id, NEW d, a # <<>>,
         NotOvertaken(a \o b, id),
         \A k \in DOMAIN a : LastLoad(a \o b, id, k) /\ a[k].data # None => a[k].data = d
  PROVE  /\ NotOvertaken(Tail(a) \o b, id)
         /\ \A k \in DOMAIN Tail(a) :
              LastLoad(Tail(a) \o b, id, k) /\ Tail(a)[k].data # None => Tail(a)[k].data = d
<1> DEFINE s == a \o b
           t == Tail(a) \o b
<1>1. s \in Line /\ s # <<>> /\ t = Tail(s)
  BY FirstLeaves, LineOf
<1>2. /\ NotOvertaken(s, id)
      /\ \A k \in DOMAIN a : LastLoad(s, id, k) /\ a[k].data # None => a[k].data = d
  OBVIOUS
<1> HIDE DEF s, t
<1>3. NotOvertaken(t, id) /\ \A k : LastLoad(t, id, k) => LastLoad(s, id, k + 1)
  BY <1>1, <1>2, FirstTaken
<1>4. \A k \in DOMAIN Tail(a) : k + 1 \in DOMAIN a /\ Tail(a)[k] = a[k + 1]
  BY FirstLeaves
<1>5. ASSUME NEW k \in DOMAIN Tail(a), LastLoad(t, id, k), Tail(a)[k].data # None
      PROVE  Tail(a)[k].data = d
  <2>1. LastLoad(s, id, k + 1)
    BY <1>3, <1>5
  <2>2. k + 1 \in DOMAIN a /\ a[k + 1] = Tail(a)[k]
    BY <1>4
  <2> QED
    BY <1>2, <1>5, <2>1, <2>2
<1> QED
  BY <1>3, <1>5 DEF t

(* Requests of other accounts may be sent, and an answer be taken before   *)
(* that: what was fresh stays fresh.                                       *)
LEMMA FreshSent ==
  ASSUME TypeOK, TypeOK', NEW id, Fresh(id), NEW e \in Seq(Request),
         toDb' = toDb \o e, \A k \in 1 .. Len(e) : e[k].id # id,
         fromDb' = fromDb \/ (fromDb # <<>> /\ fromDb' = Tail(fromDb)),
         row' = row
  PROVE  Fresh(id)'
<1> DEFINE s == fromDb' \o toDb
           t == fromDb' \o toDb'
<1>1. /\ fromDb \in Seq(Answer) /\ fromDb' \in Seq(Answer)
      /\ toDb \in Seq(Request) /\ toDb' \in Seq(Request)
  BY DEF TypeOK
<1>2. /\ NotOvertaken(s, id)
      /\ \A k \in DOMAIN fromDb' :
           LastLoad(s, id, k) /\ fromDb'[k].data # None => fromDb'[k].data = row[id]
  BY <1>1, FreshTaken DEF Fresh, AnswerFresh, InFlight
<1>3. s \in Line /\ t \in Line /\ e \in Line
  BY <1>1, LineOf, SeqMonotonic DEF Line
<1>4. t = s \o e
  <2>1. fromDb' \in Line /\ toDb \in Line
    BY <1>1, LineOf
  <2>2. \A x, y, z \in Line : (x \o y) \o z = x \o (y \o z)
    BY ConcatAssociative DEF Line
  <2>3. (fromDb' \o toDb) \o e = fromDb' \o (toDb \o e)
    BY <1>3, <2>1, <2>2
  <2> QED
    BY <2>3
<1> HIDE DEF s, t
<1>5. /\ Len(s) \in Nat /\ Len(e) \in Nat
      /\ Len(t) = Len(s) + Len(e)
      /\ \A k \in 1 .. Len(s) + Len(e) : t[k] = IF k <= Len(s) THEN s[k] ELSE e[k - Len(s)]
  BY <1>3, <1>4, ConcatProperties, LenProperties DEF Line
<1>6. \A k \in 1 .. Len(s) : t[k] = s[k]
  BY <1>5
<1>7. ASSUME NEW k \in Len(s) + 1 .. Len(t)
      PROVE  t[k].id # id
  <2>1. k - Len(s) \in 1 .. Len(e) /\ t[k] = e[k - Len(s)]
    BY <1>5
  <2> QED
    BY <2>1
<1>8. NotOvertaken(t, id) /\ \A k : LastLoad(t, id, k) => LastLoad(s, id, k)
  BY <1>2, <1>3, <1>5, <1>6, <1>7, OthersBehind
<1>9. InFlight' = t
  BY DEF InFlight, t
<1> QED
  BY <1>2, <1>8, <1>9 DEF Fresh, AnswerFresh

(* A load sent as the last message makes its account fresh.                *)
LEMMA FreshLoad ==
  ASSUME TypeOK, TypeOK', NEW id, NEW e \in Seq(Request), NEW m \in Request,
         toDb' = toDb \o (e \o <<m>>), m.type # "store", m.id = id, fromDb' = fromDb
  PROVE  Fresh(id)'
<1> DEFINE t == fromDb' \o toDb'
           b == toDb \o e
<1>1. toDb \in Seq(Request) /\ fromDb' \in Seq(Answer) /\ toDb' \in Seq(Request)
  BY DEF TypeOK
<1>2. b \in Seq(Request) /\ <<m>> \in Seq(Request) /\ toDb' = b \o <<m>>
  <2>1. <<m>> \in Seq(Request)
    OBVIOUS
  <2> QED
    BY <1>1, <2>1, ConcatProperties, ConcatAssociative
<1> HIDE DEF b
<1>3. Len(b) \in Nat /\ Len(toDb') = Len(b) + 1 /\ toDb'[Len(b) + 1] = m
  <2> DEFINE one == <<m>>
  <2>1. one \in Seq(Request) /\ Len(one) = 1 /\ one[1] = m /\ toDb' = b \o one
    BY <1>2
  <2> HIDE DEF one
  <2>2. /\ Len(b \o one) = Len(b) + Len(one)
        /\ \A i \in 1 .. Len(b) + Len(one) : (b \o one)[i] = IF i <= Len(b) THEN b[i] ELSE one[i - Len(b)]
    BY <1>2, <2>1, ConcatProperties
  <2>3. Len(b) \in Nat
    BY <1>2, LenProperties
  <2> QED
    BY <2>1, <2>2, <2>3
<1>4. /\ t \in Line /\ Len(t) = Len(fromDb') + Len(toDb') /\ Len(fromDb') \in Nat
      /\ DOMAIN fromDb' = 1 .. Len(fromDb')
      /\ \A k \in 1 .. Len(toDb') : t[Len(fromDb') + k] = toDb'[k]
  BY <1>1, LineOf
<1> HIDE DEF t
<1>5. NotOvertaken(t, id) /\ \A k : LastLoad(t, id, k) => k = Len(t)
  <2>1. Len(t) # 0 /\ Len(t) = Len(fromDb') + (Len(b) + 1) /\ Len(b) + 1 \in 1 .. Len(toDb')
    BY <1>3, <1>4
  <2>2. t[Len(t)] = m
    BY <1>3, <1>4, <2>1
  <2> QED
    BY <1>4, <2>1, <2>2, EndsInLoad
<1>6. \A k \in DOMAIN fromDb' : k # Len(t)
  BY <1>3, <1>4
<1>7. InFlight' = t
  BY DEF InFlight, t
<1> QED
  BY <1>5, <1>6, <1>7 DEF Fresh, AnswerFresh

(* The answer of db_srv takes the place of the request in the line.        *)
LEMMA HeadAnswered ==
  ASSUME NEW a \in Seq(Answer), NEW b \in Seq(Request), NEW m \in Answer, b # <<>>,
         m.type = Head(b).type, m.id = Head(b).id
  PROVE  /\ Len(a \o b) = Len(Append(a, m) \o Tail(b))
         /\ \A k \in 1 .. Len(a \o b) : /\ (a \o b)[k].type = (Append(a, m) \o Tail(b))[k].type
                                        /\ (a \o b)[k].id = (Append(a, m) \o Tail(b))[k].id
         /\ Len(a) + 1 \in 1 .. Len(a \o b) /\ (a \o b)[Len(a) + 1] = Head(b)
<1> DEFINE c == Append(a, m)
           d == Tail(b)
           s == a \o b
           t == c \o d
<1>1. /\ d \in Seq(Request) /\ Len(d) = Len(b) - 1 /\ Head(b) = b[1]
      /\ \A i \in 1 .. Len(d) : d[i] = b[i + 1]
  BY HeadTailProperties
<1>2. /\ c \in Seq(Answer) /\ Len(c) = Len(a) + 1
      /\ \A i \in 1 .. Len(a) : c[i] = a[i]
      /\ c[Len(a) + 1] = m
  BY AppendProperties
<1>3. Len(b) \in Nat \ {0}
  BY EmptySeq
<1> HIDE DEF c, d
<1>4. /\ Len(s) = Len(a) + Len(b) /\ Len(a) \in Nat
      /\ \A k \in 1 .. Len(a) : s[k] = a[k]
      /\ \A k \in 1 .. Len(b) : s[Len(a) + k] = b[k]
  BY LineOf
<1>5. /\ Len(t) = Len(c) + Len(d)
      /\ \A k \in 1 .. Len(c) : t[k] = c[k]
      /\ \A k \in 1 .. Len(d) : t[Len(c) + k] = d[k]
  BY <1>1, <1>2, LineOf
<1> HIDE DEF s, t
<1>6. ASSUME NEW k \in 1 .. Len(s)
      PROVE  s[k].type = t[k].type /\ s[k].id = t[k].id
  <2>1. CASE k <= Len(a)
    BY <1>2, <1>4, <1>5, <2>1
  <2>2. CASE k = Len(a) + 1
    BY <1>1, <1>2, <1>3, <1>4, <1>5, <2>2
  <2>3. CASE ~(k <= Len(a) + 1)
    <3>1. /\ k - Len(a) \in 1 .. Len(b) /\ k = Len(a) + (k - Len(a))
          /\ k - Len(c) \in 1 .. Len(d) /\ k = Len(c) + (k - Len(c))
          /\ k - Len(c) + 1 = k - Len(a)
      BY <1>1, <1>2, <1>3, <1>4, <2>3
    <3>2. s[k] = b[k - Len(a)] /\ t[k] = d[k - Len(c)]
      BY <1>4, <1>5, <3>1
    <3> QED
      BY <1>1, <3>1, <3>2
  <2> QED
    BY <1>4, <2>1, <2>2, <2>3
<1>7. Len(a) + 1 \in 1 .. Len(s) /\ s[Len(a) + 1] = Head(b)
  BY <1>1, <1>3, <1>4
<1> QED
  BY <1>1, <1>2, <1>3, <1>4, <1>5, <1>6, <1>7 DEF c, d, s, t

(* What db_srv does while game_srv runs: the answer holds what the table   *)
(* holds after it, and only the row of the request changes.                *)
LEMMA DbServerAnswers ==
  ASSUME TypeOK, DbServer, proc = "up"
  PROVE  /\ toDb # <<>> /\ toDb' = Tail(toDb)
         /\ \A id \in RoleId : id # Head(toDb).id => row'[id] = row[id]
         /\ Head(toDb).id \in RoleId
         /\ \E m \in Answer :
              /\ fromDb' = Append(fromDb, m)
              /\ m.type = Head(toDb).type /\ m.id = Head(toDb).id
              /\ m.type # "store" /\ m.data # None => m.data = row'[m.id]
<1> DEFINE q == Head(toDb)
<1>1. DbHandle
  BY DEF DbServer, FetchRole, CreateRole, StoreRole
<1>2. toDb # <<>> /\ toDb' = Tail(toDb) /\ q \in Request
  BY <1>1, HeadTailProperties DEF DbHandle, TypeOK
<1>3. q.id \in RoleId
  BY <1>2 DEF Request
<1> HIDE DEF q
<1>4. CASE FetchRole
  <2> DEFINE m(d) == [type |-> "fetch", id |-> q.id, data |-> d]
  <2>1. \A d \in Row \cup {None} :
          m(d) \in Answer /\ m(d).type = "fetch" /\ m(d).id = q.id /\ m(d).data = d
    BY <1>3 DEF Answer
  <2>2. row' = row /\ q.type = "fetch"
    BY <1>4 DEF FetchRole, QueryFails, q
  <2>3. row[q.id] \in Row \cup {None}
    BY <1>3 DEF TypeOK
  <2>4. \E d \in {row[q.id], None} : fromDb' = Append(fromDb, m(d))
    BY <1>4 DEF FetchRole, DbAnswers, q
  <2> HIDE DEF m
  <2>5. PICK d \in Row \cup {None} :
          fromDb' = Append(fromDb, m(d)) /\ (d # None => d = row'[q.id])
    BY <2>2, <2>3, <2>4
  <2> QED
    BY <1>2, <1>3, <2>1, <2>2, <2>5 DEF q
<1>5. CASE CreateRole
  <2> DEFINE new == [scene |-> StartScene, money |-> 0]
             good == [type |-> "create", id |-> q.id, data |-> new]
             bad == [type |-> "create", id |-> q.id, data |-> None]
  <2>1. good \in Answer /\ bad \in Answer
    BY <1>3, ConstantsAssumption DEF Answer, Row
  <2>2. q.type = "create"
    BY <1>5 DEF CreateRole, q
  <2>3. \/ row' = [row EXCEPT ![q.id] = new] /\ fromDb' = Append(fromDb, good)
        \/ row' \in {row, [row EXCEPT ![q.id] = new]} /\ fromDb' = Append(fromDb, bad)
    BY <1>5 DEF CreateRole, DbAnswers, q
  <2>4. row \in [RoleId -> Row \cup {None}]
    BY DEF TypeOK
  <2>5. good.type = "create" /\ good.id = q.id /\ good.data = new
    OBVIOUS
  <2>6. bad.type = "create" /\ bad.id = q.id /\ bad.data = None
    OBVIOUS
  <2> HIDE DEF new, good, bad
  <2>7. CASE row' = [row EXCEPT ![q.id] = new] /\ fromDb' = Append(fromDb, good)
    BY <1>2, <1>3, <2>1, <2>2, <2>4, <2>5, <2>7 DEF q
  <2>8. CASE row' \in {row, [row EXCEPT ![q.id] = new]} /\ fromDb' = Append(fromDb, bad)
    <3>1. \A id \in RoleId : id # q.id => row'[id] = row[id]
      BY <2>4, <2>8
    <3> QED
      BY <1>2, <1>3, <2>1, <2>2, <2>6, <2>8, <3>1 DEF q
  <2> QED
    BY <2>3, <2>7, <2>8
<1>6. CASE StoreRole
  <2> DEFINE m == [type |-> "store", id |-> q.id]
  <2>1. m \in Answer
    BY <1>3 DEF Answer
  <2>2. fromDb' = Append(fromDb, m) /\ q.type = "store"
    BY <1>6 DEF StoreRole, DbAnswers, q
  <2>3. \A id \in RoleId : id # q.id => row'[id] = row[id]
    BY <1>6 DEF StoreRole, QueryFails, TypeOK, q
  <2> QED
    BY <1>2, <1>3, <2>1, <2>2, <2>3 DEF q
<1> QED
  BY <1>4, <1>5, <1>6 DEF DbServer

(* db_srv keeps fresh what was fresh, because the store of a row it        *)
(* changes would be behind the last load.                                  *)
LEMMA FreshAnswered ==
  ASSUME TypeOK, NEW id \in RoleId, Fresh(id), DbServer, proc = "up"
  PROVE  Fresh(id)'
<1>1. /\ fromDb \in Seq(Answer) /\ toDb \in Seq(Request)
      /\ toDb # <<>> /\ toDb' = Tail(toDb)
      /\ id # Head(toDb).id => row'[id] = row[id]
  BY DbServerAnswers DEF TypeOK
<1>2. PICK m \in Answer :
         /\ fromDb' = Append(fromDb, m)
         /\ m.type = Head(toDb).type /\ m.id = Head(toDb).id
         /\ m.type # "store" /\ m.data # None => m.data = row'[m.id]
  BY DbServerAnswers
<1> DEFINE s == fromDb \o toDb
           t == fromDb' \o toDb'
<1>3. /\ Len(s) = Len(t)
      /\ \A k \in 1 .. Len(s) : s[k].type = t[k].type /\ s[k].id = t[k].id
      /\ Len(fromDb) + 1 \in 1 .. Len(s) /\ s[Len(fromDb) + 1] = Head(toDb)
  BY <1>1, <1>2, HeadAnswered
<1>4. Append(fromDb, m) \in Seq(Answer) /\ Tail(toDb) \in Seq(Request)
  BY <1>1, AppendProperties, HeadTailProperties
<1>5. /\ s \in Line /\ t \in Line /\ DOMAIN s = 1 .. Len(s)
      /\ DOMAIN fromDb = 1 .. Len(fromDb) /\ Len(fromDb) \in Nat
  BY <1>1, <1>2, <1>4, LineOf
<1>6. s = InFlight /\ t = InFlight'
  BY DEF InFlight
<1> HIDE DEF s, t
<1>7. NotOvertaken(t, id) /\ \A k : LastLoad(t, id, k) <=> LastLoad(s, id, k)
  BY <1>3, <1>5, <1>6, OneAnswered DEF Fresh
<1>8. ASSUME NEW k \in DOMAIN fromDb', LastLoad(t, id, k), fromDb'[k].data # None
      PROVE  fromDb'[k].data = row'[id]
  <2>1. LastLoad(s, id, k) /\ k \in 1 .. Len(s)
    BY <1>5, <1>7, <1>8 DEF LastLoad
  <2>2. /\ DOMAIN fromDb' = 1 .. Len(fromDb) + 1
        /\ fromDb'[Len(fromDb) + 1] = m
        /\ \A i \in 1 .. Len(fromDb) : fromDb'[i] = fromDb[i]
    BY <1>1, <1>2, AppendProperties, <1>4, LenProperties
  <2>3. CASE k = Len(fromDb) + 1
    <3>1. m.type # "store" /\ m.id = id
      BY <1>2, <1>3, <2>1, <2>3 DEF LastLoad
    <3> QED
      BY <1>2, <1>8, <2>2, <2>3, <3>1
  <2>4. CASE k \in 1 .. Len(fromDb)
    <3>1. Len(fromDb) + 1 \in k + 1 .. Len(s)
      BY <1>3, <1>5, <2>4
    <3>2. \A j \in k + 1 .. Len(s) : s[j].id # id
      BY <1>5, <1>6, <2>1 DEF Fresh, NotOvertaken
    <3>3. Head(toDb).id # id
      BY <1>3, <3>1, <3>2
    <3>4. fromDb'[k] = fromDb[k] /\ fromDb[k].data = row[id]
      BY <1>5, <1>6, <1>8, <2>1, <2>2, <2>4 DEF Fresh, AnswerFresh
    <3> QED
      BY <1>1, <3>3, <3>4
  <2> QED
    BY <1>5, <1>8, <2>2, <2>3, <2>4
<1> QED
  BY <1>6, <1>7, <1>8 DEF Fresh, AnswerFresh

(* The release of roles of other accounts sends nothing of id.             *)
LEMMA StoresOfOthers ==
  ASSUME NEW E, NEW mon, NEW id, \A q \in E : roleId[q] # id
  PROVE  \A k \in 1 .. Len(StoreRequests(E, mon)) : StoreRequests(E, mon)[k].id # id
<1>1. CASE Storable(E) = {}
  BY <1>1 DEF StoreRequests
<1>2. CASE Storable(E) # {}
  <2> DEFINE q == CHOOSE p \in Storable(E) : TRUE
  <2>1. q \in E
    BY <1>2 DEF Storable
  <2> HIDE DEF q
  <2>2. StoreRequests(E, mon) = <<StoreOf(q, mon)>>
    BY <1>2 DEF StoreRequests, q
  <2>3. StoreOf(q, mon).id # id
    BY <2>1 DEF StoreOf
  <2> QED
    BY <2>2, <2>3
<1> QED
  BY <1>1, <1>2

(* A login makes its account fresh and leaves the others alone.            *)
LEMMA FreshLogin ==
  ASSUME Inv1, Inv1', \A p \in idIdx : Fresh(roleId[p]),
         NEW s \in Session, NEW new \in RoleId, NEW a \in Area, LoginRequest(s, new, a),
         NEW r \in idIdx', NEW id, id = roleId'[r]
  PROVE  Fresh(id)'
<1> USE DEF Inv1
<1> DEFINE E == IF a = 0 THEN ById(new) ELSE {}
           e == StoreRequests(E, money)
<1>1. E \in SUBSET used /\ \A q \in E : roleId[q] = new
  BY LookupsUsed DEF ById
<1>2. /\ AdmitRole(E, s, new)
      /\ toDb' = toDb \o LoginMessages(E, new)
      /\ UNCHANGED <<row, failed, fromDb>>
  BY DEF LoginRequest
<1> HIDE DEF E
<1>3. e \in Seq(Request)
  BY <1>1, StoreRequestsType DEF TypeOK
<1> DEFINE m == [type |-> "fetch", id |-> new]
<1>4. m \in Request /\ m.type # "store" /\ m.id = new
  BY DEF Request
<1>5. toDb' = toDb \o (e \o <<m>>)
  BY <1>2 DEF LoginMessages, FetchRequest
<1>6. CASE id = new
  <2> HIDE DEF m, e
  <2> QED
    BY <1>2, <1>3, <1>4, <1>5, <1>6, FreshLoad
<1>7. CASE id # new
  <2>1. r \in idIdx /\ roleId[r] = id
    BY <1>2, <1>7 DEF AdmitRole, Enlist, LinkId, TypeOK
  <2>2. \A k \in 1 .. Len(e) : e[k].id # id
    BY <1>1, <1>7, StoresOfOthers
  <2> HIDE DEF e
  <2>3. /\ e \o <<m>> \in Seq(Request)
        /\ \A k \in 1 .. Len(e \o <<m>>) : (e \o <<m>>)[k].id # id
    <3> DEFINE one == <<m>>
    <3>1. one \in Seq(Request) /\ Len(one) = 1 /\ one[1].id # id
      BY <1>4, <1>7
    <3> HIDE DEF one
    <3>2. /\ e \o one \in Seq(Request) /\ Len(e \o one) = Len(e) + Len(one) /\ Len(e) \in Nat
          /\ \A k \in 1 .. Len(e) + Len(one) : (e \o one)[k] = IF k <= Len(e) THEN e[k] ELSE one[k - Len(e)]
      BY <1>3, <3>1, ConcatProperties, LenProperties
    <3>3. \A k \in 1 .. Len(e \o one) : (e \o one)[k].id # id
      <4> SUFFICES ASSUME NEW k \in 1 .. Len(e \o one)
                   PROVE  (e \o one)[k].id # id
        OBVIOUS
      <4>1. CASE k <= Len(e)
        BY <2>2, <3>1, <3>2, <4>1
      <4>2. CASE ~(k <= Len(e))
        <5>1. k - Len(e) = 1
          BY <3>1, <3>2, <4>2
        <5> QED
          BY <3>1, <3>2, <4>2, <5>1
      <4> QED
        BY <4>1, <4>2
    <3> QED
      BY <3>2, <3>3 DEF one
  <2> QED
    BY <1>2, <1>5, <2>1, <2>3, FreshSent
<1> QED
  BY <1>6, <1>7

(* So does a request for a new role.                                       *)
LEMMA FreshCreate ==
  ASSUME Inv1, Inv1', \A p \in idIdx : Fresh(roleId[p]),
         NEW s \in Session, NEW new \in RoleId,
         CreateroleRequest(s, new) \/ CreateroleNewRole(s, new),
         NEW r \in idIdx', NEW id, id = roleId'[r]
  PROVE  Fresh(id)'
<1> USE DEF Inv1
<1> DEFINE m == [type |-> "create", id |-> new]
           one == <<m>>
<1>1. m \in Request /\ m.type # "store" /\ m.id = new
  BY DEF Request
<1>2. toDb' = Append(toDb, m) /\ UNCHANGED <<row, failed, fromDb>>
  BY DEF CreateroleRequest, CreateroleNewRole
<1>3. toDb \in Seq(Request) /\ <<>> \in Seq(Request)
  BY EmptySeq DEF TypeOK
<1> HIDE DEF m
<1>4. one \in Seq(Request) /\ Len(one) = 1 /\ one[1] = m /\ toDb' = toDb \o one /\ one = <<>> \o <<m>>
  BY <1>1, <1>2, <1>3
<1>5. CASE id = new
  BY <1>1, <1>2, <1>3, <1>4, <1>5, FreshLoad
<1>6. CASE id # new
  <2>1. r \in idIdx /\ roleId[r] = id
    <3>1. CASE CreateroleRequest(s, new)
      BY <3>1 DEF CreateroleRequest, indexes, fields
    <3>2. CASE CreateroleNewRole(s, new)
      BY <1>6, <3>2 DEF CreateroleNewRole, AdmitRole, Enlist, LinkId, TypeOK
    <3> QED
      BY <3>1, <3>2
  <2>2. \A k \in 1 .. Len(one) : one[k].id # id
    BY <1>1, <1>4, <1>6
  <2> QED
    BY <1>2, <1>4, <2>1, <2>2, FreshSent
<1> QED
  BY <1>5, <1>6

(* A release of one linked role leaves the other linked accounts alone,    *)
(* also when it is the end of a load.                                      *)
LEMMA FreshRelease ==
  ASSUME Inv1, Inv1', \A p \in idIdx : Fresh(roleId[p]),
         NEW q \in idIdx, NEW mon \in [Slot -> 0..MaxMoney],
         ReleaseRoles({q}), toDb' = toDb \o StoreRequests({q}, mon), row' = row,
         fromDb' = fromDb \/ (fromDb # <<>> /\ fromDb' = Tail(fromDb)),
         NEW r \in idIdx', NEW id, id = roleId'[r]
  PROVE  Fresh(id)'
<1> USE DEF Inv1
<1>1. r \in idIdx /\ r # q /\ roleId[r] = id
  BY DEF ReleaseRoles, Delist
<1>2. roleId[q] # id
  BY <1>1 DEF IndexInv
<1>3. StoreRequests({q}, mon) \in Seq(Request)
  BY StoreRequestsType DEF IndexInv
<1>4. \A k \in 1 .. Len(StoreRequests({q}, mon)) : StoreRequests({q}, mon)[k].id # id
  BY <1>2, StoresOfOthers
<1> DEFINE e == StoreRequests({q}, mon)
<1> HIDE DEF e
<1>5. e \in Seq(Request) /\ toDb' = toDb \o e /\ \A k \in 1 .. Len(e) : e[k].id # id
  BY <1>3, <1>4 DEF e
<1> QED
  BY <1>1, <1>5, FreshSent

(* A step that sends nothing leaves all accounts alone, also when it takes *)
(* an answer.                                                              *)
LEMMA FreshQuiet ==
  ASSUME Inv1, Inv1', \A p \in idIdx : Fresh(roleId[p]),
         UNCHANGED <<idIdx, roleId, toDb, row, failed>>,
         fromDb' = fromDb \/ (fromDb # <<>> /\ fromDb' = Tail(fromDb)),
         NEW r \in idIdx', NEW id, id = roleId'[r]
  PROVE  Fresh(id)'
<1> USE DEF Inv1
<1>1. <<>> \in Seq(Request) /\ toDb' = toDb \o <<>> /\ Len(<<>>) = 0
  BY EmptySeq, ConcatEmptySeq DEF TypeOK
<1>2. Fresh(id)
  OBVIOUS
<1> DEFINE e == <<>>
<1>3. e \in Seq(Request) /\ toDb' = toDb \o e /\ \A k \in 1 .. Len(e) : e[k].id # id
  BY <1>1
<1> HIDE DEF e
<1> QED
  BY <1>2, <1>3, FreshSent

(* Until the first kill every step keeps every linked account fresh.       *)
LEMMA FreshStep ==
  ASSUME Inv1, Inv1', [Next]_vars, crashes = 0, crashes' = 0, proc = "up",
         \A p \in idIdx : Fresh(roleId[p]),
         NEW r \in idIdx', NEW id, id = roleId'[r]
  PROVE  Fresh(id)'
<1>1. ~GoDown
  BY DEF GoDown
<1>2. CASE ClientRequest
  <2>1. PICK s \in Session :
          \/ \E new \in RoleId :
               \/ \E a \in Area : LoginRequest(s, new, a) \/ LoginPoolFull(s, new, a)
               \/ CreateroleRequest(s, new)
               \/ CreateroleNewRole(s, new)
          \/ CreaterolePoolFull(s)
          \/ LogoutRequest(s)
          \/ \E sc \in Scene : TransportRequest(s, sc)
          \/ TransportNoRole(s)
          \/ EnterInstanceRequest(s)
          \/ LeaveInstanceRequest(s)
          \/ EarnMoney(s)
    BY <1>2 DEF ClientRequest
  <2>2. CASE \E new \in RoleId : \E a \in Area : LoginRequest(s, new, a)
    BY <2>2, FreshLogin
  <2>3. CASE \E new \in RoleId : CreateroleRequest(s, new) \/ CreateroleNewRole(s, new)
    BY <2>3, FreshCreate
  <2>4. CASE LogoutRequest(s)
    <3>1. PICK q \in BySession(s) : BySession(s) = {q}
      BY <2>4, LookupSingle DEF LogoutRequest, Inv1
    <3>2. q \in idIdx
      BY <3>1 DEF BySession, Inv1, IndexInv
    <3>3. /\ ReleaseRoles({q}) /\ toDb' = toDb \o StoreRequests({q}, money)
          /\ row' = row /\ fromDb' = fromDb
      BY <2>4, <3>1 DEF LogoutRequest
    <3>4. money \in [Slot -> 0..MaxMoney]
      BY DEF Inv1, TypeOK
    <3> QED
      BY <3>2, <3>3, <3>4, FreshRelease
  <2>5. \A new \in RoleId, a \in Area : ~LoginPoolFull(s, new, a)
    BY <1>1 DEF LoginPoolFull
  <2>6. ~CreaterolePoolFull(s) /\ ~TransportNoRole(s)
    BY <1>1 DEF CreaterolePoolFull, TransportNoRole
  <2>7. CASE \/ \E sc \in Scene : TransportRequest(s, sc)
             \/ EnterInstanceRequest(s)
             \/ LeaveInstanceRequest(s)
             \/ EarnMoney(s)
    <3>1. UNCHANGED <<idIdx, roleId, toDb, row, failed, fromDb>>
      BY <2>7 DEF TransportRequest, EnterInstanceRequest, LeaveInstanceRequest, EarnMoney, indexes
    <3> QED
      BY <3>1, FreshQuiet
  <2> QED
    BY <2>1, <2>2, <2>3, <2>4, <2>5, <2>6, <2>7
<1>3. CASE RoleDataResponse
  <2> DEFINE m == Head(fromDb)
  <2>1. /\ fromDb # <<>>
        /\ \/ /\ fromDb' = Tail(fromDb)
              /\ \/ UNCHANGED <<proc, crashes, used, indexes, fields, things, row, failed, toDb>>
                 \/ \E q \in ById(m.id) : RefusedLogin(q)
                 \/ \E q \in ById(m.id) : m.data # None /\ LoadSucceeds(q, m.data)
                 \/ \E q \in ById(m.id) : m.data # None /\ LoadFails(q, m.data)
           \/ \E q \in ById(m.id) : LoadFaults(q, m.data)
    BY <1>3 DEF RoleDataResponse
  <2>2. m \in Answer /\ m.type \in {"fetch", "create"}
    BY <1>3, HeadTailProperties DEF RoleDataResponse, Inv1, TypeOK
  <2>3. m.data # None => m.data \in Row
    BY <2>2 DEF Answer
  <2> HIDE DEF m
  <2>4. \A q \in ById(m.id) : ~LoadFaults(q, m.data)
    BY <1>1 DEF LoadFaults
  <2>5. CASE fromDb' = Tail(fromDb) /\ UNCHANGED <<proc, crashes, used, indexes, fields, things, row, failed, toDb>>
    <3>1. UNCHANGED <<idIdx, roleId, toDb, row, failed>>
      BY <2>5 DEF indexes, fields
    <3> QED
      BY <2>1, <2>5, <3>1, FreshQuiet
  <2>6. CASE fromDb' = Tail(fromDb) /\ \E q \in ById(m.id) : RefusedLogin(q) \/ LoadSucceeds(q, m.data)
    <3>1. UNCHANGED <<idIdx, roleId, toDb, row, failed>>
      BY <2>6 DEF RefusedLogin, LoadSucceeds, indexes, fields
    <3> QED
      BY <2>1, <2>6, <3>1, FreshQuiet
  <2>7. CASE fromDb' = Tail(fromDb) /\ \E q \in ById(m.id) : m.data # None /\ LoadFails(q, m.data)
    <3>1. PICK q \in ById(m.id) : m.data # None /\ LoadFails(q, m.data)
      BY <2>7
    <3> DEFINE mon == [money EXCEPT ![q] = m.data.money]
    <3>2. q \in idIdx /\ mon \in [Slot -> 0..MaxMoney]
      BY <2>3, <3>1 DEF ById, Row, Inv1, TypeOK
    <3>3. ReleaseRoles({q}) /\ toDb' = toDb \o StoreRequests({q}, mon) /\ row' = row
      BY <3>1 DEF LoadFails
    <3> HIDE DEF mon
    <3> QED
      BY <2>1, <2>7, <3>2, <3>3, FreshRelease
  <2> QED
    BY <2>1, <2>4, <2>5, <2>6, <2>7
<1>4. CASE StoreResponse
  <2>1. UNCHANGED <<idIdx, roleId, toDb, row, failed>> /\ fromDb # <<>> /\ fromDb' = Tail(fromDb)
    BY <1>4 DEF StoreResponse, indexes, fields
  <2> QED
    BY <2>1, FreshQuiet
<1>5. CASE DbServer
  <2>1. UNCHANGED <<idIdx, roleId>>
    BY <1>5 DEF DbServer, FetchRole, CreateRole, StoreRole, DbHandle, indexes, fields
  <2>2. id \in RoleId /\ Fresh(id)
    BY <2>1 DEF Inv1, TypeOK, IndexInv
  <2> QED
    BY <1>5, <2>2, FreshAnswered DEF Inv1
<1>6. CASE UNCHANGED vars
  <2>1. UNCHANGED <<idIdx, roleId, toDb, row, failed, fromDb>>
    BY <1>6 DEF vars, indexes, fields
  <2> QED
    BY <2>1, FreshQuiet
<1>7. ~Kill /\ ~Resume
  BY <1>1 DEF Kill, Resume, Relink
<1> QED
  BY <1>2, <1>3, <1>4, <1>5, <1>6, <1>7 DEF Next, DbResponse

(* Until the first kill game_srv runs and no linked account is overtaken.  *)
FreshInv == crashes = 0 => proc = "up" /\ \A r \in idIdx : Fresh(roleId[r])

LEMMA StepFresh ==
  ASSUME Inv1, Inv1', FreshInv, [Next]_vars
  PROVE  FreshInv'
<1>1. /\ crashes' = 0 => crashes = 0
      /\ crashes' = 0 /\ proc = "up" => proc' = "up"
  <2>1. CASE GoDown
    BY <2>1, ConstantsAssumption DEF GoDown, Inv1, TypeOK
  <2>2. CASE ~GoDown
    <3>1. CASE ClientRequest
      <4>1. UNCHANGED <<proc, crashes>>
        BY <2>2, <3>1 DEF ClientRequest, LoginRequest, LoginPoolFull, CreateroleRequest,
          CreateroleNewRole, CreaterolePoolFull, LogoutRequest, TransportRequest, TransportNoRole,
          EnterInstanceRequest, LeaveInstanceRequest, EarnMoney
      <4> QED
        BY <4>1
    <3>2. CASE DbResponse
      BY <2>2, <3>2 DEF DbResponse, RoleDataResponse, LoadSucceeds, LoadFails, LoadFaults,
        RefusedLogin, StoreResponse
    <3>3. CASE DbServer
      BY <3>3 DEF DbServer, FetchRole, CreateRole, StoreRole, DbHandle
    <3>4. CASE Kill \/ Resume \/ UNCHANGED vars
      BY <2>2, <3>4 DEF Kill, Resume, Relink, vars
    <3> QED
      BY <3>1, <3>2, <3>3, <3>4 DEF Next
  <2> QED
    BY <2>1, <2>2
<1>2. ASSUME crashes' = 0
      PROVE  (\A r \in idIdx : Fresh(roleId[r]))'
  <2>1. crashes = 0 /\ proc = "up" /\ \A p \in idIdx : Fresh(roleId[p])
    BY <1>1, <1>2 DEF FreshInv
  <2> SUFFICES ASSUME NEW r \in idIdx', NEW id, id = roleId'[r]
               PROVE  Fresh(id)'
    OBVIOUS
  <2> QED
    BY <1>2, <2>1, FreshStep
<1> QED
  BY <1>1, <1>2 DEF FreshInv

(* Without a kill no load is overtaken by the store of the role it         *)
(* replaces, and what it brings is what the table holds, for any clients   *)
(* and any number of messages on their way.                                *)
THEOREM LoadsAreFresh == Spec => []LoadIsFresh
<1>1. Init => FreshInv
  BY DEF Init, FreshInv
<1>2. Inv1 /\ Inv1' /\ FreshInv /\ [Next]_vars => FreshInv'
  BY StepFresh
<1>3. Inv1 /\ FreshInv => LoadIsFresh
  BY FreshMeans DEF FreshInv
<1> QED
  BY <1>1, <1>2, <1>3, Inv1Always, PTL DEF Spec

-----------------------------------------------------------------------------
(* GameSrv implements the role table.                                      *)

(* A request of a client changes the table as one of its actions does, or  *)
(* not at all.                                                             *)
LEMMA ClientStepTable ==
  ASSUME Inv1, ClientRequest
  PROVE  TableNext \/ UNCHANGED table
<1>1. PICK s \in Session :
        \/ \E id \in RoleId :
             \/ \E a \in Area : LoginRequest(s, id, a) \/ LoginPoolFull(s, id, a)
             \/ CreateroleRequest(s, id)
             \/ CreateroleNewRole(s, id)
        \/ CreaterolePoolFull(s)
        \/ LogoutRequest(s)
        \/ \E sc \in Scene : TransportRequest(s, sc)
        \/ TransportNoRole(s)
        \/ EnterInstanceRequest(s)
        \/ LeaveInstanceRequest(s)
        \/ EarnMoney(s)
  BY DEF ClientRequest
<1>2. ASSUME NEW id \in RoleId, NEW a \in Area, LoginRequest(s, id, a)
      PROVE  TableNext
  <2> DEFINE E == IF a = 0 THEN ById(id) ELSE {}
  <2>1. proc = "up" /\ AdmitRole(E, s, id)
    BY <1>2 DEF LoginRequest
  <2>2. E \in {ById(id), {}}
    OBVIOUS
  <2> HIDE DEF E
  <2>3. \E r \in Slot \ (used \ E) : Enlist(E, r, s, id)
    BY <2>1 DEF AdmitRole
  <2> QED
    BY <2>1, <2>2, <2>3 DEF TableNext
<1>3. ASSUME NEW id \in RoleId, CreateroleNewRole(s, id)
      PROVE  TableNext
  <2>1. proc = "up" /\ \E r \in Slot \ (used \ {}) : Enlist({}, r, s, id)
    BY <1>3 DEF CreateroleNewRole, AdmitRole
  <2> QED
    BY <2>1 DEF TableNext
<1>4. ASSUME LogoutRequest(s)
      PROVE  TableNext
  <2>1. proc = "up" /\ BySession(s) # {} /\ Delist(BySession(s))
    BY <1>4 DEF LogoutRequest, ReleaseRoles
  <2>2. PICK r \in BySession(s) : BySession(s) = {r}
    BY <2>1, LookupSingle DEF Inv1
  <2>3. r \in idIdx /\ Delist({r})
    BY <2>1, <2>2 DEF BySession, Inv1, IndexInv
  <2> QED
    BY <2>1, <2>3 DEF TableNext
<1>5. \A id \in RoleId, a \in Area : LoginPoolFull(s, id, a) => TableNext
  BY DEF LoginPoolFull, GoDown, TableNext
<1>6. CreaterolePoolFull(s) \/ TransportNoRole(s) => TableNext
  BY DEF CreaterolePoolFull, TransportNoRole, GoDown, TableNext
<1>7. \A id \in RoleId : CreateroleRequest(s, id) => UNCHANGED table
  BY DEF CreateroleRequest, indexes, fields, table
<1>8. \A sc \in Scene : TransportRequest(s, sc) => UNCHANGED table
  BY DEF TransportRequest, indexes, table
<1>9. EnterInstanceRequest(s) \/ LeaveInstanceRequest(s) \/ EarnMoney(s) => UNCHANGED table
  BY DEF EnterInstanceRequest, LeaveInstanceRequest, EarnMoney, indexes, table
<1> QED
  BY <1>1, <1>2, <1>3, <1>4, <1>5, <1>6, <1>7, <1>8, <1>9

(* So does the answer to a load: a refused one delists the role it found.  *)
LEMMA LoadStepTable ==
  ASSUME Inv1, RoleDataResponse
  PROVE  TableNext \/ UNCHANGED table
<1> DEFINE m == Head(fromDb)
<1>1. /\ proc = "up"
      /\ \/ UNCHANGED <<proc, crashes, used, indexes, fields, things, row, failed, toDb>>
         \/ \E r \in ById(m.id) :
              \/ RefusedLogin(r)
              \/ LoadSucceeds(r, m.data)
              \/ LoadFails(r, m.data)
              \/ LoadFaults(r, m.data)
  BY DEF RoleDataResponse
<1> HIDE DEF m
<1>2. CASE UNCHANGED <<proc, crashes, used, indexes, fields, things, row, failed, toDb>>
  BY <1>2 DEF indexes, fields, table
<1>3. ASSUME NEW r \in ById(m.id), RefusedLogin(r) \/ LoadSucceeds(r, m.data)
      PROVE  UNCHANGED table
  BY <1>3 DEF RefusedLogin, LoadSucceeds, indexes, fields, table
<1>4. ASSUME NEW r \in ById(m.id), LoadFails(r, m.data)
      PROVE  TableNext
  <2>1. r \in idIdx /\ Delist({r})
    BY <1>4 DEF ById, LoadFails, ReleaseRoles
  <2> QED
    BY <1>1, <2>1 DEF TableNext
<1>5. ASSUME NEW r \in ById(m.id), LoadFaults(r, m.data)
      PROVE  TableNext
  BY <1>5 DEF LoadFaults, GoDown, TableNext
<1> QED
  BY <1>1, <1>2, <1>3, <1>4, <1>5

(* Whatever game_srv does, its role table makes one step of RoleTable or   *)
(* none: what is shown of the table behind the gateway is about game_srv.  *)
THEOREM ImplementsTable == Spec => TableSpec
<1>1. Init => TableInit
  BY DEF Init, TableInit
<1>2. ASSUME IInv, [Next]_vars
      PROVE  [TableNext]_table
  <2>1. Inv1
    BY <1>2 DEF IInv
  <2>2. CASE StoreResponse \/ DbServer \/ UNCHANGED vars
    BY <2>2 DEF StoreResponse, DbServer, FetchRole, CreateRole, StoreRole, DbHandle,
                indexes, fields, vars, table
  <2>3. CASE Kill \/ Resume
    BY <2>3 DEF Kill, GoDown, Resume, TableNext
  <2> QED
    BY <1>2, <2>1, <2>2, <2>3, ClientStepTable, LoadStepTable DEF Next, DbResponse
<1> QED
  BY <1>1, <1>2, IInvAlways, PTL DEF Spec, TableSpec

-----------------------------------------------------------------------------
(* The two queues between game_srv and db_srv: a the answers, b the        *)
(* requests, rows the table.                                               *)

NoLoad(s, id) == \A k \in DOMAIN s : s[k].id = id => s[k].type = "store"

(* A load is the last message of its account, in one queue and across both.*)
LoadsLast(s) ==
  \A j, k \in DOMAIN s : j < k /\ s[j].id = s[k].id => s[j].type = "store"
LoadsBehind(a, b) ==
  \A j \in DOMAIN a : \A k \in DOMAIN b : a[j].id = b[k].id => a[j].type = "store"

(* What an answer brings is what the table holds.                          *)
AnswersTrue(a, rows) ==
  \A k \in DOMAIN a : a[k].type # "store" /\ a[k].data # None => a[k].data = rows[a[k].id]

(* The table and the stores of id on their way hold no more than amount.   *)
UpTo(b, rows, id, amount) ==
  /\ rows[id] # None
  /\ rows[id].money <= amount
  /\ \A k \in DOMAIN b : b[k].id = id /\ b[k].type = "store" => b[k].data.money <= amount

(* The stores of an account rise, from its row.                            *)
StoresRise(b, rows) ==
  /\ \A k \in DOMAIN b : b[k].type = "store" =>
       rows[b[k].id] # None /\ rows[b[k].id].money <= b[k].data.money
  /\ \A j, k \in DOMAIN b :
       /\ j < k /\ b[j].id = b[k].id
       /\ b[j].type = "store" /\ b[k].type = "store"
       => b[j].data.money <= b[k].data.money

Queues(a, b, rows) ==
  /\ LoadsLast(a) /\ LoadsLast(b) /\ LoadsBehind(a, b)
  /\ AnswersTrue(a, rows)
  /\ StoresRise(b, rows)

(* An account that is online with an amount.                               *)
Online(a, b, rows, id, amount) ==
  NoLoad(a, id) /\ NoLoad(b, id) /\ UpTo(b, rows, id, amount)

Rows == [RoleId -> Row \cup {None}]

(* What a queue holds after a message is sent, read or lost.               *)
LEMMA AppendAt ==
  ASSUME NEW S, NEW s \in Seq(S), NEW m \in S
  PROVE  /\ DOMAIN s = 1 .. Len(s) /\ Len(s) \in Nat
         /\ DOMAIN Append(s, m) = 1 .. Len(s) + 1
         /\ \A k \in 1 .. Len(s) : Append(s, m)[k] = s[k]
         /\ Append(s, m)[Len(s) + 1] = m
BY AppendProperties, LenProperties

LEMMA TailAt ==
  ASSUME NEW S, NEW s \in Seq(S), s # <<>>
  PROVE  /\ DOMAIN s = 1 .. Len(s) /\ Len(s) \in Nat /\ 1 \in DOMAIN s
         /\ Head(s) = s[1] /\ Head(s) \in S
         /\ DOMAIN Tail(s) = 1 .. Len(s) - 1
         /\ \A k \in 1 .. Len(s) - 1 : Tail(s)[k] = s[k + 1] /\ k + 1 \in DOMAIN s
<1>1. Len(s) \in Nat /\ DOMAIN s = 1 .. Len(s) /\ Len(s) # 0
  BY EmptySeq, LenProperties
<1>2. /\ Head(s) = s[1] /\ Head(s) \in S /\ Tail(s) \in Seq(S) /\ Len(Tail(s)) = Len(s) - 1
      /\ \A k \in 1 .. Len(Tail(s)) : Tail(s)[k] = s[k + 1]
  BY HeadTailProperties
<1>3. DOMAIN Tail(s) = 1 .. Len(Tail(s))
  BY <1>2, LenProperties
<1>4. 1 \in DOMAIN s /\ \A k \in 1 .. Len(s) - 1 : k + 1 \in DOMAIN s
  BY <1>1
<1> QED
  BY <1>1, <1>2, <1>3, <1>4

LEMMA PrefixAt ==
  ASSUME NEW S, NEW s \in Seq(S), NEW n \in 0 .. Len(s)
  PROVE  /\ DOMAIN s = 1 .. Len(s) /\ Len(s) \in Nat
         /\ DOMAIN SubSeq(s, 1, n) = 1 .. n
         /\ \A k \in 1 .. n : SubSeq(s, 1, n)[k] = s[k] /\ k \in DOMAIN s
<1>1. Len(s) \in Nat /\ DOMAIN s = 1 .. Len(s)
  BY LenProperties
<1>2. \A i \in 1 .. n : s[i] \in S
  BY <1>1, ElementOfSeq
<1>3. /\ SubSeq(s, 1, n) \in Seq(S)
      /\ Len(SubSeq(s, 1, n)) = n
      /\ \A k \in 1 .. n : SubSeq(s, 1, n)[k] = s[k]
  BY <1>1, <1>2, SubSeqProperties
<1>4. DOMAIN SubSeq(s, 1, n) = 1 .. n
  BY <1>3, LenProperties
<1> QED
  BY <1>1, <1>3, <1>4

(* A message is sent: no load of its account is on its way, and a store    *)
(* holds at least what is on its way already.                              *)
LEMMA QueuesSend ==
  ASSUME NEW a \in Seq(Answer), NEW b \in Seq(Request), NEW rows \in Rows, Queues(a, b, rows),
         NEW m \in Request, NoLoad(a, m.id), NoLoad(b, m.id),
         m.type = "store" => UpTo(b, rows, m.id, m.data.money)
  PROVE  Queues(a, Append(b, m), rows)
<1> DEFINE c == Append(b, m)
<1>1. /\ DOMAIN b = 1 .. Len(b) /\ Len(b) \in Nat
      /\ DOMAIN c = 1 .. Len(b) + 1
      /\ \A k \in 1 .. Len(b) : c[k] = b[k]
      /\ c[Len(b) + 1] = m
  BY AppendAt
<1> HIDE DEF c
<1>2. \A k \in DOMAIN c : k \in DOMAIN b \/ (k = Len(b) + 1 /\ c[k] = m)
  BY <1>1
<1>3. LoadsLast(c)
  BY <1>1, <1>2 DEF LoadsLast, Queues, NoLoad
<1>4. LoadsBehind(a, c)
  BY <1>1, <1>2 DEF LoadsBehind, Queues, NoLoad
<1>5. StoresRise(c, rows)
  <2>1. \A k \in DOMAIN c : c[k].type = "store" =>
          rows[c[k].id] # None /\ rows[c[k].id].money <= c[k].data.money
    BY <1>1, <1>2 DEF StoresRise, Queues, UpTo
  <2>2. \A j, k \in DOMAIN c :
          /\ j < k /\ c[j].id = c[k].id
          /\ c[j].type = "store" /\ c[k].type = "store"
          => c[j].data.money <= c[k].data.money
    BY <1>1, <1>2 DEF StoresRise, Queues, UpTo
  <2> QED
    BY <2>1, <2>2 DEF StoresRise
<1> QED
  BY <1>3, <1>4, <1>5 DEF Queues, c

LEMMA OnlineSend ==
  ASSUME NEW a \in Seq(Answer), NEW b \in Seq(Request), NEW rows,
         NEW id, NEW amount, Online(a, b, rows, id, amount),
         NEW m \in Request, m.id # id
  PROVE  Online(a, Append(b, m), rows, id, amount)
<1> DEFINE c == Append(b, m)
<1>1. /\ DOMAIN b = 1 .. Len(b) /\ Len(b) \in Nat
      /\ DOMAIN c = 1 .. Len(b) + 1
      /\ \A k \in 1 .. Len(b) : c[k] = b[k]
      /\ c[Len(b) + 1] = m
  BY AppendAt
<1> HIDE DEF c
<1>2. \A k \in DOMAIN c : k \in DOMAIN b \/ (k = Len(b) + 1 /\ c[k] = m)
  BY <1>1
<1>3. NoLoad(c, id) /\ UpTo(c, rows, id, amount)
  BY <1>1, <1>2 DEF Online, NoLoad, UpTo
<1> QED
  BY <1>3 DEF Online, c

(* An answer is taken.                                                     *)
LEMMA QueuesTake ==
  ASSUME NEW a \in Seq(Answer), a # <<>>, NEW b, NEW rows, Queues(a, b, rows)
  PROVE  /\ Queues(Tail(a), b, rows)
         /\ \A id, amount : Online(a, b, rows, id, amount) => Online(Tail(a), b, rows, id, amount)
<1> DEFINE c == Tail(a)
<1>1. /\ DOMAIN a = 1 .. Len(a) /\ Len(a) \in Nat
      /\ DOMAIN c = 1 .. Len(a) - 1
      /\ \A k \in 1 .. Len(a) - 1 : c[k] = a[k + 1] /\ k + 1 \in DOMAIN a
  BY TailAt
<1> HIDE DEF c
<1>2. \A j, k \in DOMAIN c : j < k => j + 1 < k + 1
  BY <1>1
<1>3. LoadsLast(c)
  BY <1>1, <1>2 DEF LoadsLast, Queues
<1>4. LoadsBehind(c, b) /\ AnswersTrue(c, rows)
  BY <1>1 DEF LoadsBehind, AnswersTrue, Queues
<1>5. \A id : NoLoad(a, id) => NoLoad(c, id)
  BY <1>1 DEF NoLoad
<1> QED
  BY <1>3, <1>4, <1>5 DEF Queues, Online, c

(* game_srv dies: the answers are lost, and the requests but a prefix.     *)
LEMMA QueuesLose ==
  ASSUME NEW a, NEW b \in Seq(Request), NEW rows, Queues(a, b, rows), NEW n \in 0 .. Len(b)
  PROVE  /\ Queues(<<>>, SubSeq(b, 1, n), rows)
         /\ \A id, amount : Online(a, b, rows, id, amount) =>
                              Online(<<>>, SubSeq(b, 1, n), rows, id, amount)
<1> DEFINE c == SubSeq(b, 1, n)
           e == <<>>
<1>1. /\ DOMAIN c = 1 .. n
      /\ \A k \in 1 .. n : c[k] = b[k] /\ k \in DOMAIN b
  BY PrefixAt
<1>2. DOMAIN e = {}
  OBVIOUS
<1> HIDE DEF c, e
<1>3. LoadsLast(c) /\ StoresRise(c, rows)
  BY <1>1 DEF LoadsLast, StoresRise, Queues
<1>4. LoadsLast(e) /\ LoadsBehind(e, c) /\ AnswersTrue(e, rows)
  BY <1>2 DEF LoadsLast, LoadsBehind, AnswersTrue
<1>5. \A id, amount : Online(a, b, rows, id, amount) => Online(e, c, rows, id, amount)
  BY <1>1, <1>2 DEF Online, NoLoad, UpTo
<1> QED
  BY <1>3, <1>4, <1>5 DEF Queues, c, e

(* db_srv handles the first request m: the table changes for m.id at most, *)
(* by an insert or to what a store brings, and the answer, if it gets      *)
(* through, tells the new row or that the query failed.                    *)
LEMMA QueuesAnswer ==
  ASSUME NEW a \in Seq(Answer), NEW b \in Seq(Request), b # <<>>,
         NEW rows \in Rows, Queues(a, b, rows), NEW rows2 \in Rows,
         NEW m, m = Head(b),
         \A id \in RoleId : id # m.id => rows2[id] = rows[id],
         m.type = "store" => rows2[m.id] = m.data \/ rows2[m.id] = rows[m.id],
         m.type # "store" => rows[m.id] = None \/ rows2[m.id] = rows[m.id],
         NEW x \in Answer, x.id = m.id, x.type = m.type,
         m.type # "store" /\ x.data # None => x.data = rows2[m.id],
         NEW c, c = a \/ c = Append(a, x)
  PROVE  /\ Queues(c, Tail(b), rows2)
         /\ \A id \in RoleId : \A amount :
              Online(a, b, rows, id, amount) => Online(c, Tail(b), rows2, id, amount)
<1> DEFINE d == Tail(b)
<1>1. /\ DOMAIN b = 1 .. Len(b) /\ Len(b) \in Nat /\ 1 \in DOMAIN b
      /\ m = b[1] /\ m \in Request
      /\ DOMAIN d = 1 .. Len(b) - 1
      /\ \A k \in 1 .. Len(b) - 1 : d[k] = b[k + 1] /\ k + 1 \in DOMAIN b
  BY TailAt
<1>2. /\ DOMAIN a = 1 .. Len(a) /\ Len(a) \in Nat
      /\ DOMAIN Append(a, x) = 1 .. Len(a) + 1
      /\ \A k \in 1 .. Len(a) : Append(a, x)[k] = a[k]
      /\ Append(a, x)[Len(a) + 1] = x
  BY AppendAt
<1>3. /\ \A k \in DOMAIN c : (k \in DOMAIN a /\ c[k] = a[k]) \/ (k = Len(a) + 1 /\ c[k] = x)
      /\ \A k \in DOMAIN c : k \in Nat
  BY <1>2
<1> HIDE DEF d
<1>4. \A k \in DOMAIN d : k \in Nat /\ 1 < k + 1 /\ k + 1 \in DOMAIN b /\ d[k] = b[k + 1]
  BY <1>1
<1>5. \A k \in DOMAIN d : d[k].id = m.id => m.type = "store"
  BY <1>1, <1>4 DEF Queues, LoadsLast
<1>6. \A k \in DOMAIN a : a[k].id = m.id => a[k].type = "store"
  BY <1>1 DEF Queues, LoadsBehind
<1>7. LoadsLast(c)
  BY <1>2, <1>3, <1>6 DEF LoadsLast, Queues
<1>8. LoadsLast(d)
  BY <1>4 DEF LoadsLast, Queues
<1>9. LoadsBehind(c, d)
  BY <1>3, <1>4, <1>5 DEF LoadsBehind, Queues
<1>10. AnswersTrue(c, rows2)
  <2> SUFFICES ASSUME NEW k \in DOMAIN c, c[k].type # "store", c[k].data # None
               PROVE  c[k].data = rows2[c[k].id]
    BY DEF AnswersTrue
  <2>1. CASE c[k] = x
    BY <2>1
  <2>2. CASE k \in DOMAIN a /\ c[k] = a[k]
    <3>1. a[k].id # m.id /\ a[k].id \in RoleId
      BY <1>2, <1>6, <2>2, ElementOfSeq DEF Answer
    <3> QED
      BY <2>2, <3>1 DEF AnswersTrue, Queues
  <2> QED
    BY <1>3, <2>1, <2>2
<1>11. StoresRise(d, rows2)
  <2>1. ASSUME NEW k \in DOMAIN d, d[k].type = "store"
        PROVE  rows2[d[k].id] # None /\ rows2[d[k].id].money <= d[k].data.money
    <3>1. d[k].id \in RoleId
      BY <1>1, <1>4, ElementOfSeq DEF Request
    <3>2. CASE d[k].id # m.id
      BY <1>4, <2>1, <3>1, <3>2 DEF StoresRise, Queues
    <3>3. CASE d[k].id = m.id
      <4>1. m.type = "store" /\ m.data \in Row
        BY <1>1, <1>5, <3>3 DEF Request
      <4>2. m.data # None
        BY <4>1, ConstantsAssumption
      <4>3. b[1].data.money <= b[k + 1].data.money
        BY <1>1, <1>4, <2>1, <3>3, <4>1 DEF StoresRise, Queues
      <4>4. rows[m.id] # None /\ rows[m.id].money <= b[k + 1].data.money
        BY <1>4, <2>1, <3>3 DEF StoresRise, Queues
      <4> QED
        BY <1>1, <1>4, <3>3, <4>1, <4>2, <4>3, <4>4
    <3> QED
      BY <3>2, <3>3
  <2>2. \A j, k \in DOMAIN d :
          /\ j < k /\ d[j].id = d[k].id
          /\ d[j].type = "store" /\ d[k].type = "store"
          => d[j].data.money <= d[k].data.money
    BY <1>4 DEF StoresRise, Queues
  <2> QED
    BY <2>1, <2>2 DEF StoresRise
<1>12. ASSUME NEW id \in RoleId, NEW amount, Online(a, b, rows, id, amount)
       PROVE  Online(c, d, rows2, id, amount)
  <2>1. NoLoad(c, id)
    BY <1>1, <1>3, <1>12 DEF NoLoad, Online
  <2>2. NoLoad(d, id)
    BY <1>4, <1>12 DEF NoLoad, Online
  <2>3. \A k \in DOMAIN d : d[k].id = id /\ d[k].type = "store" => d[k].data.money <= amount
    BY <1>4, <1>12 DEF UpTo, Online
  <2>4. rows2[id] # None /\ rows2[id].money <= amount
    <3>1. CASE id # m.id
      BY <1>12, <3>1 DEF UpTo, Online
    <3>2. CASE id = m.id
      <4>1. m.type = "store" /\ m.data \in Row /\ m.data.money <= amount
        BY <1>1, <1>12, <3>2 DEF Request, Online, NoLoad, UpTo
      <4>2. rows[id] # None /\ rows[id].money <= amount
        BY <1>12 DEF Online, UpTo
      <4> QED
        BY <3>2, <4>1, <4>2, ConstantsAssumption
    <3> QED
      BY <3>1, <3>2
  <2> QED
    BY <2>1, <2>2, <2>3, <2>4 DEF Online, UpTo
<1> QED
  BY <1>7, <1>8, <1>9, <1>10, <1>11, <1>12 DEF Queues, d

-----------------------------------------------------------------------------
(* The inductive invariant of the orderly servers.                         *)

(* Used roles differ in account and session, and all of them are found     *)
(* while game_srv runs.                                                    *)
KeysInv ==
  /\ proc = "up" => used = idIdx /\ used = fdIdx
  /\ \A r, q \in used : roleId[r] = roleId[q] \/ session[r] = session[q] => r = q

(* A role without its data owns nothing.                                   *)
UnnamedInv == \A r \in used : ~named[r] => bag[r] = None /\ scene[r] = None /\ inst[r] = None

BagsExact == bags = {bag[r] : r \in {q \in used : named[q]}}

(* No load is on its way for a role that has its data, and neither the     *)
(* table nor a store holds more than the role.                             *)
OnlineInv == \A r \in used : named[r] => Online(fromDb, toDb, row, roleId[r], money[r])

QueuesInv == Queues(fromDb, toDb, row)

PoolInv == KeysInv /\ UnnamedInv /\ BagsExact /\ ScenesExact
OInv    == PoolInv /\ QueuesInv /\ OnlineInv

(* Orderly clients are clients.                                            *)
LEMMA OrderlyIsNext == [OrderlyNext]_vars => [Next]_vars
<1>1. OrderlyRequest => ClientRequest
  BY ConstantsAssumption DEF OrderlyRequest, ClientRequest
<1> QED
  BY <1>1 DEF OrderlyNext, Next

LEMMA OrderlyIInv == OrderlySpec => []IInv
<1>1. OrderlySpec => Spec
  BY OrderlyIsNext, PTL DEF OrderlySpec, Spec
<1> QED
  BY <1>1, IInvAlways

(* Idle speaks of both queues.                                             *)
LEMMA IdleMeans ==
  ASSUME TypeOK, NEW id
  PROVE  Idle(id) <=> NoLoad(fromDb, id) /\ NoLoad(toDb, id)
<1>1. /\ DOMAIN fromDb = 1 .. Len(fromDb) /\ DOMAIN toDb = 1 .. Len(toDb)
      /\ Len(fromDb) \in Nat /\ Len(toDb) \in Nat
      /\ DOMAIN InFlight = 1 .. Len(fromDb) + Len(toDb)
      /\ \A k \in 1 .. Len(fromDb) : InFlight[k] = fromDb[k]
      /\ \A k \in 1 .. Len(toDb) : InFlight[Len(fromDb) + k] = toDb[k]
  BY LineOf DEF TypeOK, InFlight
<1>2. \A k \in DOMAIN fromDb : k \in DOMAIN InFlight
  BY <1>1
<1>3. \A k \in DOMAIN toDb : Len(fromDb) + k \in DOMAIN InFlight
  BY <1>1
<1>4. \A k \in DOMAIN InFlight :
        k \in DOMAIN fromDb \/ (k - Len(fromDb) \in DOMAIN toDb /\ k = Len(fromDb) + (k - Len(fromDb)))
  BY <1>1
<1>5. ASSUME Idle(id) PROVE NoLoad(fromDb, id) /\ NoLoad(toDb, id)
  BY <1>1, <1>2, <1>3, <1>5 DEF Idle, NoLoad
<1>6. ASSUME NoLoad(fromDb, id), NoLoad(toDb, id), NEW k \in DOMAIN InFlight, InFlight[k].id = id
      PROVE  InFlight[k].type = "store"
  <2>1. CASE k \in DOMAIN fromDb
    BY <1>1, <1>6, <2>1 DEF NoLoad
  <2>2. CASE k - Len(fromDb) \in DOMAIN toDb /\ k = Len(fromDb) + (k - Len(fromDb))
    BY <1>1, <1>6, <2>2 DEF NoLoad
  <2> QED
    BY <1>4, <2>1, <2>2
<1> QED
  BY <1>5, <1>6 DEF Idle

(* A login takes the place of the role of its account, if there is one.    *)
LEMMA LoginPool ==
  ASSUME IInv, Inv1', PoolInv, NEW s \in Session, NEW id \in RoleId,
         BySession(s) = {}, LoginRequest(s, id, 0)
  PROVE  PoolInv'
<1> USE DEF IInv, Inv1, PoolInv
<1> DEFINE E == ById(id)
<1>1. proc = "up" /\ used = idIdx /\ used = fdIdx
  BY DEF LoginRequest, KeysInv
<1>2. E = {q \in used : roleId[q] = id} /\ \A q \in used : session[q] # s
  BY <1>1 DEF ById, BySession
<1>3. PICK r \in Slot \ (used \ E) : Enlist(E, r, s, id) /\ InitRoleData(E, r)
  BY DEF LoginRequest, AdmitRole
<1>4. ReleaseThings(E)
  BY DEF LoginRequest
<1> HIDE DEF E
<1>5. /\ used' = (used \ E) \cup {r} /\ proc' = proc
      /\ roleId'[r] = id /\ session'[r] = s /\ named'[r] = FALSE
      /\ scene'[r] = None /\ bag'[r] = None /\ inst'[r] = None
      /\ \A q \in used \ E :
           /\ q # r /\ q \in Slot
           /\ roleId'[q] = roleId[q] /\ session'[q] = session[q] /\ named'[q] = named[q]
           /\ scene'[q] = scene[q] /\ bag'[q] = bag[q] /\ inst'[q] = inst[q]
  BY <1>3 DEF Enlist, InitRoleData, InstWithout, TypeOK
<1>6. idIdx' = used' /\ fdIdx' = used'
  BY <1>1, <1>2, <1>3 DEF Enlist, LinkId, LinkFd
<1>7. KeysInv'
  BY <1>2, <1>5, <1>6 DEF KeysInv
<1>8. UnnamedInv'
  BY <1>5 DEF UnnamedInv
<1>9. BagsExact'
  <2>1. bags' = bags \ {bag[q] : q \in E}
    BY <1>4 DEF ReleaseThings, BagsWithout
  <2>2. \A q \in E, p \in used \ E : named[p] => bag[p] # bag[q]
    BY <1>2 DEF BagInv, NamedInv
  <2>3. {bag'[q] : q \in {p \in used' : named'[p]}} = {bag[q] : q \in {p \in used \ E : named[p]}}
    BY <1>5
  <2>4. {bag[q] : q \in {p \in used \ E : named[p]}} = bags \ {bag[q] : q \in E}
    <3>1. \A q \in E : bag[q] \in bags => named[q]
      BY <1>2, ConstantsAssumption DEF UnnamedInv, TypeOK
    <3> QED
      BY <2>2, <3>1 DEF BagsExact
  <2> QED
    BY <2>1, <2>3, <2>4 DEF BagsExact
<1>10. ScenesExact'
  <2>1. \A sc \in Scene : members'[sc] = members[sc] \ {q \in E : scene[q] = sc}
    BY <1>4 DEF ReleaseThings, ScenesWithout
  <2> QED
    BY <1>5, <2>1 DEF ScenesExact
<1> QED
  BY <1>7, <1>8, <1>9, <1>10

(* A release leaves the other roles as they were.                          *)
LEMMA ReleasePool ==
  ASSUME IInv, PoolInv, proc = "up", NEW q \in used, ReleaseRoles({q}),
         bags' = BagsWithout({q}), members' = ScenesWithout({q})
  PROVE  PoolInv'
<1> USE DEF IInv, Inv1, PoolInv
<1>1. /\ used' = used \ {q} /\ idIdx' = idIdx \ {q} /\ fdIdx' = fdIdx \ {q} /\ proc' = proc
      /\ UNCHANGED <<roleId, session, named, scene, bag>>
      /\ \A p \in used : p # q => inst'[p] = inst[p]
  BY DEF ReleaseRoles, Delist, InstWithout, TypeOK
<1>2. KeysInv' /\ UnnamedInv'
  BY <1>1 DEF KeysInv, UnnamedInv
<1>3. BagsExact'
  <2>1. bags' = bags \ {bag[q]}
    BY DEF BagsWithout
  <2>2. \A p \in used : p # q /\ named[p] => bag[p] # bag[q]
    BY DEF BagInv, NamedInv
  <2>3. bag[q] \in bags => named[q]
    BY ConstantsAssumption DEF UnnamedInv, TypeOK
  <2> QED
    BY <1>1, <2>1, <2>2, <2>3 DEF BagsExact
<1>4. ScenesExact'
  <2>1. \A sc \in Scene : members'[sc] = members[sc] \ {p \in {q} : scene[p] = sc}
    BY DEF ScenesWithout
  <2>2. ASSUME NEW sc \in Scene, NEW r \in members'[sc]
        PROVE  r # q /\ r \in used /\ named[r] /\ scene[r] = sc /\ inst[r] = None
    BY <2>1, <2>2 DEF ScenesExact
  <2> QED
    BY <1>1, <2>2 DEF ScenesExact
<1> QED
  BY <1>2, <1>3, <1>4

(* Playing moves the entry of a role between scenes and instances.         *)
LEMMA JoinSceneAt ==
  ASSUME NEW mem \in [Scene -> SUBSET Slot], NEW sc, NEW r
  PROVE  \A x \in Scene : \A q \in JoinScene(mem, sc, r)[x] :
           q \in mem[x] \/ (q = r /\ x = sc /\ ~Refuses(mem, sc, r))
BY DEF JoinScene

LEMMA TransportPool ==
  ASSUME IInv, PoolInv, NEW s \in Session, Playing(s),
         NEW sc \in Scene, \A r \in BySession(s) : inst[r] = None, TransportRequest(s, sc)
  PROVE  PoolInv'
<1> USE DEF IInv, Inv1, PoolInv
<1>1. PICK r \in BySession(s) :
        LET left == ScenesWithout({r})
        IN  /\ members' = JoinScene(left, sc, r)
            /\ scene' = [scene EXCEPT ![r] = IF Refuses(left, sc, r) THEN @ ELSE sc]
  BY DEF TransportRequest
<1>2. r \in used /\ r \in Slot /\ named[r] /\ inst[r] = None
  BY LookupsUsed, LookupSingle DEF Playing
<1>3. UNCHANGED <<proc, used, idIdx, fdIdx, roleId, session, named, bag, inst, bags>>
  BY DEF TransportRequest, indexes
<1>4. \A q \in used : q # r => scene'[q] = scene[q]
  BY <1>1, <1>2 DEF TypeOK
<1>5. KeysInv' /\ UnnamedInv' /\ BagsExact'
  BY <1>2, <1>3, <1>4 DEF KeysInv, UnnamedInv, BagsExact
<1>6. ScenesExact'
  <2> DEFINE left == ScenesWithout({r})
  <2>1. /\ left \in [Scene -> SUBSET Slot]
        /\ \A x \in Scene : left[x] = members[x] \ {p \in {r} : scene[p] = x}
    BY DEF ScenesWithout, TypeOK
  <2>2. members' = JoinScene(left, sc, r)
    BY <1>1
  <2>3. ~Refuses(left, sc, r) => scene'[r] = sc
    BY <1>1, <1>2 DEF TypeOK
  <2> HIDE DEF left
  <2>4. ASSUME NEW x \in Scene, NEW q \in left[x]
        PROVE  q # r /\ q \in used /\ named[q] /\ scene[q] = x /\ inst[q] = None
    BY <2>1, <2>4 DEF ScenesExact
  <2>5. ASSUME NEW x \in Scene, NEW q \in members'[x]
        PROVE  q \in used /\ named[q] /\ scene'[q] = x /\ inst[q] = None
    <3>1. q \in left[x] \/ (q = r /\ x = sc /\ ~Refuses(left, sc, r))
      BY <2>1, <2>2, <2>5, JoinSceneAt
    <3> QED
      BY <1>2, <1>4, <2>3, <2>4, <3>1
  <2> QED
    BY <1>3, <2>5 DEF ScenesExact
<1> QED
  BY <1>5, <1>6

LEMMA InstancePool ==
  ASSUME IInv, PoolInv, NEW s \in Session, Playing(s),
         EnterInstanceRequest(s) \/ LeaveInstanceRequest(s)
  PROVE  PoolInv'
<1> USE DEF IInv, Inv1, PoolInv
<1>1. PICK r \in BySession(s) :
        \/ /\ \E i : inst' = [inst EXCEPT ![r] = i]
           /\ members' = ScenesWithout({r})
        \/ /\ inst' = InstWithout({r})
           /\ members' = JoinScene(members, scene[r], r)
  BY DEF EnterInstanceRequest, LeaveInstanceRequest
<1>2. r \in used /\ r \in Slot /\ named[r]
  BY LookupsUsed, LookupSingle DEF Playing
<1>3. UNCHANGED <<proc, used, idIdx, fdIdx, roleId, session, named, scene, bag, bags>>
  BY DEF EnterInstanceRequest, LeaveInstanceRequest, indexes
<1>4. \A q \in used : q # r => inst'[q] = inst[q]
  BY <1>1, <1>2 DEF TypeOK, InstWithout
<1>5. KeysInv' /\ UnnamedInv' /\ BagsExact'
  BY <1>2, <1>3, <1>4 DEF KeysInv, UnnamedInv, BagsExact
<1>6. ASSUME NEW x \in Scene, NEW q \in members'[x]
      PROVE  q \in used /\ named[q] /\ scene[q] = x /\ inst'[q] = None
  <2>1. CASE members' = ScenesWithout({r})
    <3>1. q \in members[x] /\ (q = r => scene[r] # x)
      BY <1>6, <2>1 DEF ScenesWithout
    <3> QED
      BY <1>4, <3>1 DEF ScenesExact
  <2>2. CASE inst' = InstWithout({r}) /\ members' = JoinScene(members, scene[r], r)
    <3>1. q \in members[x] \/ (q = r /\ x = scene[r])
      <4>1. members \in [Scene -> SUBSET Slot] /\ q \in JoinScene(members, scene[r], r)[x]
        BY <1>6, <2>2 DEF TypeOK
      <4> QED
        BY <4>1, JoinSceneAt
    <3>2. inst'[r] = None
      BY <1>2, <2>2 DEF InstWithout
    <3> QED
      BY <1>2, <1>4, <3>1, <3>2 DEF ScenesExact
  <2> QED
    BY <1>1, <2>1, <2>2
<1> QED
  BY <1>3, <1>5, <1>6 DEF ScenesExact

(* The answer to a load meets a role without data, and gives it a bag and  *)
(* a scene.                                                                *)
LEMMA LoadPool ==
  ASSUME IInv, PoolInv, NEW r \in used, ~named[r], NEW d, LoadSucceeds(r, d)
  PROVE  PoolInv'
<1> USE DEF IInv, Inv1, PoolInv
<1>1. PICK b \in FreeBags : bags' = bags \cup {b} /\ bag' = [bag EXCEPT ![r] = b]
  BY DEF LoadSucceeds
<1>2. /\ UNCHANGED <<proc, used, idIdx, fdIdx, roleId, session, inst>>
      /\ named' = [named EXCEPT ![r] = TRUE]
      /\ scene' = [scene EXCEPT ![r] = d.scene]
      /\ members' = JoinScene(members, d.scene, r)
  BY DEF LoadSucceeds, indexes
<1>3. /\ r \in Slot /\ inst[r] = None
      /\ named'[r] /\ scene'[r] = d.scene /\ bag'[r] = b
      /\ \A q \in used : q # r => named'[q] = named[q] /\ scene'[q] = scene[q] /\ bag'[q] = bag[q]
  BY <1>1, <1>2 DEF TypeOK, UnnamedInv
<1>4. KeysInv' /\ UnnamedInv'
  BY <1>2, <1>3 DEF KeysInv, UnnamedInv
<1>5. BagsExact'
  <2>1. {bag'[q] : q \in {p \in used' : named'[p]}} = {bag[q] : q \in {p \in used : named[p]}} \cup {b}
    BY <1>2, <1>3
  <2> QED
    BY <1>1, <2>1 DEF BagsExact
<1>6. ASSUME NEW x \in Scene, NEW q \in members'[x]
      PROVE  q \in used /\ named'[q] /\ scene'[q] = x /\ inst[q] = None
  <2>1. members \in [Scene -> SUBSET Slot]
    BY DEF TypeOK
  <2>2. q \in JoinScene(members, d.scene, r)[x]
    BY <1>2, <1>6
  <2>3. q \in members[x] \/ (q = r /\ x = d.scene)
    BY <2>1, <2>2, JoinSceneAt
  <2> QED
    BY <1>3, <2>3 DEF ScenesExact
<1> QED
  BY <1>2, <1>4, <1>5, <1>6 DEF ScenesExact

(* A death and a restart leave the pools as they are.                      *)
LEMMA ResumePool ==
  ASSUME IInv, PoolInv, Resume
  PROVE  PoolInv'
<1> USE DEF IInv, Inv1, PoolInv
<1>1. PICK ids \in SUBSET used, fds \in SUBSET used :
        /\ OneForEachKey(ids, used, roleId)
        /\ OneForEachKey(fds, ids, session)
        /\ idIdx' = ids /\ fdIdx' = fds
  BY DEF Resume, Relink
<1>2. ids = used
  BY <1>1 DEF OneForEachKey, KeysInv
<1>3. fds = used
  BY <1>1, <1>2 DEF OneForEachKey, KeysInv
<1>4. UNCHANGED <<used, roleId, session, named, scene, bag, inst, bags, members>>
  BY DEF Resume, Relink, fields, things
<1> QED
  BY <1>1, <1>2, <1>3, <1>4 DEF KeysInv, UnnamedInv, BagsExact, ScenesExact

LEMMA DeathPool ==
  ASSUME PoolInv, GoDown, UNCHANGED <<used, roleId, session, named, scene, bag, inst, things>>
  PROVE  PoolInv'
BY DEF PoolInv, GoDown, Forget, KeysInv, UnnamedInv, BagsExact, ScenesExact, things

LEMMA QuietPool ==
  ASSUME PoolInv, UNCHANGED <<proc, used, idIdx, fdIdx, roleId, session, named, scene, bag, inst, things>>
  PROVE  PoolInv'
BY DEF PoolInv, KeysInv, UnnamedInv, BagsExact, ScenesExact, things

-----------------------------------------------------------------------------
(* The queues under each step.                                             *)

(* A release sends the store of a role that has its data, and nothing of   *)
(* another.                                                                *)
LEMMA StoreRequestsOne ==
  ASSUME NamedInv, NEW q \in used, NEW mon
  PROVE  /\ named[q] => StoreRequests({q}, mon) = <<StoreOf(q, mon)>>
         /\ ~named[q] => StoreRequests({q}, mon) = <<>>
<1>1. named[q] => Storable({q}) = {q}
  BY DEF NamedInv, Storable
<1>2. ~named[q] => Storable({q}) = {}
  BY DEF Storable
<1>3. (CHOOSE r \in {q} : TRUE) = q
  OBVIOUS
<1> QED
  BY <1>1, <1>2, <1>3 DEF StoreRequests

LEMMA NoLoadSend ==
  ASSUME NEW b \in Seq(Request), NEW m \in Request, NEW id, NoLoad(b, id), m.type = "store" \/ m.id # id
  PROVE  NoLoad(Append(b, m), id)
<1>1. /\ DOMAIN b = 1 .. Len(b)
      /\ DOMAIN Append(b, m) = 1 .. Len(b) + 1 /\ Len(b) \in Nat
      /\ \A k \in 1 .. Len(b) : Append(b, m)[k] = b[k]
      /\ Append(b, m)[Len(b) + 1] = m
  BY AppendAt
<1>2. \A k \in DOMAIN Append(b, m) : k \in DOMAIN b \/ k = Len(b) + 1
  BY <1>1
<1> QED
  BY <1>1, <1>2 DEF NoLoad

(* The store of an online role, behind the requests of its account.        *)
LEMMA StoreSend ==
  ASSUME IInv, NEW q \in used, named[q], QueuesInv,
         Online(fromDb, toDb, row, roleId[q], money[q])
  PROVE  LET m == StoreOf(q, money)
         IN  /\ m \in Request /\ m.type = "store" /\ m.id = roleId[q]
             /\ Queues(fromDb, Append(toDb, m), row)
             /\ NoLoad(Append(toDb, m), roleId[q])
<1> DEFINE m == StoreOf(q, money)
<1>1. m \in Request
  BY StoreOfType DEF IInv, Inv1, TypeOK, NamedInv
<1>2. m.type = "store" /\ m.id = roleId[q] /\ m.data.money = money[q]
  BY DEF StoreOf
<1>3. fromDb \in Seq(Answer) /\ toDb \in Seq(Request) /\ row \in Rows
  BY DEF IInv, Inv1, TypeOK, Rows
<1> HIDE DEF m
<1>4. Queues(fromDb, Append(toDb, m), row)
  BY <1>1, <1>2, <1>3, QueuesSend DEF QueuesInv, Online
<1>5. NoLoad(Append(toDb, m), roleId[q])
  BY <1>1, <1>2, <1>3, NoLoadSend DEF Online
<1> QED
  BY <1>1, <1>2, <1>4, <1>5 DEF m

(* A login: the store of the role it kicks, then the load.                 *)
LEMMA LoginQueues ==
  ASSUME IInv, OInv, NEW s \in Session, NEW id \in RoleId, Idle(id), LoginRequest(s, id, 0)
  PROVE  QueuesInv' /\ OnlineInv'
<1> USE DEF IInv, Inv1, OInv, PoolInv
<1> DEFINE E == ById(id)
           f == [type |-> "fetch", id |-> id]
<1>1. E = {q \in used : roleId[q] = id}
  BY DEF LoginRequest, KeysInv, ById
<1>2. toDb' = toDb \o (StoreRequests(E, money) \o <<f>>) /\ UNCHANGED <<row, failed, fromDb>>
  BY DEF LoginRequest, LoginMessages, FetchRequest
<1>3. \A q \in used' : named'[q] =>
        /\ q \in used /\ named[q] /\ q \notin E
        /\ roleId'[q] = roleId[q] /\ money'[q] = money[q]
  <2>1. PICK r \in Slot \ (used \ E) : Enlist(E, r, s, id) /\ InitRoleData(E, r)
    BY DEF LoginRequest, AdmitRole
  <2> HIDE DEF E
  <2> QED
    BY <2>1 DEF Enlist, InitRoleData, TypeOK
<1>4. fromDb \in Seq(Answer) /\ toDb \in Seq(Request) /\ row \in Rows
  BY DEF TypeOK, Rows
<1>5. NoLoad(fromDb, id) /\ NoLoad(toDb, id)
  BY IdleMeans
<1>6. f \in Request /\ f.type # "store" /\ f.id = id
  BY DEF Request
<1> HIDE DEF f
<1>7. ASSUME NEW b \in Seq(Request), toDb' = Append(b, f), Queues(fromDb, b, row), NoLoad(b, id),
             \A p \in used : named[p] /\ p \notin E => Online(fromDb, b, row, roleId[p], money[p])
      PROVE  QueuesInv' /\ OnlineInv'
  <2>1. Queues(fromDb, Append(b, f), row)
    BY <1>4, <1>5, <1>6, <1>7, QueuesSend
  <2>2. ASSUME NEW p \in used, named[p], p \notin E
        PROVE  Online(fromDb, Append(b, f), row, roleId[p], money[p])
    <3>1. roleId[p] # id
      BY <1>1, <2>2
    <3> QED
      BY <1>4, <1>6, <1>7, <2>2, <3>1, OnlineSend
  <2> QED
    BY <1>2, <1>3, <1>7, <2>1, <2>2 DEF QueuesInv, OnlineInv
<1>8. CASE \E q \in E : named[q]
  <2>1. PICK q \in E : named[q]
    BY <1>8
  <2> DEFINE m == StoreOf(q, money)
             b == Append(toDb, m)
  <2>2. E = {q} /\ q \in used /\ roleId[q] = id
    BY <1>1, <2>1 DEF KeysInv
  <2>3. /\ m \in Request /\ m.type = "store" /\ m.id = id
        /\ Queues(fromDb, b, row) /\ NoLoad(b, id)
    BY <2>1, <2>2, StoreSend DEF OnlineInv
  <2>4. StoreRequests(E, money) = <<m>>
    BY <2>1, <2>2, StoreRequestsOne
  <2> HIDE DEF m
  <2>5. b \in Seq(Request) /\ toDb' = Append(b, f)
    BY <1>2, <1>4, <1>6, <2>3, <2>4
  <2>6. ASSUME NEW p \in used, named[p], p \notin E
        PROVE  Online(fromDb, b, row, roleId[p], money[p])
    <3>1. roleId[p] # id
      BY <1>1, <2>6
    <3> QED
      BY <1>4, <2>3, <2>6, <3>1, OnlineSend DEF OnlineInv
  <2> HIDE DEF b
  <2> QED
    BY <1>7, <2>3, <2>5, <2>6
<1>9. CASE \A q \in E : ~named[q]
  <2>1. StoreRequests(E, money) = <<>>
    BY <1>9 DEF StoreRequests, Storable
  <2>2. toDb' = Append(toDb, f)
    BY <1>2, <1>4, <1>6, <2>1
  <2> QED
    BY <1>4, <1>5, <1>7, <2>2 DEF QueuesInv, OnlineInv
<1> QED
  BY <1>8, <1>9

(* A request for a new role.                                               *)
LEMMA AskQueues ==
  ASSUME IInv, OInv, NEW s \in Session, NEW id \in RoleId, Idle(id), Waiting(s),
         CreateroleRequest(s, id)
  PROVE  QueuesInv' /\ OnlineInv'
<1> USE DEF IInv, Inv1, OInv, PoolInv
<1> DEFINE f == [type |-> "create", id |-> id]
<1>1. toDb' = Append(toDb, f) /\ UNCHANGED <<row, failed, fromDb, used, roleId, named, money>>
  BY DEF CreateroleRequest, fields
<1>2. \A p \in used : named[p] => roleId[p] # id
  <2>1. PICK q \in BySession(s) : ~named[q] /\ roleId[q] = id
    BY DEF CreateroleRequest
  <2>2. q \in used
    BY <2>1, LookupsUsed
  <2> QED
    BY <2>1, <2>2 DEF KeysInv
<1>3. fromDb \in Seq(Answer) /\ toDb \in Seq(Request) /\ row \in Rows
  BY DEF TypeOK, Rows
<1>4. NoLoad(fromDb, id) /\ NoLoad(toDb, id)
  BY IdleMeans
<1>5. f \in Request /\ f.type # "store" /\ f.id = id
  BY DEF Request
<1> HIDE DEF f
<1>6. QueuesInv'
  BY <1>1, <1>3, <1>4, <1>5, QueuesSend DEF QueuesInv
<1>7. \A p \in used : named[p] => Online(fromDb, Append(toDb, f), row, roleId[p], money[p])
  BY <1>2, <1>3, <1>5, OnlineSend DEF OnlineInv
<1> QED
  BY <1>1, <1>6, <1>7 DEF OnlineInv

(* A logout.                                                               *)
LEMMA LogoutQueues ==
  ASSUME IInv, OInv, NEW q \in used, ReleaseRoles({q}),
         toDb' = toDb \o StoreRequests({q}, money), UNCHANGED <<money, row, failed, fromDb>>
  PROVE  QueuesInv' /\ OnlineInv'
<1> USE DEF IInv, Inv1, OInv, PoolInv
<1>1. used' = used \ {q} /\ UNCHANGED <<roleId, named>>
  BY DEF ReleaseRoles, Delist
<1>2. fromDb \in Seq(Answer) /\ toDb \in Seq(Request) /\ row \in Rows
  BY DEF TypeOK, Rows
<1>3. CASE named[q]
  <2> DEFINE m == StoreOf(q, money)
  <2>1. m \in Request /\ m.id = roleId[q] /\ Queues(fromDb, Append(toDb, m), row)
    BY <1>3, StoreSend DEF OnlineInv
  <2>2. StoreRequests({q}, money) = <<m>>
    BY <1>3, StoreRequestsOne
  <2> HIDE DEF m
  <2>3. toDb' = Append(toDb, m)
    BY <1>2, <2>1, <2>2, AppendIsConcat
  <2>4. \A p \in used : p # q /\ named[p] => Online(fromDb, Append(toDb, m), row, roleId[p], money[p])
    BY <1>2, <2>1, OnlineSend DEF OnlineInv, KeysInv
  <2> QED
    BY <1>1, <2>1, <2>3, <2>4 DEF QueuesInv, OnlineInv
<1>4. CASE ~named[q]
  <2>1. toDb' = toDb
    BY <1>2, <1>4, StoreRequestsOne, ConcatEmptySeq
  <2> QED
    BY <1>1, <2>1 DEF QueuesInv, OnlineInv
<1> QED
  BY <1>3, <1>4

(* A step that sends nothing and gives no role its data, whether it takes  *)
(* an answer or not.                                                       *)
LEMMA QuietQueues ==
  ASSUME IInv, OInv, UNCHANGED <<toDb, row, failed>>,
         fromDb' = fromDb \/ (fromDb # <<>> /\ fromDb' = Tail(fromDb)),
         \A r \in used' : named'[r] =>
           r \in used /\ named[r] /\ roleId'[r] = roleId[r] /\ money[r] <= money'[r] /\ money'[r] \in Nat
  PROVE  QueuesInv' /\ OnlineInv'
<1> USE DEF IInv, Inv1, OInv
<1>1. fromDb \in Seq(Answer) /\ toDb \in Seq(Request) /\ row \in Rows
  BY DEF TypeOK, Rows
<1>2. /\ Queues(fromDb', toDb, row)
      /\ \A id, amount : Online(fromDb, toDb, row, id, amount) => Online(fromDb', toDb, row, id, amount)
  BY <1>1, QueuesTake DEF QueuesInv
<1>3. ASSUME NEW r \in used', named'[r]
      PROVE  Online(fromDb', toDb, row, roleId[r], money'[r])
  <2>1. r \in used /\ Online(fromDb', toDb, row, roleId[r], money[r])
    BY <1>2, <1>3 DEF OnlineInv
  <2>2. money[r] <= money'[r] /\ money[r] \in Nat /\ money'[r] \in Nat
    BY <1>3, <2>1, ConstantsAssumption DEF TypeOK
  <2>3. roleId[r] \in RoleId
    BY <2>1 DEF TypeOK, IndexInv
  <2>4. row[roleId[r]] # None => row[roleId[r]].money \in Nat
    BY <2>3, ConstantsAssumption DEF TypeOK, Row
  <2>5. \A k \in DOMAIN toDb : toDb[k].type = "store" => toDb[k].data.money \in Nat
    <3>1. \A k \in DOMAIN toDb : toDb[k] \in Request
      BY <1>1, ElementOfSeq, LenProperties
    <3> QED
      BY <3>1, ConstantsAssumption DEF Request, Row
  <2> QED
    BY <2>1, <2>2, <2>4, <2>5 DEF Online, UpTo
<1> QED
  BY <1>2, <1>3 DEF QueuesInv, OnlineInv

(* A role gets its data: what the table holds, with no store of its        *)
(* account on its way.                                                     *)
LEMMA LoadQueues ==
  ASSUME IInv, OInv, fromDb # <<>>, fromDb' = Tail(fromDb),
         NEW m, m = Head(fromDb), m.type # "store", m.data # None,
         NEW r \in used, roleId[r] = m.id, LoadSucceeds(r, m.data)
  PROVE  /\ QueuesInv' /\ OnlineInv'
         /\ row[m.id] = m.data
         /\ \A k \in DOMAIN toDb : toDb[k].id # m.id
<1> USE DEF IInv, Inv1, OInv
<1>1. /\ fromDb \in Seq(Answer) /\ toDb \in Seq(Request) /\ row \in Rows
      /\ DOMAIN toDb = 1 .. Len(toDb)
  BY LenProperties DEF TypeOK, Rows
<1>2. /\ DOMAIN fromDb = 1 .. Len(fromDb) /\ Len(fromDb) \in Nat /\ 1 \in DOMAIN fromDb
      /\ m = fromDb[1] /\ m \in Answer
      /\ DOMAIN Tail(fromDb) = 1 .. Len(fromDb) - 1
      /\ \A k \in 1 .. Len(fromDb) - 1 : Tail(fromDb)[k] = fromDb[k + 1] /\ k + 1 \in DOMAIN fromDb
  BY <1>1, TailAt
<1>3. /\ Queues(fromDb', toDb, row)
      /\ \A id, amount : Online(fromDb, toDb, row, id, amount) => Online(fromDb', toDb, row, id, amount)
  BY <1>1, QueuesTake DEF QueuesInv
<1>4. UNCHANGED <<used, roleId, toDb, row, failed>> /\ named' = [named EXCEPT ![r] = TRUE]
      /\ money' = [money EXCEPT ![r] = m.data.money]
  BY DEF LoadSucceeds
<1>5. \A k \in DOMAIN toDb : toDb[k].id # m.id
  BY <1>2 DEF QueuesInv, Queues, LoadsBehind
<1>6. NoLoad(fromDb', m.id)
  <2>1. \A k \in DOMAIN fromDb' : 1 < k + 1 /\ k + 1 \in DOMAIN fromDb /\ fromDb'[k] = fromDb[k + 1]
    BY <1>2
  <2> QED
    BY <1>2, <2>1 DEF QueuesInv, Queues, LoadsLast, NoLoad
<1>7. row[m.id] = m.data
  BY <1>2 DEF QueuesInv, Queues, AnswersTrue
<1>8. Online(fromDb', toDb, row, m.id, m.data.money)
  <2>1. m.data \in Row
    BY <1>2 DEF Answer
  <2>2. m.data.money <= m.data.money
    BY <2>1, ConstantsAssumption DEF Row
  <2> QED
    BY <1>5, <1>6, <1>7, <2>2 DEF Online, NoLoad, UpTo
<1>9. /\ r \in Slot /\ named'[r] /\ money'[r] = m.data.money
      /\ \A p \in used : p # r => named'[p] = named[p] /\ money'[p] = money[p]
  BY <1>4 DEF TypeOK
<1> QED
  BY <1>3, <1>4, <1>5, <1>7, <1>8, <1>9 DEF QueuesInv, OnlineInv

(* A death.                                                                *)
LEMMA DeathQueues ==
  ASSUME IInv, OInv, GoDown, UNCHANGED <<used, roleId, named>>,
         \A r \in used : named[r] => money'[r] = money[r]
  PROVE  QueuesInv' /\ OnlineInv'
<1>1. PICK n \in 0 .. Len(toDb) : toDb' = SubSeq(toDb, 1, n)
  BY DEF GoDown
<1>2. fromDb' = <<>> /\ row' = row
  BY DEF GoDown
<1>3. toDb \in Seq(Request)
  BY DEF IInv, Inv1, TypeOK
<1>4. /\ Queues(<<>>, SubSeq(toDb, 1, n), row)
      /\ \A id, amount : Online(fromDb, toDb, row, id, amount) =>
                           Online(<<>>, SubSeq(toDb, 1, n), row, id, amount)
  BY <1>3, QueuesLose DEF OInv, QueuesInv
<1> QED
  BY <1>1, <1>2, <1>4 DEF OInv, QueuesInv, OnlineInv

(* What db_srv does with the first request, in the terms of QueuesAnswer.  *)
LEMMA DbServerReads ==
  ASSUME Inv1, QueuesInv, DbServer, NEW m, m = Head(toDb)
  PROVE  /\ toDb # <<>> /\ toDb' = Tail(toDb) /\ m \in Request
         /\ m.type = "store" => row[m.id] # None
         /\ \/ failed' = failed /\ (m.type = "store" => row'[m.id] = m.data)
            \/ failed' = [failed EXCEPT ![m.id] = 1 - @] /\ row' = row
         /\ m.type # "store" => row[m.id] = None \/ row'[m.id] = row[m.id]
         /\ row'[m.id] = None => row[m.id] = None
         /\ row'[m.id] # row[m.id] => (m.type = "create" /\ row'[m.id].money = 0) \/ m.type = "store"
         /\ \A id \in RoleId : id # m.id => row'[id] = row[id]
         /\ UNCHANGED <<proc, crashes, used, indexes, fields, things>>
         /\ \E x \in Answer :
              /\ x.id = m.id /\ x.type = m.type
              /\ m.type # "store" /\ x.data # None => x.data = row'[m.id]
              /\ fromDb' = fromDb \/ fromDb' = Append(fromDb, x)
<1> USE DEF Inv1
<1>1. toDb # <<>> /\ toDb' = Tail(toDb) /\ UNCHANGED <<proc, crashes, used, indexes, fields, things>>
  BY DEF DbServer, FetchRole, CreateRole, StoreRole, DbHandle
<1>2. m \in Request /\ m.id \in RoleId /\ 1 \in DOMAIN toDb /\ m = toDb[1]
  <2>1. m \in Request /\ 1 \in DOMAIN toDb /\ m = toDb[1]
    BY <1>1, TailAt DEF TypeOK
  <2> QED
    BY <2>1 DEF Request
<1>3. CASE FetchRole
  <2> DEFINE x(d) == [type |-> "fetch", id |-> m.id, data |-> d]
  <2>1. m.type = "fetch" /\ row' = row
    BY <1>3 DEF FetchRole, QueryFails
  <2>2. \/ failed' = failed /\ DbAnswers(x(row[m.id]))
        \/ failed' = [failed EXCEPT ![m.id] = 1 - @] /\ DbAnswers(x(None))
    BY <1>3 DEF FetchRole, QueryFails
  <2>3. \A d \in Row \cup {None} :
          x(d) \in Answer /\ x(d).type = "fetch" /\ x(d).id = m.id /\ x(d).data = d
    BY <1>2 DEF Answer
  <2>4. row[m.id] \in Row \cup {None}
    BY <1>2 DEF TypeOK
  <2> HIDE DEF x
  <2>5. PICK d \in Row \cup {None} :
          (d # None => d = row'[m.id]) /\ (fromDb' = fromDb \/ fromDb' = Append(fromDb, x(d)))
    BY <2>1, <2>2, <2>4 DEF DbAnswers
  <2>6. failed' = failed \/ failed' = [failed EXCEPT ![m.id] = 1 - @]
    BY <2>2
  <2> QED
    BY <1>1, <1>2, <2>1, <2>3, <2>5, <2>6
<1>4. CASE CreateRole
  <2> DEFINE new == [scene |-> StartScene, money |-> 0]
             x(d) == [type |-> "create", id |-> m.id, data |-> d]
  <2>1. m.type = "create" /\ failed' = failed
    BY <1>4 DEF CreateRole
  <2>2. \/ row[m.id] = None /\ row' = [row EXCEPT ![m.id] = new] /\ (DbAnswers(x(new)) \/ DbAnswers(x(None)))
        \/ row' = row /\ DbAnswers(x(None))
    BY <1>4 DEF CreateRole
  <2>3. new \in Row /\ new # None /\ new.money = 0
    BY ConstantsAssumption DEF Row
  <2>4. \A d \in Row \cup {None} :
          x(d) \in Answer /\ x(d).type = "create" /\ x(d).id = m.id /\ x(d).data = d
    BY <1>2 DEF Answer
  <2> HIDE DEF new, x
  <2>5. CASE row[m.id] = None /\ row' = [row EXCEPT ![m.id] = new] /\ (DbAnswers(x(new)) \/ DbAnswers(x(None)))
    <3>1. row'[m.id] = new /\ \A id \in RoleId : id # m.id => row'[id] = row[id]
      BY <1>2, <2>5 DEF TypeOK
    <3>2. PICK d \in {new, None} : fromDb' = fromDb \/ fromDb' = Append(fromDb, x(d))
      BY <2>5 DEF DbAnswers
    <3>3. x(d) \in Answer /\ x(d).type = "create" /\ x(d).id = m.id /\ (x(d).data # None => x(d).data = row'[m.id])
      BY <2>3, <2>4, <3>1, <3>2
    <3> QED
      BY <1>1, <1>2, <2>1, <2>3, <2>5, <3>1, <3>2, <3>3
  <2>6. CASE row' = row /\ DbAnswers(x(None))
    <3>1. fromDb' = fromDb \/ fromDb' = Append(fromDb, x(None))
      BY <2>6 DEF DbAnswers
    <3> QED
      BY <1>1, <1>2, <2>1, <2>4, <2>6, <3>1
  <2> QED
    BY <2>2, <2>5, <2>6
<1>5. CASE StoreRole
  <2> DEFINE x == [type |-> "store", id |-> m.id]
  <2>1. /\ m.type = "store" /\ DbAnswers(x)
        /\ \/ row' = [row EXCEPT ![m.id] = IF @ = None THEN @ ELSE m.data] /\ failed' = failed
           \/ row' = row /\ failed' = [failed EXCEPT ![m.id] = 1 - @]
    BY <1>5 DEF StoreRole, QueryFails
  <2>2. x \in Answer /\ x.type = "store" /\ x.id = m.id
    BY <1>2 DEF Answer
  <2>3. row[m.id] # None /\ m.data \in Row /\ m.data # None
    BY <1>2, <2>1, ConstantsAssumption DEF QueuesInv, Queues, StoresRise, Request
  <2>4. \/ row'[m.id] = m.data /\ failed' = failed
        \/ row' = row /\ failed' = [failed EXCEPT ![m.id] = 1 - @]
    BY <1>2, <2>1, <2>3 DEF TypeOK
  <2>5. \A id \in RoleId : id # m.id => row'[id] = row[id]
    BY <1>2, <2>1 DEF TypeOK
  <2>6. fromDb' = fromDb \/ fromDb' = Append(fromDb, x)
    BY <2>1 DEF DbAnswers
  <2>7. row'[m.id] = m.data \/ row'[m.id] = row[m.id]
    BY <2>4
  <2> HIDE DEF x
  <2> QED
    BY <1>1, <1>2, <2>1, <2>2, <2>3, <2>4, <2>5, <2>6, <2>7
<1> QED
  BY <1>3, <1>4, <1>5 DEF DbServer

LEMMA DbServerQueues ==
  ASSUME IInv, Inv1', OInv, DbServer
  PROVE  QueuesInv' /\ OnlineInv'
<1> USE DEF IInv, Inv1, OInv
<1> DEFINE m == Head(toDb)
<1>1. PICK x \in Answer :
        /\ x.id = m.id /\ x.type = m.type
        /\ m.type # "store" /\ x.data # None => x.data = row'[m.id]
        /\ fromDb' = fromDb \/ fromDb' = Append(fromDb, x)
  BY DbServerReads
<1>2. /\ toDb # <<>> /\ toDb' = Tail(toDb)
      /\ m.type = "store" => row'[m.id] = m.data \/ row'[m.id] = row[m.id]
      /\ m.type # "store" => row[m.id] = None \/ row'[m.id] = row[m.id]
      /\ \A id \in RoleId : id # m.id => row'[id] = row[id]
      /\ UNCHANGED <<used, roleId, named, money>>
  BY DbServerReads DEF fields
<1>3. /\ fromDb \in Seq(Answer) /\ toDb \in Seq(Request)
      /\ row \in Rows /\ row' \in Rows
  BY DEF TypeOK, Rows
<1> HIDE DEF m
<1>4. m = Head(toDb)
  BY DEF m
<1>5. /\ Queues(fromDb', Tail(toDb), row')
      /\ \A id \in RoleId : \A amount :
           Online(fromDb, toDb, row, id, amount) => Online(fromDb', Tail(toDb), row', id, amount)
  BY <1>1, <1>2, <1>3, <1>4, QueuesAnswer DEF QueuesInv
<1>6. \A r \in used : roleId[r] \in RoleId
  BY DEF TypeOK, IndexInv
<1> QED
  BY <1>2, <1>5, <1>6 DEF QueuesInv, OnlineInv

-----------------------------------------------------------------------------
(* What a step of the orderly servers is.                                  *)

Logins(s, id)  == Idle(id) /\ BySession(s) = {} /\ LoginRequest(s, id, 0)
Asks(s, id)    == Idle(id) /\ Waiting(s) /\ CreateroleRequest(s, id)
Plays(s)       == /\ Playing(s)
                  /\ \/ \E sc \in Scene : /\ \A r \in BySession(s) : inst[r] = None
                                          /\ TransportRequest(s, sc)
                     \/ EnterInstanceRequest(s)
                     \/ LeaveInstanceRequest(s)
Earns(s)       == Playing(s) /\ EarnMoney(s)

(* Which answer meets which role: a load only a role without its data.     *)
LEMMA AnswerMeets ==
  ASSUME IInv, OInv, RoleDataResponse, NEW m, m = Head(fromDb)
  PROVE  /\ m.type # "store" /\ m.id \in RoleId /\ fromDb # <<>>
         /\ \A r \in ById(m.id) : r \in used /\ roleId[r] = m.id /\ ~named[r]
<1>1. m.type # "store" /\ fromDb # <<>>
  BY DEF RoleDataResponse
<1>2. m \in Answer /\ 1 \in DOMAIN fromDb /\ m = fromDb[1]
  BY <1>1, TailAt DEF IInv, Inv1, TypeOK
<1>3. \A r \in ById(m.id) : r \in used /\ roleId[r] = m.id
  BY DEF ById, IInv, Inv1, IndexInv
<1>4. \A r \in used : roleId[r] = m.id => ~named[r]
  BY <1>1, <1>2 DEF OInv, OnlineInv, Online, NoLoad
<1> QED
  BY <1>1, <1>2, <1>3, <1>4 DEF Answer

(* Every step is one of these.                                             *)
LEMMA OrderlyCases ==
  ASSUME IInv, OInv, [OrderlyNext]_vars
  PROVE  \/ \E s \in Session, id \in RoleId : Logins(s, id) \/ Asks(s, id)
         \/ \E s \in Session : Plays(s) \/ Earns(s)
         \/ \E q \in used :
              /\ proc = "up"
              /\ ReleaseRoles({q}) /\ bags' = BagsWithout({q}) /\ members' = ScenesWithout({q})
              /\ toDb' = toDb \o StoreRequests({q}, money)
              /\ UNCHANGED <<crashes, money, row, failed, fromDb>>
         \/ \E q \in used :
              /\ proc = "up" /\ ~named[q]
              /\ ReleaseRoles({q}) /\ bags' = BagsWithout({q}) /\ members' = ScenesWithout({q})
              /\ \A p \in used : p # q => money'[p] = money[p]
              /\ fromDb # <<>> /\ fromDb' = Tail(fromDb)
              /\ UNCHANGED <<crashes, row, failed, toDb>>
         \/ \E r \in used :
              /\ ~named[r] /\ roleId[r] = Head(fromDb).id
              /\ fromDb # <<>> /\ fromDb' = Tail(fromDb)
              /\ Head(fromDb).type # "store" /\ Head(fromDb).data # None
              /\ LoadSucceeds(r, Head(fromDb).data)
         \/ /\ GoDown /\ UNCHANGED <<used, roleId, session, named, scene, bag, inst, things>>
            /\ \A r \in used : named[r] => money'[r] = money[r]
         \/ DbServer
         \/ Resume
         \/ /\ UNCHANGED <<proc, crashes, used, indexes, fields, things, toDb, row, failed>>
            /\ fromDb' = fromDb \/ (fromDb # <<>> /\ fromDb' = Tail(fromDb))
<1> USE DEF IInv, Inv1
<1>1. CASE OrderlyRequest
  <2>1. PICK s \in Session :
          \/ \E id \in RoleId :
               /\ Idle(id)
               /\ \/ BySession(s) = {} /\ LoginRequest(s, id, 0)
                  \/ Waiting(s) /\ CreateroleRequest(s, id)
          \/ LogoutRequest(s)
          \/ Plays(s) \/ Earns(s)
    BY <1>1 DEF OrderlyRequest, Plays, Earns
  <2>2. CASE LogoutRequest(s)
    <3>1. PICK q \in BySession(s) : BySession(s) = {q}
      BY <2>2, LookupSingle DEF LogoutRequest
    <3>2. q \in used
      BY <3>1, LookupsUsed
    <3>3. /\ proc = "up"
          /\ ReleaseRoles({q}) /\ bags' = BagsWithout({q}) /\ members' = ScenesWithout({q})
          /\ toDb' = toDb \o StoreRequests({q}, money)
          /\ UNCHANGED <<crashes, money, row, failed, fromDb>>
      BY <2>2, <3>1 DEF LogoutRequest, ReleaseThings
    <3> QED
      BY <3>2, <3>3
  <2> QED
    BY <2>1, <2>2 DEF Logins, Asks
<1>2. CASE RoleDataResponse
  <2> DEFINE m == Head(fromDb)
  <2>1. /\ m.type # "store" /\ m.id \in RoleId /\ fromDb # <<>>
        /\ \A r \in ById(m.id) : r \in used /\ roleId[r] = m.id /\ ~named[r]
    BY <1>2, AnswerMeets
  <2>2. /\ proc = "up"
        /\ \/ /\ fromDb' = Tail(fromDb)
              /\ \/ UNCHANGED <<proc, crashes, used, indexes, fields, things, row, failed, toDb>>
                 \/ \E r \in ById(m.id) :
                      \/ RefusedLogin(r)
                      \/ m.data # None /\ (LoadSucceeds(r, m.data) \/ LoadFails(r, m.data))
           \/ \E r \in ById(m.id) : m.data # None /\ LoadFaults(r, m.data)
    BY <1>2 DEF RoleDataResponse
  <2> HIDE DEF m
  <2>3. CASE fromDb' = Tail(fromDb) /\ \E r \in ById(m.id) : RefusedLogin(r)
    <3>1. UNCHANGED <<proc, crashes, used, indexes, fields, things, toDb, row, failed>>
      BY <2>1, <2>3 DEF RefusedLogin, things
    <3> QED
      BY <2>1, <2>3, <3>1
  <2>4. CASE fromDb' = Tail(fromDb) /\ \E r \in ById(m.id) : m.data # None /\ LoadSucceeds(r, m.data)
    BY <2>1, <2>4 DEF m
  <2>5. CASE fromDb' = Tail(fromDb) /\ \E r \in ById(m.id) : LoadFails(r, m.data)
    <3>1. PICK q \in ById(m.id) : LoadFails(q, m.data)
      BY <2>5
    <3>2. q \in used /\ ~named[q]
      BY <2>1
    <3>3. /\ ReleaseRoles({q}) /\ bags' = BagsWithout({q}) /\ members' = ScenesWithout({q})
          /\ money' = [money EXCEPT ![q] = m.data.money]
          /\ toDb' = toDb \o StoreRequests({q}, [money EXCEPT ![q] = m.data.money])
          /\ UNCHANGED <<crashes, row, failed>>
      BY <3>1, <3>2 DEF LoadFails
    <3>4. toDb' = toDb
      BY <3>2, <3>3, StoreRequestsOne, ConcatEmptySeq DEF TypeOK
    <3>5. \A p \in used : p # q => money'[p] = money[p]
      BY <3>3 DEF TypeOK
    <3> QED
      BY <2>1, <2>2, <2>5, <3>2, <3>3, <3>4, <3>5
  <2>6. CASE \E r \in ById(m.id) : LoadFaults(r, m.data)
    <3>1. PICK q \in ById(m.id) : LoadFaults(q, m.data)
      BY <2>6
    <3>2. \A p \in used : named[p] => money'[p] = money[p]
      BY <2>1, <3>1 DEF LoadFaults, TypeOK
    <3> QED
      BY <3>1, <3>2 DEF LoadFaults
  <2> QED
    BY <2>1, <2>2, <2>3, <2>4, <2>5, <2>6
<1>3. CASE StoreResponse
  BY <1>3 DEF StoreResponse
<1>4. CASE Kill
  BY <1>4 DEF Kill, fields
<1>5. CASE UNCHANGED vars
  BY <1>5 DEF vars
<1> QED
  BY <1>1, <1>2, <1>3, <1>4, <1>5 DEF OrderlyNext, DbResponse

(* No step of the orderly servers breaks the invariant.                    *)
LEMMA OrderlyStep ==
  ASSUME IInv, Inv1', OInv, [OrderlyNext]_vars
  PROVE  OInv'
<1> USE DEF IInv, Inv1
<1>1. ASSUME NEW s \in Session, NEW id \in RoleId, Logins(s, id)
      PROVE  OInv'
  BY <1>1, LoginPool, LoginQueues DEF Logins, OInv
<1>2. ASSUME NEW s \in Session, NEW id \in RoleId, Asks(s, id)
      PROVE  OInv'
  <2>1. UNCHANGED <<proc, used, idIdx, fdIdx, roleId, session, named, scene, bag, inst, things>>
    BY <1>2 DEF Asks, CreateroleRequest, indexes, fields
  <2> QED
    BY <1>2, <2>1, QuietPool, AskQueues DEF Asks, OInv
<1>3. ASSUME NEW s \in Session, Plays(s)
      PROVE  OInv'
  <2>1. PoolInv'
    BY <1>3, TransportPool, InstancePool DEF Plays, OInv
  <2>2. UNCHANGED <<used, roleId, named, money, toDb, fromDb, row, failed>>
    BY <1>3 DEF Plays, TransportRequest, EnterInstanceRequest, LeaveInstanceRequest
  <2> QED
    BY <2>1, <2>2 DEF OInv, QueuesInv, OnlineInv
<1>4. ASSUME NEW s \in Session, Earns(s)
      PROVE  OInv'
  <2>1. UNCHANGED <<proc, used, idIdx, fdIdx, roleId, session, named, scene, bag, inst, things, toDb, row, failed, fromDb>>
    BY <1>4 DEF Earns, EarnMoney, indexes
  <2>2. PICK r \in BySession(s) : money' = [money EXCEPT ![r] = @ + 1]
    BY <1>4 DEF Earns, EarnMoney
  <2>3. \A q \in used : money[q] <= money'[q] /\ money'[q] \in Nat
    BY <2>2, ConstantsAssumption DEF TypeOK
  <2> QED
    BY <2>1, <2>3, QuietPool, QuietQueues DEF OInv
<1>5. ASSUME NEW q \in used, proc = "up",
             ReleaseRoles({q}), bags' = BagsWithout({q}), members' = ScenesWithout({q}),
             toDb' = toDb \o StoreRequests({q}, money), UNCHANGED <<crashes, money, row, failed, fromDb>>
      PROVE  OInv'
  BY <1>5, ReleasePool, LogoutQueues DEF OInv
<1>6. ASSUME NEW q \in used, proc = "up", ~named[q],
             ReleaseRoles({q}), bags' = BagsWithout({q}), members' = ScenesWithout({q}),
             \A p \in used : p # q => money'[p] = money[p],
             fromDb # <<>>, fromDb' = Tail(fromDb), UNCHANGED <<crashes, row, failed, toDb>>
      PROVE  OInv'
  <2>1. \A r \in used' : named'[r] =>
          r \in used /\ named[r] /\ roleId'[r] = roleId[r] /\ money[r] <= money'[r] /\ money'[r] \in Nat
    BY <1>6, ConstantsAssumption DEF ReleaseRoles, Delist, TypeOK
  <2> QED
    BY <1>6, <2>1, ReleasePool, QuietQueues DEF OInv
<1>7. ASSUME NEW r \in used, ~named[r], roleId[r] = Head(fromDb).id,
             fromDb # <<>>, fromDb' = Tail(fromDb),
             Head(fromDb).type # "store", Head(fromDb).data # None,
             LoadSucceeds(r, Head(fromDb).data)
      PROVE  OInv'
  <2>1. PoolInv'
    BY <1>7, LoadPool DEF OInv
  <2>2. QueuesInv' /\ OnlineInv'
    BY <1>7, LoadQueues
  <2> QED
    BY <2>1, <2>2 DEF OInv
<1>8. ASSUME GoDown, UNCHANGED <<used, roleId, session, named, scene, bag, inst, things>>,
             \A r \in used : named[r] => money'[r] = money[r]
      PROVE  OInv'
  BY <1>8, DeathPool, DeathQueues DEF OInv
<1>9. CASE DbServer
  <2>1. UNCHANGED <<proc, used, idIdx, fdIdx, roleId, session, named, scene, bag, inst, things>>
    BY <1>9, DbServerReads DEF OInv, indexes, fields
  <2> QED
    BY <1>9, <2>1, QuietPool, DbServerQueues DEF OInv
<1>10. CASE Resume
  <2>1. UNCHANGED <<used, roleId, named, money, toDb, fromDb, row, failed>>
    BY <1>10 DEF Resume, Relink, fields
  <2> QED
    BY <1>10, <2>1, ResumePool DEF OInv, QueuesInv, OnlineInv
<1>11. ASSUME UNCHANGED <<proc, crashes, used, indexes, fields, things, toDb, row, failed>>,
              fromDb' = fromDb \/ (fromDb # <<>> /\ fromDb' = Tail(fromDb))
       PROVE  OInv'
  <2>1. UNCHANGED <<proc, used, idIdx, fdIdx, roleId, session, named, scene, bag, inst, money, things>>
    BY <1>11 DEF indexes, fields
  <2>2. \A r \in used : money[r] <= money[r] /\ money[r] \in Nat
    BY ConstantsAssumption DEF TypeOK
  <2> QED
    BY <1>11, <2>1, <2>2, QuietPool, QuietQueues DEF OInv
<1> HIDE DEF IInv, Inv1
<1> QED
  BY <1>1, <1>2, <1>3, <1>4, <1>5, <1>6, <1>7, <1>8, <1>9, <1>10, <1>11, OrderlyCases

LEMMA OrderlyStart == Init => OInv
<1> SUFFICES ASSUME Init PROVE OInv
  OBVIOUS
<1>1. PoolInv /\ OnlineInv
  BY DEF Init, PoolInv, KeysInv, UnnamedInv, BagsExact, ScenesExact, OnlineInv
<1>2. QueuesInv
  BY DEF Init, QueuesInv, Queues, LoadsLast, LoadsBehind, AnswersTrue, StoresRise
<1> QED
  BY <1>1, <1>2 DEF OInv

LEMMA OInvAlways == OrderlySpec => [](IInv /\ OInv)
<1>1. IInv /\ IInv' /\ OInv /\ [OrderlyNext]_vars => OInv'
  BY OrderlyStep DEF IInv
<1> QED
  BY <1>1, OrderlyStart, OrderlyIInv, PTL DEF OrderlySpec

(* Under orderly clients a scene lists only roles that are in use, have    *)
(* their data and are there, over every logout, kick, load, move and       *)
(* restart.                                                                *)
THEOREM ScenesAreExact == OrderlySpec => []ScenesExact
<1>1. IInv /\ OInv => ScenesExact
  BY DEF OInv, PoolInv
<1> QED
  BY <1>1, OInvAlways, PTL

(* Under orderly clients no role is lost from an index and no container    *)
(* from its owner, whatever is killed in between.                          *)
THEOREM NothingIsLeaked == OrderlySpec => []NothingLeaks
<1>1. IInv /\ OInv => NothingLeaks
  BY DEF OInv, PoolInv, KeysInv, BagsExact, NothingLeaks
<1> QED
  BY <1>1, OInvAlways, PTL

(* Under orderly clients an answer never overwrites what a role did since. *)
THEOREM LoadsComeOnce == OrderlySpec => []LoadsOnce
<1>1. IInv /\ OInv => LoadsOnce
  <2> SUFFICES ASSUME IInv, OInv, NEW r \in idIdx, named[r]
               PROVE  Idle(roleId[r])
    BY DEF LoadsOnce
  <2>1. r \in used
    BY DEF IInv, Inv1, IndexInv
  <2>2. NoLoad(fromDb, roleId[r]) /\ NoLoad(toDb, roleId[r])
    BY <2>1 DEF OInv, OnlineInv, Online
  <2> QED
    BY <2>2, IdleMeans DEF IInv, Inv1
<1> QED
  BY <1>1, OInvAlways, PTL

-----------------------------------------------------------------------------
(* The servers implement Account.                                          *)

(* A non-empty set of numbers has a least one, and a bounded one a         *)
(* greatest.                                                               *)
LEMMA LeastNumber ==
  ASSUME NEW T \in SUBSET Nat, T # {}
  PROVE  \E m \in T : \A n \in T : m <= n
<1>1. PICK m \in T : \A n \in T : ~(<<n, m>> \in OpToRel(<, Nat))
  BY WFMin, NatLessThanWellFounded, Zenon
<1>2. \A n \in T : ~(n < m)
  BY <1>1, Zenon DEF OpToRel
<1> QED
  BY <1>2

LEMMA GreatestNumber ==
  ASSUME NEW T \in SUBSET Nat, T # {}, NEW bound \in Nat, \A n \in T : n <= bound
  PROVE  \E m \in T : \A n \in T : n <= m
<1> DEFINE U == {u \in Nat : \A n \in T : n <= u}
<1>1. PICK m \in U : \A u \in U : m <= u
  <2>1. bound \in U
    OBVIOUS
  <2> HIDE DEF U
  <2>2. U \in SUBSET Nat
    BY DEF U
  <2> QED
    BY <2>1, <2>2, LeastNumber
<1>2. ASSUME m \notin T PROVE FALSE
  <2>1. m \in Nat /\ \A n \in T : n \in Nat /\ n <= m /\ n # m
    BY <1>2
  <2>2. PICK n \in T : TRUE
    OBVIOUS
  <2>3. m - 1 \in Nat
    BY <2>1, <2>2
  <2>4. \A p \in T : p <= m - 1
    BY <2>1
  <2>5. m - 1 \in U
    BY <2>3, <2>4
  <2> QED
    BY <1>1, <2>1, <2>5
<1> QED
  BY <1>1, <1>2

StoresIn(b, id)  == {k \in DOMAIN b : b[k].id = id /\ b[k].type = "store"}
LastStore(b, id) == CHOOSE k \in StoresIn(b, id) : \A j \in StoresIn(b, id) : j <= k

(* Where the money of an account is that is not online.                    *)
Settled(b, rows, id) ==
  IF StoresIn(b, id) # {} THEN b[LastStore(b, id)].data.money
  ELSE IF rows[id] = None THEN None ELSE rows[id].money

LEMMA LastStoreExists ==
  ASSUME NEW b \in Seq(Request), NEW id, StoresIn(b, id) # {}
  PROVE  /\ LastStore(b, id) \in StoresIn(b, id)
         /\ \A j \in StoresIn(b, id) : j <= LastStore(b, id)
<1>1. StoresIn(b, id) \in SUBSET Nat /\ Len(b) \in Nat /\ \A j \in StoresIn(b, id) : j <= Len(b)
  BY LenProperties DEF StoresIn
<1>2. \E k \in StoresIn(b, id) : \A j \in StoresIn(b, id) : j <= k
  BY <1>1, GreatestNumber
<1> QED
  BY <1>2 DEF LastStore

LEMMA LastStoreIs ==
  ASSUME NEW b \in Seq(Request), NEW id, NEW k \in StoresIn(b, id), \A j \in StoresIn(b, id) : j <= k
  PROVE  LastStore(b, id) = k
<1>1. StoresIn(b, id) \in SUBSET Nat
  BY LenProperties DEF StoresIn
<1>2. LastStore(b, id) \in StoresIn(b, id) /\ k <= LastStore(b, id) /\ LastStore(b, id) <= k
  BY LastStoreExists
<1> QED
  BY <1>1, <1>2

(* A request that is sent settles its account if it is a store, and        *)
(* changes nothing else.                                                   *)
LEMMA SettledSend ==
  ASSUME NEW b \in Seq(Request), NEW m \in Request, NEW rows, NEW id
  PROVE  /\ m.type = "store" /\ m.id = id => Settled(Append(b, m), rows, id) = m.data.money
         /\ m.type # "store" \/ m.id # id => Settled(Append(b, m), rows, id) = Settled(b, rows, id)
<1> DEFINE c == Append(b, m)
<1>1. /\ c \in Seq(Request)
      /\ DOMAIN b = 1 .. Len(b) /\ Len(b) \in Nat
      /\ DOMAIN c = 1 .. Len(b) + 1
      /\ \A k \in 1 .. Len(b) : c[k] = b[k]
      /\ c[Len(b) + 1] = m
  BY AppendAt, AppendProperties
<1> HIDE DEF c
<1>2. CASE m.type = "store" /\ m.id = id
  <2>1. Len(b) + 1 \in StoresIn(c, id) /\ \A j \in StoresIn(c, id) : j <= Len(b) + 1
    BY <1>1, <1>2 DEF StoresIn
  <2>2. LastStore(c, id) = Len(b) + 1
    BY <1>1, <2>1, LastStoreIs
  <2> QED
    BY <1>1, <1>2, <2>1, <2>2 DEF Settled, c
<1>3. CASE m.type # "store" \/ m.id # id
  <2>1. StoresIn(c, id) = StoresIn(b, id)
    BY <1>1, <1>3 DEF StoresIn
  <2>2. LastStore(c, id) = LastStore(b, id)
    BY <2>1 DEF LastStore
  <2>3. StoresIn(b, id) # {} => c[LastStore(b, id)] = b[LastStore(b, id)]
    BY <1>1, LastStoreExists DEF StoresIn
  <2> QED
    BY <1>3, <2>1, <2>2, <2>3 DEF Settled, c
<1> QED
  BY <1>2, <1>3

(* A request that db_srv handles: its account stays settled where a store  *)
(* puts it.                                                                *)
LEMMA SettledAnswer ==
  ASSUME NEW b \in Seq(Request), b # <<>>, NEW rows, NEW rows2, NEW id, NEW m, m = Head(b),
         IF m.type = "store" /\ m.id = id THEN rows2[id] = m.data /\ m.data # None
         ELSE StoresIn(b, id) = {} \/ rows2[id] = rows[id]
  PROVE  IF StoresIn(b, id) # {} THEN Settled(Tail(b), rows2, id) = Settled(b, rows, id)
         ELSE StoresIn(Tail(b), id) = {}
<1> DEFINE c == Tail(b)
<1>1. /\ c \in Seq(Request)
      /\ DOMAIN b = 1 .. Len(b) /\ Len(b) \in Nat /\ m = b[1] /\ 1 \in DOMAIN b
      /\ DOMAIN c = 1 .. Len(b) - 1
      /\ \A k \in 1 .. Len(b) - 1 : c[k] = b[k + 1] /\ k + 1 \in DOMAIN b
  BY TailAt, HeadTailProperties
<1> HIDE DEF c
<1>2. \A k \in StoresIn(c, id) : k + 1 \in StoresIn(b, id)
  BY <1>1 DEF StoresIn
<1>3. \A k \in StoresIn(b, id) : k = 1 \/ (k - 1 \in DOMAIN c /\ c[k - 1] = b[k])
  <2> SUFFICES ASSUME NEW k \in StoresIn(b, id), k # 1
               PROVE  k - 1 \in DOMAIN c /\ c[k - 1] = b[k]
    OBVIOUS
  <2>1. k - 1 \in 1 .. Len(b) - 1 /\ (k - 1) + 1 = k
    BY <1>1 DEF StoresIn
  <2> QED
    BY <1>1, <2>1
<1>4. \A k \in StoresIn(b, id) : k = 1 \/ k - 1 \in StoresIn(c, id)
  BY <1>3 DEF StoresIn
<1>5. StoresIn(b, id) \in SUBSET Nat /\ StoresIn(c, id) \in SUBSET Nat
  BY <1>1 DEF StoresIn
<1>6. CASE StoresIn(c, id) # {}
  <2> DEFINE k == LastStore(c, id)
  <2>1. k \in StoresIn(c, id) /\ \A j \in StoresIn(c, id) : j <= k
    BY <1>1, <1>6, LastStoreExists
  <2> HIDE DEF k
  <2>2. k + 1 \in StoresIn(b, id)
    BY <1>2, <2>1
  <2>3. \A j \in StoresIn(b, id) : j <= k + 1
    <3> SUFFICES ASSUME NEW j \in StoresIn(b, id) PROVE j <= k + 1
      OBVIOUS
    <3>1. j = 1 \/ j - 1 <= k
      BY <1>4, <2>1
    <3>2. j \in Nat /\ k \in Nat
      BY <1>5, <2>1
    <3> QED
      BY <3>1, <3>2
  <2>4. LastStore(b, id) = k + 1
    BY <2>2, <2>3, LastStoreIs
  <2>5. c[k] = b[k + 1]
    BY <1>1, <2>1 DEF StoresIn
  <2>6. StoresIn(b, id) # {}
    BY <2>2
  <2> QED
    BY <1>6, <2>4, <2>5, <2>6 DEF Settled, k, c
<1>7. CASE StoresIn(c, id) = {} /\ StoresIn(b, id) # {}
  <2>1. 1 \in StoresIn(b, id) /\ \A j \in StoresIn(b, id) : j <= 1
    BY <1>4, <1>5, <1>7
  <2>2. LastStore(b, id) = 1
    BY <2>1, LastStoreIs
  <2>3. m.type = "store" /\ m.id = id
    BY <1>1, <2>1 DEF StoresIn
  <2> QED
    BY <1>1, <1>7, <2>2, <2>3 DEF Settled, c
<1> QED
  BY <1>6, <1>7 DEF c

(* A request that db_srv handles and that fails: its account falls back to *)
(* what is left, no more than it had.                                      *)
LEMMA SettledDrop ==
  ASSUME NEW b \in Seq(Request), b # <<>>, NEW rows \in Rows, StoresRise(b, rows),
         NEW id \in RoleId
  PROVE  IF Settled(b, rows, id) = None THEN Settled(Tail(b), rows, id) = None
         ELSE Settled(Tail(b), rows, id) \in 0 .. Settled(b, rows, id)
<1> DEFINE c == Tail(b)
           m == Head(b)
           rows2 == [rows EXCEPT ![id] = m.data]
<1>1. \A k \in StoresIn(b, id) :
        /\ b[k].data \in Row /\ b[k].data # None /\ b[k].data.money \in 0..MaxMoney
        /\ rows[id] # None /\ rows[id].money <= b[k].data.money
  <2>1. \A k \in DOMAIN b : b[k] \in Request
    BY ElementOfSeq, LenProperties
  <2> QED
    BY <2>1, ConstantsAssumption DEF StoresIn, StoresRise, Request, Row
<1>2. rows[id] # None => rows[id].money \in 0..MaxMoney
  BY DEF Rows, Row
<1>3. 1 \in DOMAIN b /\ m = b[1]
  BY TailAt
<1> HIDE DEF c, m
<1>4. CASE StoresIn(b, id) = {}
  <2>1. m.type = "store" /\ m.id = id => 1 \in StoresIn(b, id)
    BY <1>3 DEF StoresIn
  <2>2. StoresIn(c, id) = {}
    BY <1>4, <2>1, SettledAnswer DEF c, m
  <2> QED
    BY <1>2, <1>4, <2>2, ConstantsAssumption DEF Settled, c
<1>5. CASE StoresIn(b, id) # {}
  <2>1. /\ Settled(b, rows, id) \in 0..MaxMoney
        /\ Settled(b, rows, id) # None
    BY <1>1, <1>5, LastStoreExists, ConstantsAssumption DEF Settled
  <2>2. CASE m.type = "store" /\ m.id = id
    <3>1. 1 \in StoresIn(b, id)
      BY <1>3, <2>2 DEF StoresIn
    <3>2. /\ m.data # None /\ m.data.money \in 0..MaxMoney
          /\ rows[id] # None /\ rows[id].money <= m.data.money
      BY <1>1, <1>3, <3>1
    <3>3. rows2[id] = m.data
      BY DEF Rows
    <3> HIDE DEF rows2
    <3>4. Settled(c, rows2, id) = Settled(b, rows, id)
      BY <1>5, <2>2, <3>2, <3>3, SettledAnswer DEF c, m
    <3>5. CASE StoresIn(c, id) # {}
      <4>1. Settled(c, rows, id) = Settled(b, rows, id)
        BY <3>4, <3>5 DEF Settled
      <4> QED
        BY <2>1, <4>1, ConstantsAssumption DEF c
    <3>6. CASE StoresIn(c, id) = {}
      <4>1. Settled(b, rows, id) = m.data.money /\ Settled(c, rows, id) = rows[id].money
        BY <3>2, <3>3, <3>4, <3>6 DEF Settled
      <4>2. rows[id].money \in 0 .. m.data.money
        BY <1>2, <3>2, ConstantsAssumption
      <4> QED
        BY <2>1, <4>1, <4>2 DEF c
    <3> QED
      BY <3>5, <3>6
  <2>3. CASE ~(m.type = "store" /\ m.id = id)
    <3>1. Settled(c, rows, id) = Settled(b, rows, id)
      BY <1>5, <2>3, SettledAnswer DEF c, m
    <3> QED
      BY <2>1, <3>1, ConstantsAssumption DEF c
  <2> QED
    BY <2>2, <2>3
<1> QED
  BY <1>4, <1>5

(* Lost requests take an account back, to no more than it had and to no    *)
(* less than its row.                                                      *)
LEMMA SettledLose ==
  ASSUME NEW b \in Seq(Request), NEW rows \in Rows, StoresRise(b, rows), NEW n \in 0 .. Len(b),
         NEW id \in RoleId
  PROVE  IF Settled(b, rows, id) = None THEN Settled(SubSeq(b, 1, n), rows, id) = None
         ELSE Settled(SubSeq(b, 1, n), rows, id) \in 0 .. Settled(b, rows, id)
<1> DEFINE c == SubSeq(b, 1, n)
<1>1. /\ c \in Seq(Request)
      /\ DOMAIN b = 1 .. Len(b) /\ Len(b) \in Nat
      /\ DOMAIN c = 1 .. n
      /\ \A k \in 1 .. n : c[k] = b[k] /\ k \in DOMAIN b
  <2>1. /\ DOMAIN b = 1 .. Len(b) /\ Len(b) \in Nat
        /\ DOMAIN c = 1 .. n
        /\ \A k \in 1 .. n : c[k] = b[k] /\ k \in DOMAIN b
    BY PrefixAt
  <2>2. \A k \in 1 .. n : b[k] \in Request
    BY <2>1, ElementOfSeq
  <2> QED
    BY <2>1, <2>2, SubSeqProperties
<1> HIDE DEF c
<1>2. StoresIn(c, id) \subseteq StoresIn(b, id)
  BY <1>1 DEF StoresIn
<1>3. \A k \in StoresIn(b, id) :
        /\ k \in Nat /\ b[k].data.money \in 0..MaxMoney
        /\ rows[id] # None /\ rows[id].money <= b[k].data.money
  <2>1. \A k \in DOMAIN b : b[k] \in Request
    BY <1>1, ElementOfSeq
  <2> QED
    BY <1>1, <2>1 DEF StoresIn, StoresRise, Request, Row
<1>4. rows[id] # None => rows[id].money \in 0..MaxMoney
  BY DEF Rows, Row
<1>5. CASE StoresIn(b, id) = {}
  <2>1. StoresIn(c, id) = {}
    BY <1>2, <1>5
  <2> QED
    BY <1>4, <1>5, <2>1, ConstantsAssumption DEF Settled, c
<1>6. CASE StoresIn(b, id) # {}
  <2> DEFINE l == LastStore(b, id)
  <2>1. l \in StoresIn(b, id) /\ \A j \in StoresIn(b, id) : j <= l
    BY <1>6, LastStoreExists
  <2>2. Settled(b, rows, id) = b[l].data.money
    BY <1>6 DEF Settled
  <2> HIDE DEF l
  <2>3. b[l].data.money # None /\ b[l].data.money \in 0..MaxMoney
    BY <1>3, <2>1, ConstantsAssumption
  <2>4. CASE StoresIn(c, id) = {}
    <3>1. Settled(c, rows, id) = rows[id].money
      BY <1>3, <2>1, <2>4 DEF Settled
    <3> QED
      BY <1>3, <1>4, <2>1, <2>2, <2>3, <3>1, ConstantsAssumption DEF c
  <2>5. CASE StoresIn(c, id) # {}
    <3> DEFINE k == LastStore(c, id)
    <3>1. k \in StoresIn(c, id) /\ Settled(c, rows, id) = c[k].data.money
      BY <1>1, <2>5, LastStoreExists DEF Settled
    <3> HIDE DEF k
    <3>2. k \in StoresIn(b, id) /\ c[k] = b[k] /\ k <= l
      BY <1>1, <1>2, <2>1, <3>1 DEF StoresIn
    <3>3. b[k].data.money <= b[l].data.money
      <4>1. CASE k = l
        BY <1>3, <3>2, <4>1, ConstantsAssumption
      <4>2. CASE k < l
        BY <2>1, <3>2, <4>2 DEF StoresIn, StoresRise
      <4> QED
        BY <1>3, <2>1, <3>2, <4>1, <4>2
    <3>4. b[k].data.money \in 0 .. b[l].data.money
      BY <1>3, <2>3, <3>2, <3>3, ConstantsAssumption
    <3>5. Settled(c, rows, id) \in 0 .. b[l].data.money
      BY <3>1, <3>2, <3>4
    <3> QED
      BY <2>2, <2>3, <3>5 DEF c
  <2> QED
    BY <2>4, <2>5
<1> QED
  BY <1>5, <1>6

OnlineSet == {id \in RoleId : OnlineRoles(id) # {}}

(* What an account has: the money of its role, or what is settled.         *)
LEMMA BalanceIs ==
  ASSUME NEW id \in RoleId
  PROVE  /\ \A r : OnlineRoles(id) = {r} => Balance[id] = money[r]
         /\ OnlineRoles(id) = {} => Balance[id] = Settled(toDb, row, id)
<1>1. ASSUME NEW r, OnlineRoles(id) = {r}
      PROVE  Balance[id] = money[r]
  <2>1. (CHOOSE q \in {r} : TRUE) = r
    OBVIOUS
  <2> QED
    BY <1>1, <2>1 DEF Balance
<1>2. ASSUME OnlineRoles(id) = {}
      PROVE  Balance[id] = Settled(toDb, row, id)
  BY <1>2 DEF Balance, Settled, LastStore, StoresIn, Stores
<1> QED
  BY <1>1, <1>2

(* ... also after a step.                                                  *)
LEMMA BalanceBecomes ==
  ASSUME NEW id \in RoleId
  PROVE  /\ \A r : OnlineRoles(id)' = {r} => Balance'[id] = money'[r]
         /\ OnlineRoles(id)' = {} => Balance'[id] = Settled(toDb', row', id)
<1>1. ASSUME NEW r, OnlineRoles(id)' = {r}
      PROVE  Balance'[id] = money'[r]
  <2>1. (CHOOSE q \in {r} : TRUE) = r
    OBVIOUS
  <2> QED
    BY <1>1, <2>1 DEF Balance
<1>2. ASSUME OnlineRoles(id)' = {}
      PROVE  Balance'[id] = Settled(toDb', row', id)
  BY <1>2 DEF Balance, Settled, LastStore, StoresIn, Stores
<1> QED
  BY <1>1, <1>2

LEMMA BalanceIsFunction ==
  /\ Balance = [id \in RoleId |-> Balance[id]]
  /\ Balance' = [id \in RoleId |-> Balance'[id]]
BY DEF Balance

(* The roles of an account: none, or one.                                  *)
LEMMA OneRoleOnline ==
  ASSUME OInv, NEW id
  PROVE  \A r \in OnlineRoles(id) : OnlineRoles(id) = {r}
BY DEF OInv, PoolInv, KeysInv, OnlineRoles

(* An account keeps its balance when its role, or what is settled, stays.  *)
LEMMA BalanceKept ==
  ASSUME OInv, NEW id \in RoleId, OnlineRoles(id)' = OnlineRoles(id),
         \A r \in OnlineRoles(id) : money'[r] = money[r],
         OnlineRoles(id) = {} => Settled(toDb', row', id) = Settled(toDb, row, id)
  PROVE  Balance'[id] = Balance[id]
<1>1. CASE OnlineRoles(id) = {}
  BY <1>1, BalanceIs, BalanceBecomes
<1>2. CASE OnlineRoles(id) # {}
  <2>1. PICK r \in OnlineRoles(id) : OnlineRoles(id) = {r}
    BY <1>2, OneRoleOnline
  <2>2. Balance[id] = money[r]
    BY <2>1, BalanceIs
  <2>3. Balance'[id] = money'[r]
    BY <2>1, BalanceBecomes
  <2> QED
    BY <2>1, <2>2, <2>3
<1> QED
  BY <1>1, <1>2

(* A step that keeps the balances, the roles, the deaths and the failures. *)
LEMMA Stutters ==
  ASSUME \A id \in RoleId : Balance'[id] = Balance[id] /\ OnlineRoles(id)' = OnlineRoles(id),
         UNCHANGED <<crashes, failed>>
  PROVE  UNCHANGED <<Balance, OnlineSet, crashes, failed>>
<1>1. Balance' = Balance
  BY BalanceIsFunction
<1>2. OnlineSet' = OnlineSet
  BY DEF OnlineSet
<1> QED
  BY <1>1, <1>2

(* A request that is no store settles nothing.                             *)
LEMMA AskKeeps ==
  ASSUME IInv, OInv, NEW f \in Request, f.type # "store", toDb' = Append(toDb, f), row' = row
  PROVE  \A id : Settled(toDb', row', id) = Settled(toDb, row, id)
BY SettledSend DEF IInv, Inv1, TypeOK

(* A role that leaves settles its account, and no other.                   *)
LEMMA StoreSettles ==
  ASSUME IInv, OInv, NEW q \in used, named[q]
  PROVE  /\ StoreOf(q, money) \in Request /\ Append(toDb, StoreOf(q, money)) \in Seq(Request)
         /\ Settled(Append(toDb, StoreOf(q, money)), row, roleId[q]) = money[q]
         /\ \A id : id # roleId[q] =>
              Settled(Append(toDb, StoreOf(q, money)), row, id) = Settled(toDb, row, id)
<1> DEFINE m == StoreOf(q, money)
<1>1. m \in Request
  BY StoreOfType DEF IInv, Inv1, TypeOK, NamedInv
<1>2. m.type = "store" /\ m.id = roleId[q] /\ m.data.money = money[q]
  BY DEF StoreOf
<1>3. toDb \in Seq(Request)
  BY DEF IInv, Inv1, TypeOK
<1> HIDE DEF m
<1>4. Append(toDb, m) \in Seq(Request)
  BY <1>1, <1>3, AppendProperties
<1> QED
  BY <1>1, <1>2, <1>3, <1>4, SettledSend DEF m

(* The online role of one account is gone, and its money settled.          *)
LEMMA LeavesAccount ==
  ASSUME OInv, NEW q \in used, named[q], NEW acc \in RoleId, roleId[q] = acc,
         Settled(toDb', row', acc) = money[q],
         \A id \in RoleId : id # acc => Settled(toDb', row', id) = Settled(toDb, row, id),
         OnlineRoles(acc)' = {},
         \A id \in RoleId : id # acc => OnlineRoles(id)' = OnlineRoles(id),
         \A r \in used : r # q => money'[r] = money[r],
         UNCHANGED <<crashes, failed>>
  PROVE  A!Leave(acc)
<1>1. q \in OnlineRoles(acc) /\ OnlineRoles(acc) = {q}
  BY OneRoleOnline DEF OnlineRoles
<1>2. Balance[acc] = money[q]
  BY <1>1, BalanceIs
<1>3. Balance'[acc] = money[q]
  BY BalanceBecomes
<1>4. ASSUME NEW id \in RoleId, id # acc
      PROVE  Balance'[id] = Balance[id]
  <2>1. \A r \in OnlineRoles(id) : r \in used /\ r # q
    BY <1>4 DEF OnlineRoles
  <2> QED
    BY <1>4, <2>1, BalanceKept
<1>5. Balance' = Balance
  BY <1>2, <1>3, <1>4, BalanceIsFunction
<1>6. acc \in OnlineSet /\ OnlineSet' = OnlineSet \ {acc}
  BY <1>1 DEF OnlineSet
<1> QED
  BY <1>5, <1>6 DEF A!Leave, OnlineSet

(* A login: the account it takes over leaves first.                        *)
LEMMA LoginAccount ==
  ASSUME IInv, Inv1', OInv, NEW s \in Session, NEW id \in RoleId, Logins(s, id)
  PROVE  A!Leave(id) \/ UNCHANGED <<Balance, OnlineSet, crashes, failed>>
<1> USE DEF IInv, Inv1
<1> DEFINE E == ById(id)
           f == [type |-> "fetch", id |-> id]
<1>0. LoginRequest(s, id, 0)
  BY DEF Logins
<1>1. E = {q \in used : roleId[q] = id}
  BY <1>0 DEF LoginRequest, OInv, PoolInv, KeysInv, ById
<1>2. /\ toDb' = toDb \o (StoreRequests(E, money) \o <<f>>)
      /\ UNCHANGED <<row, failed, fromDb, money, crashes>>
  BY <1>0 DEF LoginRequest, LoginMessages, FetchRequest, AdmitRole, InitRoleData
<1>3. \A p \in RoleId : OnlineRoles(p)' = IF p = id THEN {} ELSE OnlineRoles(p)
  <2>1. PICK r \in Slot \ (used \ E) : Enlist(E, r, s, id) /\ InitRoleData(E, r)
    BY <1>0 DEF LoginRequest, AdmitRole
  <2> HIDE DEF E
  <2>2. /\ used' = (used \ E) \cup {r} /\ named'[r] = FALSE
        /\ \A q \in used \ E : q # r /\ roleId'[q] = roleId[q] /\ named'[q] = named[q]
    BY <2>1 DEF Enlist, InitRoleData, TypeOK
  <2> QED
    BY <1>1, <2>2 DEF OnlineRoles
<1>4. f \in Request /\ f.type # "store" /\ toDb \in Seq(Request)
  BY DEF Request, TypeOK
<1> HIDE DEF f
<1>5. CASE \E q \in E : named[q]
  <2>1. PICK q \in E : named[q]
    BY <1>5
  <2> DEFINE m == StoreOf(q, money)
             b == Append(toDb, m)
  <2>2. E = {q} /\ q \in used /\ roleId[q] = id
    BY <1>1, <2>1 DEF OInv, PoolInv, KeysInv
  <2>3. StoreRequests(E, money) = <<m>>
    BY <2>1, <2>2, StoreRequestsOne
  <2>4. /\ m \in Request /\ b \in Seq(Request)
        /\ Settled(b, row, id) = money[q]
        /\ \A p : p # id => Settled(b, row, p) = Settled(toDb, row, p)
    BY <2>1, <2>2, StoreSettles
  <2> HIDE DEF m
  <2>5. toDb' = Append(b, f)
    BY <1>2, <1>4, <2>3, <2>4
  <2> HIDE DEF b
  <2>6. \A p : Settled(toDb', row', p) = Settled(b, row, p)
    <3>1. \A p : Settled(Append(b, f), row, p) = Settled(b, row, p)
      BY <1>4, <2>4, SettledSend
    <3> QED
      BY <1>2, <2>5, <3>1
  <2> HIDE DEF E
  <2> QED
    BY <1>2, <1>3, <2>1, <2>2, <2>4, <2>6, LeavesAccount
<1>6. CASE \A q \in E : ~named[q]
  <2>1. StoreRequests(E, money) = <<>>
    BY <1>6 DEF StoreRequests, Storable
  <2>2. toDb' = Append(toDb, f)
    BY <1>2, <1>4, <2>1
  <2>3. \A p : Settled(toDb', row', p) = Settled(toDb, row, p)
    BY <1>2, <1>4, <2>2, AskKeeps
  <2>4. OnlineRoles(id) = {}
    BY <1>1, <1>6 DEF OnlineRoles
  <2>5. \A p \in RoleId : OnlineRoles(p)' = OnlineRoles(p)
    BY <1>3, <2>4
  <2>6. \A p \in RoleId : Balance'[p] = Balance[p]
    BY <1>2, <2>3, <2>5, BalanceKept
  <2> QED
    BY <1>2, <2>5, <2>6, Stutters
<1> QED
  BY <1>5, <1>6

(* A logout.                                                               *)
LEMMA LogoutAccount ==
  ASSUME IInv, OInv, NEW q \in used, NEW acc \in RoleId, roleId[q] = acc, ReleaseRoles({q}),
         toDb' = toDb \o StoreRequests({q}, money), UNCHANGED <<crashes, money, row, failed>>
  PROVE  (named[q] /\ A!Leave(acc)) \/ UNCHANGED <<Balance, OnlineSet, crashes, failed>>
<1> USE DEF IInv, Inv1
<1>1. used' = used \ {q} /\ UNCHANGED <<roleId, named>>
  BY DEF ReleaseRoles, Delist
<1>2. toDb \in Seq(Request)
  BY DEF TypeOK
<1>3. CASE named[q]
  <2> DEFINE m == StoreOf(q, money)
  <2>1. m \in Request
    BY <1>3, StoreSettles
  <2>2. StoreRequests({q}, money) = <<m>>
    BY <1>3, StoreRequestsOne
  <2>3. toDb' = Append(toDb, m)
    BY <1>2, <2>1, <2>2, AppendIsConcat
  <2>4. /\ Settled(toDb', row', acc) = money[q]
        /\ \A id \in RoleId : id # acc => Settled(toDb', row', id) = Settled(toDb, row, id)
    BY <1>3, <2>3, StoreSettles
  <2>5. /\ OnlineRoles(acc)' = {}
        /\ \A id \in RoleId : id # acc => OnlineRoles(id)' = OnlineRoles(id)
    BY <1>1 DEF OnlineRoles, OInv, PoolInv, KeysInv
  <2> QED
    BY <1>2, <1>3, <2>4, <2>5, LeavesAccount
<1>4. CASE ~named[q]
  <2>1. toDb' = toDb
    BY <1>2, <1>4, StoreRequestsOne, ConcatEmptySeq
  <2>2. \A id \in RoleId : OnlineRoles(id)' = OnlineRoles(id)
    BY <1>1, <1>4 DEF OnlineRoles
  <2>3. \A id \in RoleId : Balance'[id] = Balance[id]
    BY <2>1, <2>2, BalanceKept
  <2> QED
    BY <2>2, <2>3, Stutters
<1> QED
  BY <1>3, <1>4

(* A request for a new role, and every step that moves neither money, nor  *)
(* rows, nor requests.                                                     *)
LEMMA AskAccount ==
  ASSUME IInv, OInv, NEW s \in Session, NEW id \in RoleId, Asks(s, id)
  PROVE  UNCHANGED <<Balance, OnlineSet, crashes, failed>>
<1> DEFINE f == [type |-> "create", id |-> id]
<1>1. toDb' = Append(toDb, f) /\ UNCHANGED <<row, failed, crashes, used, roleId, named, money>>
  BY DEF Asks, CreateroleRequest, fields
<1>2. f \in Request /\ f.type # "store"
  BY DEF Request
<1> HIDE DEF f
<1>3. \A p : Settled(toDb', row', p) = Settled(toDb, row, p)
  BY <1>1, <1>2, AskKeeps
<1>4. \A p \in RoleId : OnlineRoles(p)' = OnlineRoles(p)
  BY <1>1 DEF OnlineRoles
<1>5. \A p \in RoleId : Balance'[p] = Balance[p]
  BY <1>1, <1>3, <1>4, BalanceKept
<1> QED
  BY <1>1, <1>4, <1>5, Stutters

LEMMA QuietAccount ==
  ASSUME OInv, UNCHANGED <<crashes, used, roleId, named, money, toDb, row, failed>>
  PROVE  UNCHANGED <<Balance, OnlineSet, crashes, failed>>
<1>1. \A p \in RoleId : OnlineRoles(p)' = OnlineRoles(p)
  BY DEF OnlineRoles
<1>2. \A p \in RoleId : Balance'[p] = Balance[p]
  BY <1>1, BalanceKept
<1> QED
  BY <1>1, <1>2, Stutters

(* A role without its data leaves nothing behind.                          *)
LEMMA FailAccount ==
  ASSUME OInv, NEW q \in used, ~named[q], used' = used \ {q},
         \A p \in used : p # q => money'[p] = money[p],
         UNCHANGED <<crashes, roleId, named, toDb, row, failed>>
  PROVE  UNCHANGED <<Balance, OnlineSet, crashes, failed>>
<1>1. \A p \in RoleId : OnlineRoles(p)' = OnlineRoles(p)
  BY DEF OnlineRoles
<1>2. ASSUME NEW p \in RoleId
      PROVE  Balance'[p] = Balance[p]
  <2>1. \A r \in OnlineRoles(p) : money'[r] = money[r]
    BY DEF OnlineRoles
  <2> QED
    BY <1>1, <2>1, BalanceKept
<1> QED
  BY <1>1, <1>2, Stutters

(* A reward.                                                               *)
LEMMA EarnAccount ==
  ASSUME IInv, OInv, NEW s \in Session, Earns(s)
  PROVE  \E id \in RoleId : A!Earn(id)
<1> USE DEF IInv, Inv1
<1>1. PICK r \in BySession(s) : named[r] /\ money' = [money EXCEPT ![r] = @ + 1]
  BY DEF Earns, EarnMoney
<1>2. UNCHANGED <<crashes, used, roleId, named, toDb, row, failed>>
  BY DEF Earns, EarnMoney
<1>3. r \in used /\ r \in Slot
  BY LookupsUsed DEF TypeOK
<1>4. PICK acc \in RoleId : roleId[r] = acc
  BY <1>3 DEF TypeOK, IndexInv
<1>5. \A p \in RoleId : OnlineRoles(p)' = OnlineRoles(p)
  BY <1>2 DEF OnlineRoles
<1>6. r \in OnlineRoles(acc) /\ OnlineRoles(acc) = {r}
  BY <1>1, <1>3, <1>4, OneRoleOnline DEF OnlineRoles
<1>7. Balance[acc] = money[r]
  BY <1>6, BalanceIs
<1>8. money'[r] = money[r] + 1 /\ \A q \in used : q # r => money'[q] = money[q]
  BY <1>1, <1>3 DEF TypeOK
<1>9. Balance'[acc] = money[r] + 1
  BY <1>5, <1>6, <1>8, BalanceBecomes
<1>10. ASSUME NEW p \in RoleId, p # acc
       PROVE  Balance'[p] = Balance[p]
  <2>1. \A q \in OnlineRoles(p) : money'[q] = money[q]
    BY <1>4, <1>8, <1>10 DEF OnlineRoles
  <2> QED
    BY <1>2, <1>5, <2>1, BalanceKept
<1>11. Balance' = [Balance EXCEPT ![acc] = @ + 1]
  BY <1>7, <1>9, <1>10, BalanceIsFunction
<1>12. acc \in OnlineSet /\ OnlineSet' = OnlineSet
  BY <1>5, <1>6 DEF OnlineSet
<1> QED
  BY <1>2, <1>11, <1>12 DEF A!Earn, OnlineSet

(* A role gets its data: its account comes online with what it had.        *)
LEMMA LoadAccount ==
  ASSUME IInv, OInv, fromDb # <<>>, fromDb' = Tail(fromDb),
         NEW m, m = Head(fromDb), m.type # "store", m.data # None,
         NEW r \in used, ~named[r], NEW acc \in RoleId, acc = m.id, roleId[r] = acc,
         LoadSucceeds(r, m.data)
  PROVE  A!Enter(acc)
<1> USE DEF IInv, Inv1
<1>1. /\ row[acc] = m.data
      /\ \A k \in DOMAIN toDb : toDb[k].id # acc
  BY LoadQueues
<1>2. /\ UNCHANGED <<crashes, used, roleId, toDb, row, failed>>
      /\ named' = [named EXCEPT ![r] = TRUE]
      /\ money' = [money EXCEPT ![r] = m.data.money]
  BY DEF LoadSucceeds
<1>3. \A q \in used : roleId[q] = acc => q = r
  BY DEF OInv, PoolInv, KeysInv
<1>4. OnlineRoles(acc) = {}
  BY <1>3 DEF OnlineRoles
<1>5. /\ r \in Slot /\ named'[r] /\ money'[r] = m.data.money
      /\ \A q \in used : q # r => named'[q] = named[q] /\ money'[q] = money[q]
  BY <1>2 DEF TypeOK
<1>6. OnlineRoles(acc)' = {r}
  BY <1>2, <1>3, <1>5 DEF OnlineRoles
<1>7. \A p \in RoleId : p # acc => OnlineRoles(p)' = OnlineRoles(p)
  BY <1>2, <1>5 DEF OnlineRoles
<1>8. StoresIn(toDb, acc) = {}
  BY <1>1 DEF StoresIn
<1>9. Balance[acc] = m.data.money
  BY <1>1, <1>4, <1>8, BalanceIs DEF Settled
<1>10. Balance'[acc] = m.data.money
  BY <1>5, <1>6, BalanceBecomes
<1>11. Balance[acc] # None
  BY <1>1, <1>9, ConstantsAssumption DEF TypeOK, Row
<1>12. ASSUME NEW p \in RoleId, p # acc
       PROVE  Balance'[p] = Balance[p]
  <2>1. \A q \in OnlineRoles(p) : money'[q] = money[q]
    BY <1>5, <1>12 DEF OnlineRoles
  <2> QED
    BY <1>2, <1>7, <1>12, <2>1, BalanceKept
<1>13. Balance' = Balance
  BY <1>9, <1>10, <1>12, BalanceIsFunction
<1>14. acc \notin OnlineSet /\ OnlineSet' = OnlineSet \cup {acc}
  BY <1>4, <1>6, <1>7 DEF OnlineSet
<1> QED
  BY <1>2, <1>11, <1>13, <1>14 DEF A!Enter, OnlineSet

(* A death: an account that is not online may fall back, never below its   *)
(* row.                                                                    *)
LEMMA DeathAccount ==
  ASSUME IInv, OInv, GoDown, UNCHANGED <<used, roleId, named>>,
         \A r \in used : named[r] => money'[r] = money[r]
  PROVE  A!Crash
<1> USE DEF IInv, Inv1
<1>1. PICK n \in 0 .. Len(toDb) : toDb' = SubSeq(toDb, 1, n)
  BY DEF GoDown
<1>2. UNCHANGED <<row, failed>> /\ crashes' = crashes + 1
  BY DEF GoDown
<1>3. \A p \in RoleId : OnlineRoles(p)' = OnlineRoles(p)
  BY DEF OnlineRoles
<1>4. ASSUME NEW p \in RoleId, OnlineRoles(p) # {}
      PROVE  Balance'[p] = Balance[p]
  <2>1. \A r \in OnlineRoles(p) : money'[r] = money[r]
    BY DEF OnlineRoles
  <2> QED
    BY <1>3, <1>4, <2>1, BalanceKept
<1>5. ASSUME NEW p \in RoleId, OnlineRoles(p) = {}
      PROVE  IF Balance[p] = None THEN Balance'[p] = Balance[p]
             ELSE Balance'[p] \in 0 .. Balance[p]
  <2>1. toDb \in Seq(Request) /\ row \in Rows /\ StoresRise(toDb, row)
    BY DEF TypeOK, Rows, OInv, QueuesInv, Queues
  <2>2. IF Settled(toDb, row, p) = None THEN Settled(toDb', row', p) = None
        ELSE Settled(toDb', row', p) \in 0 .. Settled(toDb, row, p)
    BY <1>1, <1>2, <2>1, SettledLose
  <2>3. Balance[p] = Settled(toDb, row, p)
    BY <1>5, BalanceIs
  <2>4. Balance'[p] = Settled(toDb', row', p)
    BY <1>3, <1>5, BalanceBecomes
  <2> QED
    BY <2>2, <2>3, <2>4
<1>6. UNCHANGED OnlineSet
  BY <1>3 DEF OnlineSet
<1> QED
  BY <1>2, <1>4, <1>5, <1>6 DEF A!Crash, A!Setback, OnlineSet

(* db_srv: a new row opens its account, and a query that fails may take    *)
(* its account back; every other request it handles leaves all accounts as *)
(* they are.                                                               *)
LEMMA DbAccount ==
  ASSUME IInv, OInv, DbServer
  PROVE  (\E id \in RoleId : A!Open(id) \/ A!Fail(id)) \/ UNCHANGED <<Balance, OnlineSet, crashes, failed>>
<1> USE DEF IInv, Inv1
<1> DEFINE m == Head(toDb)
<1>1. /\ toDb # <<>> /\ toDb' = Tail(toDb) /\ m \in Request
      /\ m.type = "store" => row[m.id] # None
      /\ \/ failed' = failed /\ (m.type = "store" => row'[m.id] = m.data)
         \/ failed' = [failed EXCEPT ![m.id] = 1 - @] /\ row' = row
      /\ m.type # "store" => row[m.id] = None \/ row'[m.id] = row[m.id]
      /\ row'[m.id] # row[m.id] => (m.type = "create" /\ row'[m.id].money = 0) \/ m.type = "store"
      /\ row'[m.id] = None => row[m.id] = None
      /\ \A id \in RoleId : id # m.id => row'[id] = row[id]
  BY DbServerReads DEF OInv
<1>2. UNCHANGED <<crashes, used, roleId, named, money>>
  BY DbServerReads DEF OInv, fields
<1>3. /\ toDb \in Seq(Request)
      /\ DOMAIN toDb = 1 .. Len(toDb) /\ 1 \in DOMAIN toDb /\ m = toDb[1]
  BY <1>1, TailAt DEF TypeOK
<1> HIDE DEF m
<1>4. m = Head(toDb)
  BY DEF m
<1>5. PICK acc \in RoleId : m.id = acc
  BY <1>1 DEF Request
<1>6. \A p \in RoleId : OnlineRoles(p)' = OnlineRoles(p)
  BY <1>2 DEF OnlineRoles
<1>7. ASSUME NEW p \in RoleId, p # acc
      PROVE  Settled(toDb', row', p) = Settled(toDb, row, p)
  <2>1. row'[p] = row[p]
    BY <1>1, <1>5, <1>7
  <2>2. /\ toDb \in Seq(Request) /\ toDb # <<>>
        /\ IF m.type = "store" /\ m.id = p THEN row'[p] = m.data /\ m.data # None
           ELSE StoresIn(toDb, p) = {} \/ row'[p] = row[p]
    BY <1>1, <1>3, <1>5, <1>7, <2>1
  <2>3. IF StoresIn(toDb, p) # {} THEN Settled(Tail(toDb), row', p) = Settled(toDb, row, p)
        ELSE StoresIn(Tail(toDb), p) = {}
    BY <1>4, <2>2, SettledAnswer
  <2> QED
    BY <1>1, <2>1, <2>3 DEF Settled
<1>8. ASSUME NEW p \in RoleId, p # acc
      PROVE  Balance'[p] = Balance[p]
  BY <1>2, <1>6, <1>7, <1>8, BalanceKept
<1>9. CASE failed' = failed /\ m.type = "store"
  <2>1. m.data # None
    BY <1>1, <1>9, ConstantsAssumption DEF Request
  <2>2. 1 \in StoresIn(toDb, acc)
    BY <1>3, <1>5, <1>9 DEF StoresIn
  <2>0. failed # [failed EXCEPT ![acc] = 1 - @]
    BY ConstantsAssumption DEF TypeOK
  <2>3. /\ toDb \in Seq(Request) /\ toDb # <<>>
        /\ IF m.type = "store" /\ m.id = acc THEN row'[acc] = m.data /\ m.data # None
           ELSE StoresIn(toDb, acc) = {} \/ row'[acc] = row[acc]
    BY <1>1, <1>3, <1>5, <1>9, <2>0, <2>1
  <2>4. IF StoresIn(toDb, acc) # {} THEN Settled(Tail(toDb), row', acc) = Settled(toDb, row, acc)
        ELSE StoresIn(Tail(toDb), acc) = {}
    BY <1>4, <2>3, SettledAnswer
  <2>5. Settled(toDb', row', acc) = Settled(toDb, row, acc)
    BY <1>1, <2>2, <2>4
  <2>6. Balance'[acc] = Balance[acc]
    BY <1>2, <1>6, <2>5, BalanceKept
  <2> QED
    BY <1>2, <1>6, <1>8, <1>9, <2>6, Stutters
<1>10. CASE failed' = failed /\ m.type # "store"
  <2>1. StoresIn(toDb, acc) = {}
    BY <1>3, <1>5, <1>10 DEF StoresIn, OInv, QueuesInv, Queues, LoadsLast
  <2>2. StoresIn(toDb', acc) = {}
    BY <1>1, <1>3, <1>4, <1>5, <1>10, <2>1, SettledAnswer
  <2>3. CASE row'[acc] = row[acc]
    <3>1. Settled(toDb', row', acc) = Settled(toDb, row, acc)
      BY <2>1, <2>2, <2>3 DEF Settled
    <3>2. Balance'[acc] = Balance[acc]
      BY <1>2, <1>6, <3>1, BalanceKept
    <3> QED
      BY <1>2, <1>6, <1>8, <1>10, <3>2, Stutters
  <2>4. CASE row'[acc] # row[acc]
    <3>1. row[acc] = None /\ row'[acc].money = 0 /\ row'[acc] # None
      BY <1>1, <1>5, <1>10, <2>4
    <3>2. OnlineRoles(acc) = {}
      BY <1>3, <1>5, <1>10 DEF OnlineRoles, OInv, OnlineInv, Online, NoLoad
    <3>3. Balance[acc] = None
      BY <2>1, <3>1, <3>2, BalanceIs DEF Settled
    <3>4. Balance'[acc] = 0
      BY <1>6, <2>2, <3>1, <3>2, BalanceBecomes DEF Settled
    <3>5. Balance' = [Balance EXCEPT ![acc] = 0]
      BY <1>8, <3>4, BalanceIsFunction
    <3>6. OnlineSet' = OnlineSet
      BY <1>6 DEF OnlineSet
    <3> QED
      BY <1>2, <1>10, <3>3, <3>5, <3>6 DEF A!Open, OnlineSet
  <2> QED
    BY <2>3, <2>4
<1>11. CASE failed' = [failed EXCEPT ![m.id] = 1 - @] /\ row' = row
  <2>1. toDb \in Seq(Request) /\ row \in Rows /\ StoresRise(toDb, row)
    BY DEF TypeOK, Rows, OInv, QueuesInv, Queues
  <2>2. IF Settled(toDb, row, acc) = None THEN Settled(toDb', row', acc) = None
        ELSE Settled(toDb', row', acc) \in 0 .. Settled(toDb, row, acc)
    BY <1>1, <1>11, <2>1, SettledDrop
  <2>3. ASSUME OnlineRoles(acc) # {}
        PROVE  Balance'[acc] = Balance[acc]
    <3>1. \A r \in OnlineRoles(acc) : money'[r] = money[r]
      BY <1>2
    <3> QED
      BY <1>6, <2>3, <3>1, BalanceKept
  <2>4. ASSUME OnlineRoles(acc) = {}
        PROVE  IF Balance[acc] = None THEN Balance'[acc] = None
               ELSE Balance'[acc] \in 0 .. Balance[acc]
    <3>1. Balance[acc] = Settled(toDb, row, acc)
      BY <2>4, BalanceIs
    <3>2. Balance'[acc] = Settled(toDb', row', acc)
      BY <1>6, <2>4, BalanceBecomes
    <3> QED
      BY <2>2, <3>1, <3>2
  <2>5. A!Setback(acc)
    BY <2>3, <2>4 DEF A!Setback, OnlineSet
  <2>6. OnlineSet' = OnlineSet
    BY <1>6 DEF OnlineSet
  <2> QED
    BY <1>2, <1>5, <1>8, <1>11, <2>5, <2>6 DEF A!Fail, OnlineSet
<1> QED
  BY <1>1, <1>9, <1>10, <1>11

(* Every step of the servers is a step of Account, or none.                *)
LEMMA AccountStep ==
  ASSUME IInv, Inv1', OInv, [OrderlyNext]_vars
  PROVE  \/ A!Crash
         \/ \E id \in RoleId : A!Open(id) \/ A!Enter(id) \/ A!Earn(id) \/ A!Leave(id) \/ A!Fail(id)
         \/ UNCHANGED <<Balance, OnlineSet, crashes, failed>>
<1> DEFINE Goal ==
      \/ A!Crash
      \/ \E id \in RoleId : A!Open(id) \/ A!Enter(id) \/ A!Earn(id) \/ A!Leave(id) \/ A!Fail(id)
      \/ UNCHANGED <<Balance, OnlineSet, crashes, failed>>
<1>1. ASSUME NEW s \in Session, NEW id \in RoleId, Logins(s, id)
      PROVE  Goal
  BY <1>1, LoginAccount
<1>2. ASSUME NEW s \in Session, NEW id \in RoleId, Asks(s, id)
      PROVE  Goal
  BY <1>2, AskAccount
<1>3. ASSUME NEW s \in Session, Plays(s)
      PROVE  Goal
  <2>1. UNCHANGED <<crashes, used, roleId, named, money, toDb, row, failed>>
    BY <1>3 DEF Plays, TransportRequest, EnterInstanceRequest, LeaveInstanceRequest
  <2> QED
    BY <2>1, QuietAccount
<1>4. ASSUME NEW s \in Session, Earns(s)
      PROVE  Goal
  BY <1>4, EarnAccount
<1>5. \A r \in used : roleId[r] \in RoleId
  BY DEF IInv, Inv1, TypeOK, IndexInv
<1>6. ASSUME NEW q \in used, ReleaseRoles({q}),
             toDb' = toDb \o StoreRequests({q}, money), UNCHANGED <<crashes, money, row, failed>>
      PROVE  Goal
  <2>1. PICK acc \in RoleId : roleId[q] = acc
    BY <1>5
  <2> QED
    BY <1>6, <2>1, LogoutAccount
<1>7. ASSUME NEW q \in used, ~named[q], ReleaseRoles({q}),
             \A p \in used : p # q => money'[p] = money[p],
             UNCHANGED <<crashes, row, failed, toDb>>
      PROVE  Goal
  <2>1. used' = used \ {q} /\ UNCHANGED <<roleId, named>>
    BY <1>7 DEF ReleaseRoles, Delist
  <2> QED
    BY <1>7, <2>1, FailAccount
<1>8. ASSUME NEW r \in used, ~named[r], roleId[r] = Head(fromDb).id,
             fromDb # <<>>, fromDb' = Tail(fromDb),
             Head(fromDb).type # "store", Head(fromDb).data # None,
             LoadSucceeds(r, Head(fromDb).data)
      PROVE  Goal
  <2>1. PICK acc \in RoleId : roleId[r] = acc
    BY <1>5
  <2>2. A!Enter(acc)
    BY <1>8, <2>1, LoadAccount
  <2> QED
    BY <2>2
<1>9. ASSUME GoDown, UNCHANGED <<used, roleId, named>>,
             \A r \in used : named[r] => money'[r] = money[r]
      PROVE  Goal
  BY <1>9, DeathAccount
<1>10. ASSUME DbServer PROVE Goal
  BY <1>10, DbAccount
<1>11. ASSUME Resume PROVE Goal
  <2>1. UNCHANGED <<crashes, used, roleId, named, money, toDb, row, failed>>
    BY <1>11 DEF Resume, Relink, fields
  <2> QED
    BY <2>1, QuietAccount
<1>12. ASSUME UNCHANGED <<crashes, used, fields, toDb, row, failed>>
       PROVE  Goal
  <2>1. UNCHANGED <<crashes, used, roleId, named, money, toDb, row, failed>>
    BY <1>12 DEF fields
  <2> QED
    BY <2>1, QuietAccount
<1> HIDE DEF Goal
<1>13. Goal
  BY <1>1, <1>2, <1>3, <1>4, <1>6, <1>7, <1>8, <1>9, <1>10, <1>11, <1>12, OrderlyCases
<1> QED
  BY <1>13 DEF Goal

(* Under orderly clients the servers keep every account: its money appears *)
(* once, grows only while the role is online, moves with a login, a kick   *)
(* and a logout, and falls back only by a death of game_srv or a query of  *)
(* its own that fails, and then never while the role is online.            *)
THEOREM AccountsAreKept == OrderlySpec => KeepsAccounts
<1>1. Init => A!AInit
  <2> SUFFICES ASSUME Init PROVE A!AInit
    OBVIOUS
  <2>1. \A id \in RoleId : OnlineRoles(id) = {} /\ StoresIn(toDb, id) = {}
    BY DEF Init, OnlineRoles, StoresIn
  <2>2. \A id \in RoleId : Balance[id] \in {0, None}
    <3> SUFFICES ASSUME NEW id \in RoleId PROVE Balance[id] \in {0, None}
      OBVIOUS
    <3>1. Balance[id] = IF row[id] = None THEN None ELSE row[id].money
      BY <2>1, BalanceIs DEF Settled
    <3>2. row[id] = None \/ row[id].money = 0
      BY DEF Init
    <3> QED
      BY <3>1, <3>2
  <2>3. Balance \in [RoleId -> {0, None}]
    BY <2>2, BalanceIsFunction
  <2>4. OnlineSet = {} /\ crashes = 0 /\ failed = [id \in RoleId |-> 0]
    BY <2>1 DEF OnlineSet, Init
  <2> QED
    BY <2>3, <2>4 DEF A!AInit, OnlineSet
<1>2. IInv /\ IInv' /\ OInv /\ [OrderlyNext]_vars => [A!ANext]_(A!avars)
  BY AccountStep DEF IInv, A!ANext, A!avars, OnlineSet
<1> QED
  BY <1>1, <1>2, OInvAlways, PTL DEF OrderlySpec, KeepsAccounts, A!ASpec
=============================================================================
