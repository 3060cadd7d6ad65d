-------------------------- MODULE TeamTrackProofs ---------------------------
(***************************************************************************)
(* TeamTrack for any orgs, rows, requests and handlers: types, that the    *)
(* rows of orgs stay apart, that retried creates agree on one row, that    *)
(* the audit log tells what is in the tables, and that a reader who        *)
(* follows the cursors misses nothing.                                     *)
(***************************************************************************)
EXTENDS TeamTrack, SequenceTheorems, FiniteSetTheorems, WellFoundedInduction, TLAPS

\* A non-empty set of naturals has a least element.
LEMMA NatSetMin ==
  ASSUME NEW T \in SUBSET Nat, T # {}
  PROVE  \E m \in T : \A k \in T : m <= k
<1>1. PICK m \in T : \A k \in T : <<k, m>> \notin OpToRel(<, Nat)
  BY NatLessThanWellFounded, WFMin
<1>2. ASSUME NEW k \in T PROVE m <= k
  <2>1. ~(k < m)
    BY <1>1, <1>2 DEF OpToRel
  <2>2. k \in Nat /\ m \in Nat
    OBVIOUS
  <2> QED
    BY <2>1, <2>2
<1> QED
  BY <1>2

(* ---- What holds of the tables and of a request about to write ----------- *)

Seen == [version : Nat, assignee : Nat, role : Roles]
Handler == [pc : Places, req : Requests \cup {NoRequest}, seen : Seen, status : Nat, id : Nat]
StoredRow == [org : Orgs, key : STRING, op : Keyed, word : STRING, id : Ids]

TablesOK ==
  /\ user \in Seq(UserRow) /\ project \in Seq(ProjectRow) /\ issue \in Seq(IssueRow)
  /\ member \subseteq Nat \X Nat
  /\ audit \in Seq(AuditRow)
  /\ stored \subseteq StoredRow
HandlersOK ==
  /\ handler \in [Clients -> Handler]
  /\ \A c \in Clients : handler[c].pc # "free" => handler[c].req \in Requests
PagerOK ==
  pager \in [pc : {"free", "paging", "done", "refused"}, after : Nat, got : SUBSET Ids,
             rows : Nat, owed : SUBSET Ids]

\* The seeded users are there, so that the user of every token is.
Seeded == Len(SeedUsers) <= Len(user)

\* What the lookups of Find have established of the rows that a request of a
\* user of org names.
Founded(r, org) ==
  /\ r.op \in {"project.update", "project.archive", "issue.create"} \cup MemberOps =>
       r.id \in DOMAIN project /\ project[r.id].org = org
  /\ r.op = "member.add" => UserFound(org, r.to)
  /\ r.op = "user.update" => r.id \in DOMAIN user
  /\ r.op \in IssueChanges => r.id \in DOMAIN issue /\ issue[r.id].org = org
  /\ r.op \in {"issue.create", "issue.assign"} => AssigneeFits(r, org)
  /\ r.op = "issue.transition" => r.word \in Statuses
WritersFounded ==
  \A c \in Clients : handler[c].pc = "write" => Founded(handler[c].req, OrgOf(handler[c].req))

TypeInv == TablesOK /\ HandlersOK /\ PagerOK /\ sent \in 0..MaxRequests /\ Seeded /\ WritersFounded

\* No step removes a row or moves it to another org or project, and what was
\* deleted or archived stays so.
RowsKept ==
  /\ Len(user) <= Len(user') /\ \A u \in 1..Len(user) : user'[u].org = user[u].org
  /\ Len(project) <= Len(project')
  /\ \A p \in 1..Len(project) : /\ project'[p].org = project[p].org
                                /\ project[p].archived => project'[p].archived
  /\ Len(issue) <= Len(issue')
  /\ \A i \in 1..Len(issue) : /\ issue'[i].org = issue[i].org
                              /\ issue'[i].project = issue[i].project
                              /\ issue[i].deleted => issue'[i].deleted

LEMMA RequestType ==
  ASSUME NEW r \in Requests
  PROVE  /\ r.op \in Ops /\ r.by \in Nat /\ r.id \in Nat /\ r.to \in Nat /\ r.word \in STRING
         /\ r.key \in STRING /\ r.by \in 1..Len(SeedUsers)
         /\ r.op = "user.update" => r.word \in Roles
<1>1. Requests \subseteq Request /\ SeedUsers \in Seq(UserRow) /\ r.by \in DOMAIN SeedUsers
  BY TrackerAssumption
<1>2. r.op = "user.update" => r.word \in Roles
  BY TrackerAssumption
<1>3. QED
  BY <1>1, <1>2 DEF Request

\* The org of a request's user.
LEMMA OrgType ==
  ASSUME TablesOK, Seeded, NEW r \in Requests
  PROVE  r.by \in 1..Len(user) /\ OrgOf(r) \in Orgs
<1>1. SeedUsers \in Seq(UserRow)
  BY TrackerAssumption
<1>2. r.by \in 1..Len(user)
  BY <1>1, RequestType DEF TablesOK, Seeded
<1>3. user[r.by] \in UserRow
  BY <1>2 DEF TablesOK
<1>4. QED
  BY <1>2, <1>3 DEF UserRow, OrgOf

LEMMA NoRequestApart == NoRequest \notin Requests
<1>1. NoRequest.op \notin Ops
  BY DEF NoRequest, Ops, ProjectOps, MemberOps, UserOps, IssueOps
<1>2. QED
  BY <1>1, RequestType

(* ---- One change of a row ------------------------------------------------ *)

\* A row is appended.
LEMMA AppendRow ==
  ASSUME NEW S, NEW s \in Seq(S), NEW e \in S, NEW t, t = Append(s, e)
  PROVE  /\ t \in Seq(S) /\ Len(t) = Len(s) + 1 /\ t[Len(s) + 1] = e
         /\ \A i \in 1..Len(s) : t[i] = s[i]
         /\ DOMAIN s = 1..Len(s) /\ DOMAIN t = 1..(Len(s) + 1)
  BY AppendProperties

\* A row is changed.
LEMMA ExceptRow ==
  ASSUME NEW S, NEW s \in Seq(S), NEW k \in 1..Len(s), NEW e \in S, NEW t, t = [s EXCEPT ![k] = e]
  PROVE  /\ t \in Seq(S) /\ Len(t) = Len(s) /\ t[k] = e
         /\ \A i \in 1..Len(s) : i # k => t[i] = s[i]
         /\ DOMAIN s = 1..Len(s) /\ DOMAIN t = 1..Len(s)
  BY ExceptSeq

\* The row of an issue that a request has changed.
LEMMA TouchedRow ==
  ASSUME NEW row \in IssueRow, NEW r \in Requests, NEW seen \in Seen,
         r.op = "issue.transition" => r.word \in Statuses,
         NEW new, new = Touched(row, r, seen)
  PROVE  /\ new \in IssueRow
         /\ new.org = row.org /\ new.project = row.project /\ new.version = seen.version + 1
         /\ new.deleted <=> row.deleted \/ r.op = "issue.delete"
         /\ new.assignee = IF r.op = "issue.assign" /\ r.to # seen.assignee THEN r.to
                           ELSE row.assignee
<1>1. r.to \in Nat /\ seen.version \in Nat
  BY RequestType DEF Seen
<1>2. /\ row = [org |-> row.org, project |-> row.project, assignee |-> row.assignee,
                status |-> row.status, version |-> row.version, deleted |-> row.deleted]
      /\ row.org \in Orgs /\ row.project \in Nat /\ row.assignee \in Nat
      /\ row.status \in Statuses /\ row.version \in Nat /\ row.deleted \in BOOLEAN
  BY DEF IssueRow
<1>3. new = [org |-> row.org, project |-> row.project,
             assignee |-> IF r.op = "issue.assign" /\ r.to # seen.assignee THEN r.to
                          ELSE row.assignee,
             status |-> IF r.op = "issue.transition" THEN r.word ELSE row.status,
             version |-> seen.version + 1,
             deleted |-> row.deleted \/ r.op = "issue.delete"]
  BY <1>2 DEF Touched
<1>4. new \in IssueRow
  <2>1. (row.deleted \/ r.op = "issue.delete") \in BOOLEAN
    OBVIOUS
  <2>2. QED
    BY <1>1, <1>2, <1>3, <2>1 DEF IssueRow
<1>5. new.deleted = (row.deleted \/ r.op = "issue.delete")
  BY <1>3
<1>6. /\ new.org = row.org /\ new.project = row.project /\ new.version = seen.version + 1
      /\ new.assignee = IF r.op = "issue.assign" /\ r.to # seen.assignee THEN r.to
                        ELSE row.assignee
  BY <1>3
<1>7. QED
  BY <1>4, <1>5, <1>6

\* What a request's transaction does to the tables with ids.
LEMMA ChangeEffect ==
  ASSUME TablesOK, NEW r \in Requests, NEW org \in Orgs, NEW seen \in Seen, Founded(r, org),
         Change(r, org, seen)
  PROVE  /\ user' \in Seq(UserRow) /\ project' \in Seq(ProjectRow) /\ issue' \in Seq(IssueRow)
         /\ member' \subseteq Nat \X Nat
         /\ RowsKept
<1> USE DEF TablesOK
<1>0. r.op \in Ops /\ r.by \in Nat /\ r.id \in Nat /\ r.to \in Nat /\ r.word \in STRING
      /\ (r.op = "user.update" => r.word \in Roles)
  BY RequestType
<1>1. CASE r.op = "project.create" /\ CreateProject(r, org)
  <2>1. [org |-> org, key |-> r.word, archived |-> FALSE] \in ProjectRow
    BY <1>0 DEF ProjectRow
  <2>2. QED
    BY <1>0, <1>1, <2>1, AppendRow DEF CreateProject, RowsKept
<1>2. CASE r.op = "project.update" /\ UpdateProject(r)
  BY <1>2 DEF UpdateProject, RowsKept
<1>3. CASE r.op = "project.archive" /\ ArchiveProject(r)
  <2> DEFINE row == [project[r.id] EXCEPT !.archived = TRUE]
  <2>1. r.id \in 1..Len(project)
    BY <1>3 DEF Founded
  <2>2. row \in ProjectRow /\ row.org = project[r.id].org /\ row.archived
    <3>1. project[r.id] \in ProjectRow
      BY <2>1
    <3>2. QED
      BY <3>1 DEF ProjectRow
  <2>3. project' = [project EXCEPT ![r.id] = row] /\ UNCHANGED <<user, issue, member>>
    BY <1>3 DEF ArchiveProject
  <2> HIDE DEF row
  <2>4. QED
    BY <2>1, <2>2, <2>3, ExceptRow DEF RowsKept
<1>4. CASE r.op = "member.add" /\ AddMember(r)
  BY <1>0, <1>4 DEF AddMember, RowsKept
<1>5. CASE r.op = "user.create" /\ CreateUser(r, org)
  <2>1. [org |-> org, email |-> r.word, role |-> "member"] \in UserRow
    BY <1>0 DEF UserRow, Roles
  <2>2. QED
    BY <1>0, <1>5, <2>1, AppendRow DEF CreateUser, RowsKept
<1>6. CASE r.op = "user.update" /\ UpdateUser(r, seen)
  <2> DEFINE row == [user[r.id] EXCEPT !.role = r.word]
  <2>1. r.id \in 1..Len(user)
    BY <1>6 DEF Founded
  <2>2. row \in UserRow /\ row.org = user[r.id].org
    <3>1. user[r.id] \in UserRow
      BY <2>1
    <3>2. QED
      BY <1>0, <1>6, <3>1 DEF UserRow
  <2>3. user' = user \/ user' = [user EXCEPT ![r.id] = row]
    BY <1>6 DEF UpdateUser
  <2>4. UNCHANGED <<project, issue, member>>
    BY <1>6 DEF UpdateUser
  <2> HIDE DEF row
  <2>5. QED
    BY <2>1, <2>2, <2>3, <2>4, ExceptRow DEF RowsKept
<1>7. CASE r.op = "issue.create" /\ CreateIssue(r, org)
  <2>1. [org |-> org, project |-> r.id, assignee |-> r.to, status |-> "open", version |-> 1,
         deleted |-> FALSE] \in IssueRow
    BY <1>0 DEF IssueRow, Statuses
  <2>2. QED
    BY <1>0, <1>7, <2>1, AppendRow DEF CreateIssue, RowsKept
<1>8. CASE r.op \in IssueChanges /\ ChangeIssue(r, seen)
  <2> DEFINE row == Touched(issue[r.id], r, seen)
  <2>1. r.id \in 1..Len(issue)
    BY <1>8 DEF Founded
  <2>2. r.op = "issue.transition" => r.word \in Statuses
    BY <1>8 DEF Founded
  <2>3. issue[r.id] \in IssueRow
    BY <2>1
  <2>4. row \in IssueRow /\ row.org = issue[r.id].org /\ row.project = issue[r.id].project
        /\ (issue[r.id].deleted => row.deleted)
    BY <2>2, <2>3, TouchedRow
  <2>5. issue' = [issue EXCEPT ![r.id] = row] /\ UNCHANGED <<user, project, member>>
    BY <1>8 DEF ChangeIssue
  <2> HIDE DEF row
  <2>6. QED
    BY <2>1, <2>4, <2>5, ExceptRow DEF RowsKept
<1>9. CASE r.op = "member.remove" /\ RemoveMember(r)
  BY <1>0, <1>9 DEF RemoveMember, RowsKept
<1>10. QED
  BY <1>1, <1>2, <1>3, <1>4, <1>5, <1>6, <1>7, <1>8, <1>9, Zenon DEF Change

(* ---- Types -------------------------------------------------------------- *)

\* What was found stays as it was found.
LEMMA FoundedKept ==
  ASSUME TablesOK, TablesOK', Seeded, RowsKept, NEW r \in Requests, Founded(r, OrgOf(r))
  PROVE  OrgOf(r)' = OrgOf(r) /\ Founded(r, OrgOf(r))'
<1>1. r.by \in 1..Len(user)
  BY OrgType
<1>2. OrgOf(r)' = OrgOf(r)
  BY <1>1 DEF OrgOf, RowsKept
<1>3. /\ DOMAIN user = 1..Len(user) /\ DOMAIN user' = 1..Len(user')
      /\ DOMAIN project = 1..Len(project) /\ DOMAIN project' = 1..Len(project')
      /\ DOMAIN issue = 1..Len(issue) /\ DOMAIN issue' = 1..Len(issue')
      /\ Len(user) \in Nat /\ Len(user') \in Nat /\ Len(project) \in Nat /\ Len(project') \in Nat
      /\ Len(issue) \in Nat /\ Len(issue') \in Nat
  BY DEF TablesOK
<1>4. ASSUME NEW u, UserFound(OrgOf(r), u)
      PROVE  UserFound(OrgOf(r), u)'
  BY <1>2, <1>3, <1>4 DEF UserFound, RowsKept
<1>5. AssigneeFits(r, OrgOf(r)) => AssigneeFits(r, OrgOf(r))'
  BY <1>4 DEF AssigneeFits
<1>6. \A p \in DOMAIN project : p \in DOMAIN project' /\ project'[p].org = project[p].org
  BY <1>3 DEF RowsKept
<1>7. \A i \in DOMAIN issue : i \in DOMAIN issue' /\ issue'[i].org = issue[i].org
  BY <1>3 DEF RowsKept
<1>8. \A u \in DOMAIN user : u \in DOMAIN user'
  BY <1>3 DEF RowsKept
<1>9. QED
  BY <1>2, <1>4, <1>5, <1>6, <1>7, <1>8 DEF Founded

LEMMA RowsKeptSame ==
  ASSUME TablesOK, UNCHANGED <<user, project, issue>>
  PROVE  RowsKept
  BY DEF TablesOK, RowsKept

\* A change of one handler that is not about to write, or founded.
LEMMA HandlerStep ==
  ASSUME HandlersOK, NEW c \in Clients, NEW h \in Handler, handler' = [handler EXCEPT ![c] = h],
         h.req \in Requests, TablesOK, Seeded, WritersFounded,
         TablesOK', RowsKept, h.pc = "write" => Founded(h.req, OrgOf(h.req))
  PROVE  HandlersOK' /\ WritersFounded'
<1>1. handler' \in [Clients -> Handler] /\ handler'[c] = h
      /\ \A d \in Clients : d # c => handler'[d] = handler[d]
  BY DEF HandlersOK
<1>2. \A d \in Clients : handler'[d].pc # "free" => handler'[d].req \in Requests
  BY <1>1 DEF HandlersOK
<1>3. ASSUME NEW d \in Clients, handler'[d].pc = "write"
      PROVE  Founded(handler[d].req, OrgOf(handler[d].req))'
  <2>1. PICK r \in Requests : r = handler'[d].req /\ Founded(r, OrgOf(r))
    BY <1>1, <1>3 DEF HandlersOK, WritersFounded
  <2>2. Founded(r, OrgOf(r))'
    BY <2>1, FoundedKept
  <2>3. QED
    BY <2>1, <2>2 DEF Founded, OrgOf, AssigneeFits, UserFound
<1>4. QED
  BY <1>1, <1>2, <1>3 DEF HandlersOK, WritersFounded

LEMMA ReplyStep ==
  ASSUME HandlersOK, NEW c \in Clients, handler[c].pc # "free", NEW status \in Nat, NEW id \in Nat,
         Reply(c, status, id), TablesOK, Seeded, WritersFounded, TablesOK', RowsKept
  PROVE  HandlersOK' /\ WritersFounded'
<1> DEFINE h == [handler[c] EXCEPT !.pc = "done", !.status = status, !.id = id]
<1>1. handler[c] \in Handler /\ handler[c].req \in Requests
  BY DEF HandlersOK
<1>2. h \in Handler /\ h.pc = "done" /\ h.req = handler[c].req
  BY <1>1 DEF Handler, Places
<1>3. handler' = [handler EXCEPT ![c] = h]
  BY <1>1 DEF Reply, HandlersOK
<1> HIDE DEF h
<1>4. QED
  BY <1>1, <1>2, <1>3, HandlerStep

LEMMA GotoStep ==
  ASSUME HandlersOK, NEW c \in Clients, handler[c].pc # "free", NEW place \in {"key", "find"},
         Goto(c, place), TablesOK, Seeded, WritersFounded, TablesOK', RowsKept
  PROVE  HandlersOK' /\ WritersFounded'
<1> DEFINE h == [handler[c] EXCEPT !.pc = place]
<1>1. handler[c] \in Handler /\ handler[c].req \in Requests
  BY DEF HandlersOK
<1>2. h \in Handler /\ h.pc # "write" /\ h.req = handler[c].req
  BY <1>1 DEF Handler, Places
<1>3. handler' = [handler EXCEPT ![c] = h]
  BY <1>1 DEF Goto, HandlersOK
<1> HIDE DEF h
<1>4. QED
  BY <1>1, <1>2, <1>3, HandlerStep

(* ---- Pages -------------------------------------------------------------- *)

\* The largest of some bounded natural numbers.
LEMMA SetMax ==
  ASSUME NEW S \in SUBSET Nat, S # {}, NEW n \in Nat, \A s \in S : s <= n
  PROVE  Max(S) \in S /\ \A s \in S : s <= Max(S)
<1> DEFINE T == {u \in Nat : \A s \in S : s <= u}
<1>1. T \in SUBSET Nat /\ n \in T
  OBVIOUS
<1>2. PICK u \in T : \A k \in T : u <= k
  <2> HIDE DEF T
  <2>1. QED
    BY <1>1, NatSetMin
<1>3. u \in S
  <2>1. SUFFICES ASSUME u \notin S
                 PROVE  FALSE
    OBVIOUS
  <2>2. \A s \in S : s < u
    BY <1>2, <2>1
  <2>3. u \in Nat /\ u # 0 /\ \A s \in S : s \in Nat /\ s <= u - 1
    <3>1. u \in Nat
      BY <1>2
    <3>2. \A s \in S : s \in Nat /\ s < u
      BY <2>2
    <3>3. PICK s \in S : TRUE
      OBVIOUS
    <3>4. u # 0
      BY <3>1, <3>2, <3>3
    <3>5. QED
      BY <3>1, <3>2, <3>4
  <2>5. u - 1 \in T
    BY <2>3
  <2>4. QED
    BY <1>2, <2>3, <2>5
<1>4. \E x \in S : \A y \in S : x >= y
  BY <1>2, <1>3
<1>5. QED
  BY <1>4 DEF Max

\* The lowest n elements of a finite set.
LEMMA LowestFacts ==
  ASSUME NEW S \in SUBSET Nat, IsFiniteSet(S), NEW n \in Nat
  PROVE  /\ Lowest(S, n) \subseteq S /\ IsFiniteSet(Lowest(S, n))
         /\ \A i \in Lowest(S, n), j \in S : j < i => j \in Lowest(S, n)
         /\ Cardinality(Lowest(S, n)) < n => Lowest(S, n) = S
         /\ Cardinality(S) <= n => Lowest(S, n) = S
         /\ n > 0 /\ S # {} => Lowest(S, n) # {}
<1> DEFINE Below(i) == {j \in S : j < i}
           low == Lowest(S, n)
<1>0. \A j \in S : j \in Nat
  OBVIOUS
<1>1. \A i : i \in low <=> i \in S /\ Cardinality(Below(i)) < n
  BY DEF Lowest
<1>2. \A i : Below(i) \in SUBSET S
  OBVIOUS
<1>3. \A i : IsFiniteSet(Below(i)) /\ Cardinality(Below(i)) \in Nat
  BY <1>2, FS_Subset, FS_CardinalityType
<1>4. low \in SUBSET S
  BY <1>1
<1>5. IsFiniteSet(low) /\ Cardinality(low) \in Nat
  BY <1>4, FS_Subset, FS_CardinalityType
<1>6. ASSUME NEW i \in low, NEW j \in S, j < i
      PROVE  j \in low
  <2>0. i \in S /\ i \in Nat /\ j \in Nat
    BY <1>0, <1>1
  <2>1. Below(j) \in SUBSET Below(i)
    <3>1. \A k \in Below(j) : k \in S /\ k < i
      BY <1>0, <1>6, <2>0
    <3>2. QED
      BY <3>1
  <2>2. Cardinality(Below(j)) <= Cardinality(Below(i))
    BY <1>3, <2>1, FS_Subset
  <2>3. QED
    <3>1. Cardinality(Below(i)) < n
      BY <1>1
    <3>2. Cardinality(Below(j)) < n
      <4> HIDE DEF Below
      <4>1. QED
        BY <1>3, <2>2, <3>1
    <3>3. QED
      BY <1>1, <3>2
<1>7. ASSUME Cardinality(low) < n
      PROVE  low = S
  <2>1. SUFFICES ASSUME S \ low # {}
                 PROVE  FALSE
    BY <1>4
  <2>2. PICK i \in S \ low : \A k \in S \ low : i <= k
    BY <2>1, NatSetMin
  <2>3. Below(i) \in SUBSET low
    <3>1. ASSUME NEW k \in Below(i)
          PROVE  k \in low
      <4>1. k \in S /\ k < i /\ k \in Nat /\ i \in Nat
        BY <1>0, <2>2
      <4>2. ~(i <= k)
        BY <4>1
      <4>3. QED
        BY <2>2, <4>1, <4>2
    <3>2. QED
      BY <3>1
  <2>4. Cardinality(Below(i)) <= Cardinality(low)
    BY <1>5, <2>3, FS_Subset
  <2>5. ~(Cardinality(Below(i)) < n)
    BY <1>1, <2>2
  <2>6. QED
    <3> HIDE DEF Below, low
    <3>1. QED
      BY <1>3, <1>5, <1>7, <2>4, <2>5
<1>8. ASSUME Cardinality(S) <= n
      PROVE  low = S
  <2>1. ASSUME NEW i \in S
        PROVE  Cardinality(Below(i)) < n
    <3>1. Below(i) # S
      BY <2>1
    <3>2. Cardinality(Below(i)) <= Cardinality(S) /\ Cardinality(Below(i)) # Cardinality(S)
      BY <1>2, <3>1, FS_Subset
    <3>3. Cardinality(S) \in Nat
      BY FS_CardinalityType
    <3>4. QED
      BY <1>3, <1>8, <3>2, <3>3
  <2>2. QED
    BY <1>1, <2>1
<1>9. ASSUME n > 0, S # {}
      PROVE  low # {}
  <2>1. PICK m \in S : \A k \in S : m <= k
    BY <1>9, NatSetMin
  <2>2. Below(m) = {}
    <3>1. ASSUME NEW k \in Below(m)
          PROVE  FALSE
      <4>1. k \in S /\ k < m /\ k \in Nat /\ m \in Nat /\ m <= k
        BY <1>0, <2>1
      <4>2. QED
        BY <4>1
    <3>2. QED
      BY <3>1
  <2>3. Cardinality(Below(m)) = 0
    BY <2>2, FS_EmptySet
  <2>4. QED
    BY <1>1, <1>9, <2>3
<1>10. QED
  BY <1>4, <1>5, <1>6, <1>7, <1>8, <1>9

\* The rest of the list, what is fetched of it, the page's items, the cursor.
Rest == {i \in Listed : i > pager.after}
Fetched == Lowest(Rest, PageLimit + 1)
Items == Lowest(Fetched, PageLimit)

LEMMA ListedType ==
  ASSUME TablesOK
  PROVE  /\ Listed \subseteq 1..Len(issue) /\ Listed \subseteq Ids /\ IsFiniteSet(Listed)
         /\ Len(issue) \in Nat
<1>1. Len(issue) \in Nat /\ DOMAIN issue = 1..Len(issue)
  BY DEF TablesOK
<1>2. Listed \in SUBSET (1..Len(issue))
  BY <1>1 DEF Listed
<1>3. IsFiniteSet(1..Len(issue))
  BY <1>1, FS_Interval
<1>4. IsFiniteSet(Listed)
  BY <1>2, <1>3, FS_Subset
<1>5. \A i \in Listed : i \in Ids
  BY <1>1, <1>2 DEF Ids
<1>6. QED
  BY <1>1, <1>2, <1>4, <1>5

\* A page takes what comes next: all the rest, or the rest up to the cursor.
LEMMA PageFacts ==
  ASSUME TablesOK, PagerOK
  PROVE  /\ Items \subseteq Rest /\ IsFiniteSet(Items) /\ Cardinality(Items) \in Nat
         /\ NextAfter(Fetched) \in Nat
         /\ NextAfter(Fetched) = 0 => Items = Rest
         /\ NextAfter(Fetched) # 0 =>
              /\ NextAfter(Fetched) \in Items
              /\ \A i \in Items : i <= NextAfter(Fetched)
              /\ \A i \in Rest : i <= NextAfter(Fetched) => i \in Items
<1>1. PageLimit \in Nat /\ PageLimit > 0 /\ PageLimit + 1 \in Nat
  BY TrackerAssumption
<1>2. pager.after \in Nat
  BY DEF PagerOK
<1>3. Rest \in SUBSET Listed
  BY DEF Rest
<1>4. Rest \in SUBSET Nat /\ IsFiniteSet(Rest) /\ \A i \in Rest : i <= Len(issue) /\ i # 0
  <2>1. IsFiniteSet(Rest)
    BY <1>3, ListedType, FS_Subset
  <2>2. \A i \in Rest : i \in 1..Len(issue)
    BY <1>3, ListedType
  <2>3. QED
    BY <2>1, <2>2, ListedType
<1>5. Fetched \subseteq Rest /\ IsFiniteSet(Fetched) /\ Cardinality(Fetched) \in Nat
      /\ Fetched \in SUBSET Nat
  BY <1>1, <1>4, LowestFacts, FS_CardinalityType DEF Fetched
<1>6. \A i \in Fetched, j \in Rest : j < i => j \in Fetched
  BY <1>1, <1>4, LowestFacts DEF Fetched
<1>7. Cardinality(Fetched) < PageLimit + 1 => Fetched = Rest
  BY <1>1, <1>4, LowestFacts DEF Fetched
<1>8. Items \subseteq Fetched /\ IsFiniteSet(Items) /\ Cardinality(Items) \in Nat
  BY <1>1, <1>5, LowestFacts, FS_CardinalityType DEF Items
<1>9. \A i \in Items, j \in Fetched : j < i => j \in Items
  BY <1>1, <1>5, LowestFacts DEF Items
<1>10. Cardinality(Fetched) <= PageLimit => Items = Fetched
  BY <1>1, <1>5, LowestFacts DEF Items
<1>11. CASE Cardinality(Fetched) <= PageLimit
  <2>1. NextAfter(Fetched) = 0
    BY <1>1, <1>5, <1>11 DEF NextAfter
  <2>2. Items = Rest
    BY <1>1, <1>5, <1>7, <1>10, <1>11
  <2>3. QED
    BY <1>8, <2>1, <2>2
<1>12. CASE Cardinality(Fetched) > PageLimit
  <2>1. NextAfter(Fetched) = Max(Items)
    BY <1>12 DEF NextAfter, Items
  <2>2. Fetched # {}
    BY <1>1, <1>12, FS_EmptySet
  <2>3. Items # {}
    BY <1>1, <1>5, <2>2, LowestFacts DEF Items
  <2>4. Max(Items) \in Items /\ \A i \in Items : i <= Max(Items)
    BY <1>4, <1>5, <1>8, <2>3, SetMax, ListedType
  <2>5. ASSUME NEW i \in Rest, i <= Max(Items)
        PROVE  i \in Items
    <3>1. CASE i = Max(Items)
      BY <2>4, <3>1
    <3>2. CASE i < Max(Items)
      BY <1>6, <1>8, <1>9, <2>4, <3>2
    <3>3. i \in Nat /\ Max(Items) \in Nat
      BY <1>4, <1>5, <1>8, <2>4
    <3>4. QED
      BY <2>5, <3>1, <3>2, <3>3
  <2>6. Max(Items) \in Nat /\ Max(Items) # 0
    BY <1>4, <1>5, <1>8, <2>4
  <2>7. QED
    BY <1>5, <1>8, <2>1, <2>4, <2>5, <2>6
<1>13. QED
  BY <1>1, <1>5, <1>11, <1>12

LEMMA ReadPageUnfold ==
  ASSUME ReadPage
  PROVE  /\ pager.pc \in {"free", "paging"}
         /\ UNCHANGED <<tables, handler, sent>>
         /\ \/ pager' = [pager EXCEPT !.pc = "refused"]
            \/ pager' = [pc |-> IF NextAfter(Fetched) = 0 THEN "done" ELSE "paging",
                         after |-> NextAfter(Fetched), got |-> pager.got \cup Items,
                         rows |-> pager.rows + Cardinality(Items),
                         owed |-> IF pager.pc = "free" THEN Listed ELSE pager.owed]
  BY DEF ReadPage, Fetched, Items, Rest

(* ---- Every step keeps the types ----------------------------------------- *)

LEMMA InitTypeInv == Init => TypeInv
<1> SUFFICES ASSUME Init
             PROVE  TypeInv
  OBVIOUS
<1> USE TrackerAssumption DEF Init
<1>1. TablesOK
  <2>1. SeedUsers \in Seq(UserRow) /\ SeedProjects \in Seq(ProjectRow)
        /\ SeedMembers \subseteq (DOMAIN SeedProjects) \X (DOMAIN SeedUsers)
    OBVIOUS
  <2>2. DOMAIN SeedProjects \subseteq Nat /\ DOMAIN SeedUsers \subseteq Nat
    BY <2>1
  <2>3. member \subseteq Nat \X Nat
    BY <2>1, <2>2
  <2>4. audit \in Seq(AuditRow) /\ stored \subseteq StoredRow
    OBVIOUS
  <2>5. QED
    BY <2>3, <2>4 DEF TablesOK
<1>2. Free \in Handler
  BY DEF Free, Handler, Places, Seen, Unread, Roles
<1>3. HandlersOK /\ WritersFounded
  BY <1>2 DEF HandlersOK, WritersFounded, Free
<1>4. PagerOK /\ sent \in 0..MaxRequests
  BY DEF PagerOK
<1>5. Seeded
  BY DEF Seeded
<1>6. QED
  BY <1>1, <1>3, <1>4, <1>5 DEF TypeInv

\* The lookups of Find find what the transaction relies on.
LEMMA FindFounds ==
  ASSUME TablesOK, NEW r \in Requests, NEW org, Refusal(r, org) = 0
  PROVE  Founded(r, org)
<1>1. /\ r.op \in Ops
      /\ Ops = ProjectOps \cup MemberOps \cup UserOps \cup IssueOps
      /\ ProjectOps = {"project.create", "project.update", "project.archive"}
      /\ MemberOps = {"member.add", "member.remove"}
      /\ UserOps = {"user.create", "user.update"}
      /\ IssueOps = {"issue.create", "issue.update", "issue.assign", "issue.transition",
                     "issue.delete"}
      /\ IssueChanges = IssueOps \ {"issue.create"}
  BY RequestType DEF Ops, ProjectOps, MemberOps, UserOps, IssueOps, IssueChanges
<1>2. CASE r.op \in ProjectOps
  <2>1. ProjectRefusal(r, org) = 0
    BY <1>1, <1>2 DEF Refusal
  <2>2. r.op # "project.create" => ProjectFound(org, r.id)
    BY <2>1 DEF ProjectRefusal
  <2>3. QED
    BY <1>1, <1>2, <2>2 DEF Founded, ProjectFound
<1>3. CASE r.op \in MemberOps
  <2>1. MemberRefusal(r, org) = 0
    BY <1>1, <1>3 DEF Refusal
  <2>2. ProjectFound(org, r.id) /\ (r.op = "member.add" => UserFound(org, r.to))
    BY <2>1 DEF MemberRefusal
  <2>3. QED
    BY <1>1, <1>3, <2>2 DEF Founded, ProjectFound
<1>4. CASE r.op \in UserOps
  <2>1. UserRefusal(r, org) = 0
    BY <1>1, <1>4 DEF Refusal
  <2>2. r.op = "user.update" => UserFound(org, r.id)
    BY <2>1 DEF UserRefusal
  <2>3. QED
    BY <1>1, <1>4, <2>2 DEF Founded, UserFound
<1>5. CASE r.op \in IssueOps
  <2>1. IssueRefusal(r, org) = 0
    BY <1>1, <1>5 DEF Refusal
  <2>2. /\ r.op = "issue.create" => ProjectFound(org, r.id)
        /\ r.op # "issue.create" => IssueFound(org, r.id)
        /\ r.op \in {"issue.create", "issue.assign"} => AssigneeFits(r, org)
        /\ r.op = "issue.transition" => <<issue[r.id].status, r.word>> \in TRANSITIONS
    BY <2>1 DEF IssueRefusal
  <2>3. r.op = "issue.transition" => r.word \in Statuses
    BY <2>2 DEF TRANSITIONS, Statuses
  <2>4. QED
    BY <1>1, <1>5, <2>2, <2>3 DEF Founded, ProjectFound, IssueFound
<1>6. QED
  BY <1>1, <1>2, <1>3, <1>4, <1>5

\* What Find loads of the row that the transaction changes.
Loaded(r) == IF r.op \in IssueChanges
             THEN [Unread EXCEPT !.version = issue[r.id].version,
                                 !.assignee = issue[r.id].assignee]
             ELSE IF r.op = "user.update" THEN [Unread EXCEPT !.role = user[r.id].role]
             ELSE Unread

LEMMA FindUnfold ==
  ASSUME NEW c \in Clients, Find(c)
  PROVE  /\ handler[c].pc = "find" /\ UNCHANGED <<tables, sent, pager>>
         /\ \/ Reply(c, Refusal(handler[c].req, OrgOf(handler[c].req)), 0)
            \/ /\ Refusal(handler[c].req, OrgOf(handler[c].req)) = 0
               /\ handler' = [handler EXCEPT ![c].pc = "write", ![c].seen = Loaded(handler[c].req)]
  BY DEF Find, Loaded

LEMMA RefusalType ==
  ASSUME NEW r \in Requests, NEW org
  PROVE  Refusal(r, org) \in Nat
<1>1. /\ r.op \in Ops
      /\ Ops = ProjectOps \cup MemberOps \cup UserOps \cup IssueOps
  BY RequestType DEF Ops
<1>2. /\ ProjectRefusal(r, org) \in Nat /\ MemberRefusal(r, org) \in Nat
      /\ UserRefusal(r, org) \in Nat /\ IssueRefusal(r, org) \in Nat
  BY DEF ProjectRefusal, MemberRefusal, UserRefusal, IssueRefusal
<1>3. QED
  BY <1>1, <1>2 DEF Refusal

LEMMA LoadedType ==
  ASSUME TablesOK, NEW r \in Requests, Founded(r, OrgOf(r))
  PROVE  /\ Loaded(r) \in Seen
         /\ r.op \in IssueChanges => Loaded(r).version = issue[r.id].version
<1>1. Unread = [version |-> 0, assignee |-> 0, role |-> "viewer"] /\ "viewer" \in Roles
  BY DEF Unread, Roles
<1>2. CASE r.op \in IssueChanges
  <2>1. issue[r.id] \in IssueRow
    BY <1>2 DEF Founded, TablesOK
  <2>2. issue[r.id].version \in Nat /\ issue[r.id].assignee \in Nat
    BY <2>1 DEF IssueRow
  <2>3. Loaded(r) = [version |-> issue[r.id].version, assignee |-> issue[r.id].assignee,
                     role |-> "viewer"]
    BY <1>1, <1>2 DEF Loaded
  <2>4. QED
    BY <1>1, <2>2, <2>3 DEF Seen
<1>3. CASE r.op \notin IssueChanges /\ r.op = "user.update"
  <2>1. user[r.id] \in UserRow
    BY <1>3 DEF Founded, TablesOK
  <2>2. user[r.id].role \in Roles
    BY <2>1 DEF UserRow
  <2>3. Loaded(r) = [version |-> 0, assignee |-> 0, role |-> user[r.id].role]
    BY <1>1, <1>3 DEF Loaded
  <2>4. QED
    BY <1>3, <2>2, <2>3 DEF Seen
<1>4. CASE r.op \notin IssueChanges /\ r.op # "user.update"
  BY <1>1, <1>4 DEF Loaded, Seen
<1>5. QED
  BY <1>2, <1>3, <1>4

\* The two ends of a transaction: nothing happens, or everything.
Fails(c) ==
  /\ Collides(handler[c].req, OrgOf(handler[c].req))
  /\ Reply(c, 500, 0) /\ UNCHANGED tables
StoredRowOf(r) == [org |-> OrgOf(r), key |-> r.key, op |-> r.op, word |-> r.word, id |-> IdOf(r)]
Commits(c, r) ==
  /\ r = handler[c].req
  /\ ~Collides(r, OrgOf(r))
  /\ Change(r, OrgOf(r), handler[c].seen)
  /\ Record(r, OrgOf(r))
  /\ stored' = IF HasKey(r) THEN stored \cup {StoredRowOf(r)} ELSE stored
  /\ Reply(c, Success(r), IdOf(r))

LEMMA WriteUnfold ==
  ASSUME TypeInv, NEW c \in Clients, Write(c)
  PROVE  /\ handler[c].pc = "write" /\ UNCHANGED <<sent, pager>>
         /\ Fails(c) \/ \E r \in Requests : Commits(c, r)
<1>1. handler[c].pc = "write" /\ UNCHANGED <<sent, pager>>
  BY DEF Write
<1>2. handler[c].req \in Requests
  BY <1>1 DEF TypeInv, HandlersOK
<1>3. Fails(c) \/ Commits(c, handler[c].req)
  BY DEF Write, Fails, Commits, StoredRowOf
<1>4. QED
  BY <1>1, <1>2, <1>3

LEMMA IdOfType ==
  ASSUME TablesOK, NEW r \in Requests
  PROVE  /\ IdOf(r) \in Nat
         /\ HasKey(r) => IdOf(r) \in Ids
         /\ r.op = "project.create" => IdOf(r) = Len(project) + 1
         /\ r.op = "user.create" => IdOf(r) = Len(user) + 1
         /\ r.op = "issue.create" => IdOf(r) = Len(issue) + 1
         /\ r.op \notin {"project.create", "user.create", "issue.create"} => IdOf(r) = r.id
<1>1. r.id \in Nat /\ Len(project) \in Nat /\ Len(user) \in Nat /\ Len(issue) \in Nat
  BY RequestType DEF TablesOK
<1>2. /\ r.op = "project.create" => IdOf(r) = Len(project) + 1
      /\ r.op = "user.create" => IdOf(r) = Len(user) + 1
      /\ r.op = "issue.create" => IdOf(r) = Len(issue) + 1
      /\ r.op \notin {"project.create", "user.create", "issue.create"} => IdOf(r) = r.id
  BY DEF IdOf
<1>3. HasKey(r) => r.op \in {"project.create", "user.create"}
  BY DEF HasKey, Keyed
<1>4. IdOf(r) \in Nat
  BY <1>1, <1>2
<1>5. HasKey(r) => IdOf(r) \in Ids
  BY <1>1, <1>2, <1>3 DEF Ids
<1>6. QED
  BY <1>2, <1>4, <1>5

\* What a transaction of request r does to all the tables.
LEMMA CommitEffect ==
  ASSUME TypeInv, NEW c \in Clients, NEW r \in Requests, handler[c].pc = "write", Commits(c, r)
  PROVE  /\ TablesOK' /\ RowsKept /\ Founded(r, OrgOf(r))
         /\ OrgOf(r) \in Orgs /\ handler[c].seen \in Seen
         /\ audit' = Append(audit, [org |-> OrgOf(r), actor |-> r.by, action |-> r.op,
                                    entity |-> IdOf(r)])
         /\ stored' = IF HasKey(r) THEN stored \cup {StoredRowOf(r)} ELSE stored
<1>1. TablesOK /\ OrgOf(r) \in Orgs /\ handler[c].seen \in Seen /\ Founded(r, OrgOf(r))
  BY OrgType DEF TypeInv, HandlersOK, Handler, WritersFounded, Commits
<1>2. /\ user' \in Seq(UserRow) /\ project' \in Seq(ProjectRow) /\ issue' \in Seq(IssueRow)
      /\ member' \subseteq Nat \X Nat
      /\ RowsKept
  BY <1>1, ChangeEffect DEF Commits
<1>3. audit' = Append(audit, [org |-> OrgOf(r), actor |-> r.by, action |-> r.op,
                              entity |-> IdOf(r)])
  BY DEF Commits, Record
<1>4. audit' \in Seq(AuditRow)
  <2>1. [org |-> OrgOf(r), actor |-> r.by, action |-> r.op, entity |-> IdOf(r)] \in AuditRow
    BY <1>1, RequestType, IdOfType DEF AuditRow
  <2>2. QED
    BY <1>1, <1>3, <2>1, AppendRow DEF TablesOK
<1>5. stored' \subseteq StoredRow
  <2>1. HasKey(r) => StoredRowOf(r) \in StoredRow
    BY <1>1, RequestType, IdOfType DEF StoredRow, StoredRowOf, HasKey
  <2>2. QED
    BY <1>1, <2>1 DEF Commits, TablesOK
<1>6. QED
  BY <1>1, <1>2, <1>3, <1>4, <1>5 DEF TablesOK, Commits

LEMMA StatusType ==
  ASSUME NEW r
  PROVE  Success(r) \in Nat /\ 500 \in Nat /\ 403 \in Nat /\ 409 \in Nat /\ 201 \in Nat
  BY DEF Success

\* Every step keeps the rows that were there, and TypeInv.
LEMMA NextTypeInv ==
  ASSUME TypeInv, [Next]_vars
  PROVE  TypeInv' /\ RowsKept
<1> USE DEF TypeInv
<1>1. ASSUME NEW c \in Clients, NEW r \in Requests, Receive(c, r)
      PROVE  TypeInv' /\ RowsKept
  <2> DEFINE h == [Free EXCEPT !.pc = "auth", !.req = r]
  <2>1. TablesOK' /\ PagerOK' /\ Seeded' /\ RowsKept
    BY <1>1, RowsKeptSame DEF Receive, tables, TablesOK, PagerOK, Seeded
  <2>2. h \in Handler /\ h.req = r /\ h.pc = "auth"
    BY DEF Free, Handler, Places, Seen, Unread, Roles
  <2>3. handler' = [handler EXCEPT ![c] = h]
    BY <1>1 DEF Receive
  <2>4. sent' \in 0..MaxRequests
    BY <1>1, TrackerAssumption DEF Receive
  <2> HIDE DEF h
  <2>5. HandlersOK' /\ WritersFounded'
    BY <2>1, <2>2, <2>3, HandlerStep
  <2>6. QED
    BY <2>1, <2>4, <2>5
<1>2. ASSUME NEW c \in Clients, Authorize(c)
      PROVE  TypeInv' /\ RowsKept
  <2>1. TablesOK' /\ PagerOK' /\ Seeded' /\ RowsKept /\ sent' \in 0..MaxRequests
    BY <1>2, RowsKeptSame DEF Authorize, tables, TablesOK, PagerOK, Seeded
  <2>2. handler[c].pc = "auth"
        /\ (Reply(c, 403, 0) \/ Goto(c, "key") \/ Goto(c, "find"))
    BY <1>2 DEF Authorize
  <2>3. HandlersOK' /\ WritersFounded'
    BY <2>1, <2>2, ReplyStep, GotoStep
  <2>4. QED
    BY <2>1, <2>3
<1>3. ASSUME NEW c \in Clients, LookUpKey(c)
      PROVE  TypeInv' /\ RowsKept
  <2>1. TablesOK' /\ PagerOK' /\ Seeded' /\ RowsKept /\ sent' \in 0..MaxRequests
    BY <1>3, RowsKeptSame DEF LookUpKey, tables, TablesOK, PagerOK, Seeded
  <2>2. handler[c].pc = "key"
        /\ (Goto(c, "find") \/ Reply(c, 409, 0) \/ \E k \in stored : Reply(c, 201, k.id))
    BY <1>3 DEF LookUpKey, Kept
  <2>3. \A k \in stored : k.id \in Nat
    BY DEF TablesOK, StoredRow, Ids
  <2>4. CASE \E k \in stored : Reply(c, 201, k.id)
    <3>1. PICK id \in Nat : Reply(c, 201, id)
      BY <2>3, <2>4
    <3>2. HandlersOK' /\ WritersFounded'
      BY <2>1, <2>2, <3>1, ReplyStep
    <3>3. QED
      BY <2>1, <3>2
  <2>5. CASE Goto(c, "find") \/ Reply(c, 409, 0)
    <3>1. HandlersOK' /\ WritersFounded'
      BY <2>1, <2>2, <2>5, ReplyStep, GotoStep
    <3>2. QED
      BY <2>1, <3>1
  <2>6. QED
    BY <2>2, <2>4, <2>5
<1>4. ASSUME NEW c \in Clients, Find(c)
      PROVE  TypeInv' /\ RowsKept
  <2>1. TablesOK' /\ PagerOK' /\ Seeded' /\ RowsKept /\ sent' \in 0..MaxRequests
    BY <1>4, RowsKeptSame DEF Find, tables, TablesOK, PagerOK, Seeded
  <2>2. handler[c].pc = "find" /\ handler[c] \in Handler /\ handler[c].req \in Requests
    BY <1>4 DEF Find, HandlersOK
  <2>3. PICK r \in Requests : r = handler[c].req
    BY <2>2
  <2>4. CASE Reply(c, Refusal(r, OrgOf(r)), 0)
    <3>1. Refusal(r, OrgOf(r)) \in Nat
      BY RefusalType
    <3>2. QED
      BY <2>1, <2>2, <2>4, <3>1, ReplyStep
  <2>5. CASE /\ Refusal(r, OrgOf(r)) = 0
             /\ handler' = [handler EXCEPT ![c].pc = "write", ![c].seen = Loaded(r)]
    <3> DEFINE h == [handler[c] EXCEPT !.pc = "write", !.seen = Loaded(r)]
    <3>1. Founded(r, OrgOf(r))
      BY <2>5, FindFounds
    <3>2. Loaded(r) \in Seen
      BY <3>1, LoadedType
    <3>3. h \in Handler /\ h.req = r
      BY <2>2, <2>3, <3>2 DEF Handler, Places
    <3>4. handler' = [handler EXCEPT ![c] = h]
      BY <2>2, <2>5 DEF HandlersOK
    <3> HIDE DEF h
    <3>5. HandlersOK' /\ WritersFounded'
      BY <2>1, <3>1, <3>3, <3>4, HandlerStep
    <3>6. QED
      BY <2>1, <3>5
  <2>6. QED
    BY <1>4, <2>3, <2>4, <2>5, FindUnfold
<1>5. ASSUME NEW c \in Clients, Write(c)
      PROVE  TypeInv' /\ RowsKept
  <2>1. handler[c].pc = "write" /\ PagerOK' /\ sent' \in 0..MaxRequests
    BY <1>5 DEF Write, PagerOK
  <2>2. CASE Fails(c)
    <3>1. TablesOK' /\ Seeded' /\ RowsKept
      BY <2>2, RowsKeptSame DEF Fails, tables, TablesOK, Seeded
    <3>2. QED
      BY <2>1, <2>2, <3>1, ReplyStep, StatusType DEF Fails
  <2>3. ASSUME NEW r \in Requests, Commits(c, r)
        PROVE  TypeInv' /\ RowsKept
    <3>1. TablesOK' /\ RowsKept
      BY <2>1, <2>3, CommitEffect
    <3>2. Seeded'
      <4>1. SeedUsers \in Seq(UserRow) /\ Len(SeedUsers) \in Nat
        BY TrackerAssumption
      <4>2. Len(user) \in Nat /\ Len(user') \in Nat
        BY <3>1 DEF TablesOK
      <4>3. QED
        BY <3>1, <4>1, <4>2 DEF Seeded, RowsKept
    <3>3. Reply(c, Success(r), IdOf(r)) /\ Success(r) \in Nat /\ IdOf(r) \in Nat
      BY <2>3, StatusType, IdOfType DEF Commits
    <3>4. HandlersOK' /\ WritersFounded'
      BY <2>1, <3>1, <3>3, ReplyStep
    <3>5. QED
      BY <2>1, <3>1, <3>2, <3>4
  <2>4. QED
    BY <1>5, <2>2, <2>3, WriteUnfold
<1>6. ASSUME ReadPage
      PROVE  TypeInv' /\ RowsKept
  <2>1. TablesOK' /\ Seeded' /\ RowsKept /\ sent' \in 0..MaxRequests
    BY <1>6, RowsKeptSame DEF ReadPage, tables, TablesOK, Seeded
  <2>2. HandlersOK' /\ WritersFounded'
    BY <1>6, <2>1 DEF ReadPage, tables, HandlersOK, WritersFounded, Founded, OrgOf, AssigneeFits,
       UserFound
  <2>3. /\ Items \subseteq Ids /\ Cardinality(Items) \in Nat /\ NextAfter(Fetched) \in Nat
        /\ Listed \subseteq Ids
    BY PageFacts, ListedType DEF Rest
  <2>4. PagerOK'
    BY <1>6, <2>3, ReadPageUnfold DEF PagerOK
  <2>5. QED
    BY <2>1, <2>2, <2>4
<1>7. ASSUME UNCHANGED vars
      PROVE  TypeInv' /\ RowsKept
  <2>1. RowsKept
    BY <1>7, RowsKeptSame DEF vars, tables
  <2>2. TablesOK' /\ HandlersOK' /\ PagerOK' /\ Seeded' /\ sent' \in 0..MaxRequests
    BY <1>7 DEF vars, tables, TablesOK, HandlersOK, PagerOK, Seeded
  <2>3. WritersFounded'
    BY <1>7 DEF vars, tables, WritersFounded, Founded, OrgOf, AssigneeFits, UserFound
  <2>4. QED
    BY <2>1, <2>2, <2>3
<1>8. QED
  BY <1>1, <1>2, <1>3, <1>4, <1>5, <1>6, <1>7 DEF Next

LEMMA TypeInvTypes ==
  ASSUME TypeInv
  PROVE  TypeOK
  BY DEF TypeInv, TypeOK, TablesOK, HandlersOK, PagerOK, Handler, Seen, StoredRow

\* Every variable has its type, whatever rows, requests and handlers there are.
THEOREM TypeCorrect == Spec => []TypeOK
<1>1. TypeInv /\ [Next]_vars => TypeInv'
  BY NextTypeInv
<1>2. QED
  BY <1>1, InitTypeInv, TypeInvTypes, PTL DEF Spec

(* ---- The rows of orgs stay apart ---------------------------------------- *)

LEMMA InitApart == Init => TenantsApart
<1> SUFFICES ASSUME Init
             PROVE  TenantsApart
  OBVIOUS
<1> USE TrackerAssumption DEF Init
<1>1. \A i \in DOMAIN issue :
        /\ issue[i].project \in DOMAIN project /\ project[issue[i].project].org = issue[i].org
        /\ issue[i].assignee # 0 => UserFound(issue[i].org, issue[i].assignee)
  BY DEF UserFound
<1>2. \A m \in member : /\ m[1] \in DOMAIN project /\ m[2] \in DOMAIN user
                        /\ project[m[1]].org = user[m[2]].org
  OBVIOUS
<1>3. audit = <<>> /\ stored = {}
  OBVIOUS
<1>4. QED
  BY <1>1, <1>2, <1>3 DEF TenantsApart

\* The parts of TenantsApart.
IssuesApart ==
  \A i \in DOMAIN issue :
    /\ issue[i].project \in DOMAIN project /\ project[issue[i].project].org = issue[i].org
    /\ issue[i].assignee # 0 => UserFound(issue[i].org, issue[i].assignee)
MembersApart ==
  \A m \in member : /\ m[1] \in DOMAIN project /\ m[2] \in DOMAIN user
                    /\ project[m[1]].org = user[m[2]].org
AuditApart == \A n \in DOMAIN audit : UserFound(audit[n].org, audit[n].actor)
StoredApart ==
  \A k \in stored : IF k.op = "user.create" THEN UserFound(k.org, k.id)
                    ELSE k.id \in DOMAIN project /\ project[k.id].org = k.org

LEMMA ApartParts == TenantsApart <=> IssuesApart /\ MembersApart /\ AuditApart /\ StoredApart
  BY DEF TenantsApart, IssuesApart, MembersApart, AuditApart, StoredApart

\* The tables' domains, and what RowsKept says in their terms.
LEMMA Domains ==
  ASSUME TablesOK, TablesOK', RowsKept
  PROVE  /\ \A u \in DOMAIN user : u \in DOMAIN user' /\ user'[u].org = user[u].org
         /\ \A p \in DOMAIN project : p \in DOMAIN project' /\ project'[p].org = project[p].org
         /\ \A i \in DOMAIN issue : i \in DOMAIN issue' /\ issue'[i].org = issue[i].org
                                    /\ issue'[i].project = issue[i].project
         /\ DOMAIN user = 1..Len(user) /\ DOMAIN user' = 1..Len(user')
         /\ DOMAIN project = 1..Len(project) /\ DOMAIN project' = 1..Len(project')
         /\ DOMAIN issue = 1..Len(issue) /\ DOMAIN issue' = 1..Len(issue')
         /\ Len(user) \in Nat /\ Len(project) \in Nat /\ Len(issue) \in Nat
<1>1. /\ DOMAIN user = 1..Len(user) /\ DOMAIN user' = 1..Len(user')
      /\ DOMAIN project = 1..Len(project) /\ DOMAIN project' = 1..Len(project')
      /\ DOMAIN issue = 1..Len(issue) /\ DOMAIN issue' = 1..Len(issue')
      /\ Len(user) \in Nat /\ Len(project) \in Nat /\ Len(issue) \in Nat
      /\ Len(user') \in Nat /\ Len(project') \in Nat /\ Len(issue') \in Nat
  BY DEF TablesOK
<1>2. QED
  BY <1>1 DEF RowsKept

\* A row of another table that is named stays where it is.
LEMMA NamesKept ==
  ASSUME TablesOK, TablesOK', RowsKept
  PROVE  /\ \A org, u : UserFound(org, u) => UserFound(org, u)'
         /\ \A p, org : p \in DOMAIN project /\ project[p].org = org =>
                          p \in DOMAIN project' /\ project'[p].org = org
  BY Domains DEF UserFound

\* Each row of a table after a transaction is the one before it, but for the
\* row that the request makes or changes.
LEMMA IssuesAfter ==
  ASSUME TablesOK, TablesOK', RowsKept, NEW r \in Requests, NEW org \in Orgs, NEW seen \in Seen,
         Founded(r, org), Change(r, org, seen), NEW i \in DOMAIN issue'
  PROVE  \/ i \in DOMAIN issue /\ issue'[i] = issue[i] /\ ~(r.op \in IssueChanges /\ i = r.id)
         \/ /\ r.op \in IssueChanges /\ i = r.id /\ i \in DOMAIN issue
            /\ issue'[i] = Touched(issue[i], r, seen)
         \/ /\ r.op = "issue.create" /\ i = Len(issue) + 1
            /\ issue'[i] = [org |-> org, project |-> r.id, assignee |-> r.to, status |-> "open",
                            version |-> 1, deleted |-> FALSE]
<1>1. CASE issue' = issue /\ r.op \notin IssueChanges
  BY <1>1
<1>2. CASE r.op = "issue.create" /\ CreateIssue(r, org)
  <2>1. issue \in Seq(IssueRow) /\ issue' = Append(issue, [org |-> org, project |-> r.id,
          assignee |-> r.to, status |-> "open", version |-> 1, deleted |-> FALSE])
    BY <1>2 DEF CreateIssue, TablesOK
  <2>2. r.op \notin IssueChanges
    BY <1>2 DEF IssueChanges
  <2>3. QED
    BY <1>2, <2>1, <2>2, AppendProperties
<1>3. CASE r.op \in IssueChanges /\ ChangeIssue(r, seen)
  <2>1. issue \in Seq(IssueRow) /\ r.id \in DOMAIN issue
        /\ issue' = [issue EXCEPT ![r.id] = Touched(issue[r.id], r, seen)]
    BY <1>3 DEF ChangeIssue, TablesOK, Founded
  <2>2. QED
    BY <1>3, <2>1
<1>4. QED
  BY <1>1, <1>2, <1>3 DEF Change, CreateProject, UpdateProject, ArchiveProject, AddMember,
     RemoveMember, CreateUser, UpdateUser, IssueChanges, IssueOps

LEMMA MembersAfter ==
  ASSUME NEW r \in Requests, NEW org \in Orgs, NEW seen \in Seen, Change(r, org, seen)
  PROVE  \/ member' \subseteq member
         \/ r.op = "member.add" /\ member' = member \cup {<<r.id, r.to>>}
         \/ r.op = "project.create" /\ member' = member \cup {<<Len(project) + 1, r.by>>}
            /\ project' = Append(project, [org |-> org, key |-> r.word, archived |-> FALSE])
  BY DEF Change, CreateProject, UpdateProject, ArchiveProject, AddMember, RemoveMember, CreateUser,
     UpdateUser, CreateIssue, ChangeIssue

LEMMA CommitApart ==
  ASSUME TypeInv, TenantsApart, NEW c \in Clients, NEW r \in Requests, handler[c].pc = "write",
         Commits(c, r)
  PROVE  TenantsApart'
<1> DEFINE org == OrgOf(r)
           seen == handler[c].seen
<1>1. /\ TablesOK /\ TablesOK' /\ RowsKept /\ Founded(r, org) /\ org \in Orgs /\ seen \in Seen
      /\ Change(r, org, seen)
  BY CommitEffect DEF TypeInv, Commits
<1>2. IssuesApart /\ MembersApart /\ AuditApart /\ StoredApart
  BY ApartParts
<1>3. r.by \in DOMAIN user /\ user[r.by].org = org
  BY OrgType DEF TypeInv, TablesOK, OrgOf
<1> HIDE DEF org, seen
<1>4. IssuesApart'
  <2>1. SUFFICES ASSUME NEW i \in DOMAIN issue'
                 PROVE  /\ issue'[i].project \in DOMAIN project'
                        /\ project'[issue'[i].project].org = issue'[i].org
                        /\ issue'[i].assignee # 0 => /\ issue'[i].assignee \in DOMAIN user'
                                                     /\ user'[issue'[i].assignee].org = issue'[i].org
    BY DEF IssuesApart, UserFound
  <2>2. CASE i \in DOMAIN issue /\ issue'[i] = issue[i]
    <3>1. /\ issue[i].project \in DOMAIN project /\ project[issue[i].project].org = issue[i].org
          /\ issue[i].assignee # 0 => UserFound(issue[i].org, issue[i].assignee)
      BY <1>2, <2>2 DEF IssuesApart
    <3>2. /\ issue[i].project \in DOMAIN project' /\ project'[issue[i].project].org = issue[i].org
      BY <1>1, <3>1, Domains
    <3>3. issue[i].assignee # 0 => issue[i].assignee \in DOMAIN user'
                                   /\ user'[issue[i].assignee].org = issue[i].org
      BY <1>1, <3>1, Domains DEF UserFound
    <3>4. QED
      BY <2>2, <3>2, <3>3
  <2>3. CASE /\ r.op \in IssueChanges /\ i = r.id /\ i \in DOMAIN issue
             /\ issue'[i] = Touched(issue[i], r, seen)
    <3>1. /\ issue[i].project \in DOMAIN project /\ project[issue[i].project].org = issue[i].org
          /\ issue[i].assignee # 0 => UserFound(issue[i].org, issue[i].assignee)
          /\ issue[i].org = org
          /\ r.op = "issue.assign" => r.to = 0 \/ UserFound(org, r.to)
      BY <1>1, <1>2, <2>3 DEF IssuesApart, Founded, AssigneeFits
    <3>2. issue[i] \in IssueRow
      BY <1>1, <2>3 DEF TablesOK
    <3>3. /\ issue'[i].org = issue[i].org /\ issue'[i].project = issue[i].project
          /\ issue'[i].assignee = IF r.op = "issue.assign" /\ r.to # seen.assignee THEN r.to
                                  ELSE issue[i].assignee
      <4>1. PICK new : new = Touched(issue[i], r, seen)
        OBVIOUS
      <4>2. r.op = "issue.transition" => r.word \in Statuses
        BY <1>1 DEF Founded
      <4>3. /\ new.org = issue[i].org /\ new.project = issue[i].project
            /\ new.assignee = IF r.op = "issue.assign" /\ r.to # seen.assignee THEN r.to
                              ELSE issue[i].assignee
        BY <1>1, <3>2, <4>1, <4>2, TouchedRow
      <4>4. QED
        BY <2>3, <4>1, <4>3
    <3>4. /\ issue[i].project \in DOMAIN project' /\ project'[issue[i].project].org = issue[i].org
      BY <1>1, <3>1, Domains
    <3>5. issue'[i].assignee # 0 => UserFound(org, issue'[i].assignee)
      BY <3>1, <3>3
    <3>6. issue'[i].assignee # 0 => issue'[i].assignee \in DOMAIN user'
                                    /\ user'[issue'[i].assignee].org = org
      BY <1>1, <3>5, Domains DEF UserFound
    <3>7. QED
      BY <3>1, <3>3, <3>4, <3>6
  <2>4. CASE /\ r.op = "issue.create" /\ i = Len(issue) + 1
             /\ issue'[i] = [org |-> org, project |-> r.id, assignee |-> r.to, status |-> "open",
                             version |-> 1, deleted |-> FALSE]
    <3>1. /\ r.id \in DOMAIN project /\ project[r.id].org = org
          /\ r.to = 0 \/ UserFound(org, r.to)
      BY <1>1, <2>4 DEF Founded, AssigneeFits
    <3>2. /\ r.id \in DOMAIN project' /\ project'[r.id].org = org
          /\ r.to = 0 \/ (r.to \in DOMAIN user' /\ user'[r.to].org = org)
      BY <1>1, <3>1, Domains DEF UserFound
    <3>3. QED
      BY <2>4, <3>2
  <2>5. QED
    BY <1>1, <2>2, <2>3, <2>4, IssuesAfter
<1>5. MembersApart'
  <2>1. SUFFICES ASSUME NEW m \in member'
                 PROVE  /\ m[1] \in DOMAIN project' /\ m[2] \in DOMAIN user'
                        /\ project'[m[1]].org = user'[m[2]].org
    BY DEF MembersApart
  <2>2. CASE m \in member
    BY <1>1, <1>2, <2>2, Domains DEF MembersApart
  <2>3. CASE r.op = "member.add" /\ m = <<r.id, r.to>>
    <3>1. r.id \in DOMAIN project /\ project[r.id].org = org /\ UserFound(org, r.to)
      BY <1>1, <2>3 DEF Founded, MemberOps
    <3>2. QED
      BY <1>1, <2>3, <3>1, Domains DEF UserFound
  <2>4. CASE /\ m = <<Len(project) + 1, r.by>>
             /\ project' = Append(project, [org |-> org, key |-> r.word, archived |-> FALSE])
    <3>1. project'[Len(project) + 1].org = org /\ Len(project) + 1 \in DOMAIN project'
      BY <1>1, <2>4, AppendProperties DEF TablesOK
    <3>2. QED
      BY <1>1, <1>3, <2>4, <3>1, Domains
  <2>5. QED
    BY <1>1, <2>1, <2>2, <2>3, <2>4, MembersAfter
<1>6. AuditApart'
  <2>1. /\ audit \in Seq(AuditRow)
        /\ audit' = Append(audit, [org |-> org, actor |-> r.by, action |-> r.op, entity |-> IdOf(r)])
    BY CommitEffect DEF TypeInv, TablesOK, org
  <2>2. SUFFICES ASSUME NEW n \in DOMAIN audit'
                 PROVE  audit'[n].actor \in DOMAIN user' /\ user'[audit'[n].actor].org = audit'[n].org
    BY DEF AuditApart, UserFound
  <2>3. CASE n \in DOMAIN audit /\ audit'[n] = audit[n]
    BY <1>1, <1>2, <2>3, Domains DEF AuditApart, UserFound
  <2>4. CASE audit'[n] = [org |-> org, actor |-> r.by, action |-> r.op, entity |-> IdOf(r)]
    BY <1>1, <1>3, <2>4, Domains
  <2>5. QED
    BY <2>1, <2>3, <2>4, AppendProperties
<1>7. StoredApart'
  <2>1. SUFFICES ASSUME NEW k \in stored'
                 PROVE  IF k.op = "user.create"
                        THEN k.id \in DOMAIN user' /\ user'[k.id].org = k.org
                        ELSE k.id \in DOMAIN project' /\ project'[k.id].org = k.org
    BY DEF StoredApart, UserFound
  <2>2. CASE k \in stored
    BY <1>1, <1>2, <2>2, Domains DEF StoredApart, UserFound
  <2>3. CASE HasKey(r) /\ k = StoredRowOf(r)
    <3>1. k.op = r.op /\ k.org = org /\ k.id = IdOf(r)
      BY <2>3 DEF StoredRowOf, org
    <3>2. r.op \in {"project.create", "user.create"}
      BY <2>3 DEF HasKey, Keyed
    <3>3. CASE r.op = "user.create"
      <4>1. user' = Append(user, [org |-> org, email |-> r.word, role |-> "member"])
        BY <1>1, <3>3 DEF Change, CreateUser, IssueChanges, IssueOps
      <4>2. IdOf(r) = Len(user) + 1
        BY <1>1, <3>3, IdOfType
      <4>3. Len(user) + 1 \in DOMAIN user' /\ user'[Len(user) + 1].org = org
        BY <1>1, <4>1, AppendProperties DEF TablesOK
      <4>4. QED
        BY <3>1, <3>3, <4>2, <4>3
    <3>4. CASE r.op = "project.create"
      <4>1. project' = Append(project, [org |-> org, key |-> r.word, archived |-> FALSE])
        BY <1>1, <3>4 DEF Change, CreateProject, IssueChanges, IssueOps
      <4>2. IdOf(r) = Len(project) + 1
        BY <1>1, <3>4, IdOfType
      <4>3. Len(project) + 1 \in DOMAIN project' /\ project'[Len(project) + 1].org = org
        BY <1>1, <4>1, AppendProperties DEF TablesOK
      <4>4. QED
        BY <3>1, <3>4, <4>2, <4>3
    <3>5. QED
      BY <3>2, <3>3, <3>4
  <2>4. QED
    BY <2>2, <2>3, CommitEffect
<1>8. QED
  BY <1>4, <1>5, <1>6, <1>7, ApartParts DEF TenantsApart, IssuesApart, MembersApart, AuditApart,
     StoredApart

\* Every step but a transaction that commits leaves the tables alone.
LEMMA TablesSame ==
  ASSUME TypeInv, [Next]_vars
  PROVE  \/ UNCHANGED tables
         \/ \E c \in Clients, r \in Requests : handler[c].pc = "write" /\ Commits(c, r)
                                               /\ UNCHANGED <<sent, pager>>
<1>1. ASSUME NEW c \in Clients, Write(c)
      PROVE  \/ UNCHANGED tables
             \/ \E d \in Clients, r \in Requests : handler[d].pc = "write" /\ Commits(d, r)
                                                   /\ UNCHANGED <<sent, pager>>
  BY <1>1, WriteUnfold DEF Fails
<1>2. QED
  BY <1>1 DEF Next, vars, Receive, Authorize, LookUpKey, Find, ReadPage

\* No row of an org ever refers to a row of another org.
THEOREM ApartCorrect == Spec => []TenantsApart
<1> DEFINE Inv == TypeInv /\ TenantsApart
<1>1. Init => Inv
  BY InitTypeInv, InitApart
<1>2. Inv /\ [Next]_vars => Inv'
  <2>1. SUFFICES ASSUME Inv, [Next]_vars
                 PROVE  Inv'
    OBVIOUS
  <2>2. TypeInv'
    BY <2>1, NextTypeInv
  <2>3. CASE UNCHANGED tables
    BY <2>1, <2>2, <2>3 DEF tables, TenantsApart, UserFound
  <2>4. CASE \E c \in Clients, r \in Requests : handler[c].pc = "write" /\ Commits(c, r)
    BY <2>1, <2>2, <2>4, CommitApart
  <2>5. QED
    BY <2>1, <2>3, <2>4, TablesSame
<1>3. Inv => TenantsApart
  OBVIOUS
<1>4. QED
  BY <1>1, <1>2, <1>3, PTL DEF Spec

(* ---- Retried creates agree ---------------------------------------------- *)

OneRowPerKey ==
  \A k, l \in stored : k.op = l.op /\ (k.id = l.id \/ (k.org = l.org /\ k.key = l.key)) => k = l
\* What client c was told about a request with a key is what is stored.
ToldAsStored(c) ==
  handler[c].pc = "done" /\ handler[c].status = 201 /\ HasKey(handler[c].req) =>
    \E k \in stored : /\ k.org = OrgOf(handler[c].req) /\ k.key = handler[c].req.key
                      /\ k.op = handler[c].req.op /\ k.word = handler[c].req.word
                      /\ k.id = handler[c].id

LEMMA RetriesParts == RetriesAgree <=> OneRowPerKey /\ \A c \in Clients : ToldAsStored(c)
<1>1. ASSUME NEW c \in Clients
      PROVE  ToldAsStored(c) <=>
               LET h == handler[c]
               IN h.pc = "done" /\ h.status = 201 /\ HasKey(h.req) =>
                    \E k \in Kept(h.req, OrgOf(h.req)) : k.word = h.req.word /\ k.id = h.id
  BY DEF ToldAsStored, Kept
<1>2. QED
  BY <1>1 DEF RetriesAgree, OneRowPerKey

\* What the others were told stays stored.
LEMMA ToldKept ==
  ASSUME TypeInv, RowsKept, stored \subseteq stored', NEW c \in Clients, handler'[c] = handler[c],
         ToldAsStored(c)
  PROVE  ToldAsStored(c)'
<1>1. CASE handler[c].pc = "free"
  BY <1>1 DEF ToldAsStored
<1>2. CASE handler[c].pc # "free"
  <2>1. handler[c].req \in Requests
    BY <1>2 DEF TypeInv, HandlersOK
  <2>2. OrgOf(handler[c].req)' = OrgOf(handler[c].req)
    BY <2>1, OrgType DEF TypeInv, OrgOf, RowsKept
  <2>3. QED
    BY <2>2 DEF ToldAsStored, HasKey
<1>3. QED
  BY <1>1, <1>2

\* After a reply the client's handler is done, with that status and id.
LEMMA ReplyFacts ==
  ASSUME TypeInv, NEW c \in Clients, NEW status, NEW id, Reply(c, status, id)
  PROVE  /\ handler'[c].pc = "done"
         /\ handler'[c].status = status /\ handler'[c].id = id /\ handler'[c].req = handler[c].req
         /\ \A d \in Clients : d # c => handler'[d] = handler[d]
<1>1. handler \in [Clients -> Handler] /\ handler[c] \in Handler
  BY DEF TypeInv, HandlersOK
<1>2. handler' = [handler EXCEPT ![c] = [handler[c] EXCEPT !.pc = "done", !.status = status,
                                                           !.id = id]]
  BY <1>1 DEF Reply
<1>3. QED
  BY <1>1, <1>2 DEF Handler

LEMMA RefusalStatus ==
  ASSUME NEW r \in Requests, NEW org
  PROVE  Refusal(r, org) # 201
<1>1. /\ r.op \in Ops
      /\ Ops = ProjectOps \cup MemberOps \cup UserOps \cup IssueOps
  BY RequestType DEF Ops
<1>2. /\ ProjectRefusal(r, org) # 201 /\ MemberRefusal(r, org) # 201
      /\ UserRefusal(r, org) # 201 /\ IssueRefusal(r, org) # 201
  BY DEF ProjectRefusal, MemberRefusal, UserRefusal, IssueRefusal
<1>3. QED
  BY <1>1, <1>2 DEF Refusal

\* A step of client c that leaves the tables alone and does not answer 201.
LEMMA OtherReply ==
  ASSUME TypeInv, RetriesAgree, RowsKept, UNCHANGED tables, NEW c \in Clients,
         \A d \in Clients : d # c => handler'[d] = handler[d],
         handler'[c].pc # "done" \/ handler'[c].status # 201
  PROVE  RetriesAgree'
<1>1. OneRowPerKey'
  BY RetriesParts DEF OneRowPerKey, tables
<1>2. ASSUME NEW d \in Clients
      PROVE  ToldAsStored(d)'
  <2>1. CASE d = c
    BY <2>1 DEF ToldAsStored
  <2>2. CASE d # c
    BY <2>2, RetriesParts, ToldKept DEF tables
  <2>3. QED
    BY <2>1, <2>2
<1>3. QED
  BY <1>1, <1>2, RetriesParts DEF RetriesAgree, OneRowPerKey, ToldAsStored, Kept

LEMMA LookUpRetries ==
  ASSUME TypeInv, RetriesAgree, RowsKept, NEW c \in Clients, LookUpKey(c)
  PROVE  RetriesAgree'
<1>1. UNCHANGED tables /\ handler[c].req \in Requests /\ handler \in [Clients -> Handler]
  BY DEF LookUpKey, TypeInv, HandlersOK
<1>2. CASE Goto(c, "find")
  <2>1. /\ \A d \in Clients : d # c => handler'[d] = handler[d]
        /\ handler'[c].pc = "find"
    BY <1>1, <1>2 DEF Goto, Handler
  <2>2. QED
    BY <1>1, <2>1, OtherReply
<1>3. CASE Reply(c, 409, 0)
  BY <1>1, <1>3, ReplyFacts, OtherReply
<1>4. ASSUME NEW k \in Kept(handler[c].req, OrgOf(handler[c].req)), k.word = handler[c].req.word,
             Reply(c, 201, k.id)
      PROVE  RetriesAgree'
  <2>1. OneRowPerKey'
    BY <1>1, RetriesParts DEF OneRowPerKey, tables
  <2>2. ASSUME NEW d \in Clients
        PROVE  ToldAsStored(d)'
    <3>1. CASE d # c
      <4>1. handler'[d] = handler[d]
        BY <1>4, <3>1, ReplyFacts
      <4>2. QED
        BY <1>1, <4>1, RetriesParts, ToldKept DEF tables
    <3>2. CASE d = c
      <4>1. handler'[c].req = handler[c].req /\ handler'[c].id = k.id
        BY <1>4, ReplyFacts
      <4>2. OrgOf(handler[c].req)' = OrgOf(handler[c].req)
        BY <1>1, <4>1 DEF OrgOf, tables
      <4>3. k \in stored' /\ k.org = OrgOf(handler[c].req) /\ k.key = handler[c].req.key
            /\ k.op = handler[c].req.op
        BY <1>1, <1>4 DEF Kept, tables
      <4>4. QED
        BY <1>4, <3>2, <4>1, <4>2, <4>3 DEF ToldAsStored
    <3>3. QED
      BY <3>1, <3>2
  <2>3. QED
    BY <2>1, <2>2, RetriesParts DEF RetriesAgree, OneRowPerKey, ToldAsStored, Kept
<1>5. QED
  BY <1>2, <1>3, <1>4 DEF LookUpKey

LEMMA CommitRetries ==
  ASSUME TypeInv, TenantsApart, RetriesAgree, NEW c \in Clients, NEW r \in Requests,
         handler[c].pc = "write", Commits(c, r)
  PROVE  RetriesAgree'
<1>1. /\ TablesOK /\ TablesOK' /\ RowsKept
      /\ stored' = IF HasKey(r) THEN stored \cup {StoredRowOf(r)} ELSE stored
  BY CommitEffect DEF TypeInv
<1>2. OneRowPerKey /\ StoredApart
  BY RetriesParts, ApartParts
<1>3. ASSUME HasKey(r), NEW k \in stored, k.op = r.op
      PROVE  k.id # IdOf(r) /\ ~(k.org = OrgOf(r) /\ k.key = r.key)
  <2>1. Kept(r, OrgOf(r)) = {}
    BY <1>3 DEF Commits, Collides
  <2>2. ~(k.org = OrgOf(r) /\ k.key = r.key)
    BY <1>3, <2>1 DEF Kept
  <2>3. CASE r.op = "user.create"
    <3>1. k.op = "user.create"
      BY <1>3, <2>3
    <3>2. k.id \in DOMAIN user
      BY <1>2, <1>3, <3>1 DEF StoredApart, UserFound
    <3>3. user \in Seq(UserRow)
      BY <1>1 DEF TablesOK
    <3>4. DOMAIN user = 1..Len(user) /\ Len(user) \in Nat
      BY <3>3
    <3>5. IdOf(r) = Len(user) + 1
      BY <2>3 DEF IdOf
    <3>6. k.id # IdOf(r)
      BY <3>2, <3>4, <3>5
    <3>7. QED
      BY <2>2, <3>6
  <2>4. CASE r.op = "project.create"
    <3>1. k.op = "project.create"
      BY <1>3, <2>4
    <3>2. k.id \in DOMAIN project
      BY <1>2, <1>3, <3>1 DEF StoredApart
    <3>3. project \in Seq(ProjectRow)
      BY <1>1 DEF TablesOK
    <3>4. DOMAIN project = 1..Len(project) /\ Len(project) \in Nat
      BY <3>3
    <3>5. IdOf(r) = Len(project) + 1
      BY <2>4 DEF IdOf
    <3>6. k.id # IdOf(r)
      BY <3>2, <3>4, <3>5
    <3>7. QED
      BY <2>2, <3>6
  <2>5. QED
    BY <1>3, <2>3, <2>4 DEF HasKey, Keyed
<1>4. OneRowPerKey'
  <2>1. SUFFICES ASSUME NEW k \in stored', NEW l \in stored', k.op = l.op,
                        k.id = l.id \/ (k.org = l.org /\ k.key = l.key)
                 PROVE  k = l
    BY DEF OneRowPerKey
  <2>2. CASE k \in stored /\ l \in stored
    BY <1>2, <2>1, <2>2 DEF OneRowPerKey
  <2>3. CASE HasKey(r) /\ k = StoredRowOf(r) /\ l \in stored
    BY <1>3, <2>1, <2>3 DEF StoredRowOf
  <2>4. CASE HasKey(r) /\ l = StoredRowOf(r) /\ k \in stored
    BY <1>3, <2>1, <2>4 DEF StoredRowOf
  <2>5. QED
    BY <1>1, <2>2, <2>3, <2>4
<1>5. Reply(c, Success(r), IdOf(r)) /\ r = handler[c].req
  BY DEF Commits
<1>6. ASSUME NEW d \in Clients
      PROVE  ToldAsStored(d)'
  <2>1. CASE d # c
    <3>1. handler'[d] = handler[d]
      BY <1>5, <2>1, ReplyFacts
    <3>2. QED
      BY <1>1, <3>1, RetriesParts, ToldKept
  <2>2. CASE d = c
    <3>1. handler'[c].req = r /\ handler'[c].id = IdOf(r)
      BY <1>5, ReplyFacts
    <3>2. OrgOf(r)' = OrgOf(r)
      BY <1>1, OrgType DEF TypeInv, OrgOf, RowsKept
    <3>3. HasKey(r) => StoredRowOf(r) \in stored'
      BY <1>1
    <3>4. HasKey(handler[c].req)' <=> HasKey(r)
      BY <3>1 DEF HasKey
    <3>5. OrgOf(handler[c].req)' = OrgOf(r)
      BY <3>1, <3>2 DEF OrgOf
    <3>6. QED
      BY <2>2, <3>1, <3>3, <3>4, <3>5 DEF ToldAsStored, StoredRowOf
  <2>3. QED
    BY <2>1, <2>2
<1>7. QED
  BY <1>4, <1>6, RetriesParts DEF RetriesAgree, OneRowPerKey, ToldAsStored, Kept

\* A key stands for one request and one row, whatever overlaps and is retried.
THEOREM RetriesCorrect == Spec => []RetriesAgree
<1> DEFINE Inv == TypeInv /\ TenantsApart /\ RetriesAgree
<1>1. Init => Inv
  BY InitTypeInv, InitApart DEF Init, RetriesAgree, Free
<1>2. Inv /\ [Next]_vars => Inv'
  <2>1. SUFFICES ASSUME TypeInv, TenantsApart, RetriesAgree, [Next]_vars
                 PROVE  Inv'
    OBVIOUS
  <2>2. TypeInv' /\ RowsKept
    BY <2>1, NextTypeInv
  <2>3. TenantsApart'
    <3>1. CASE UNCHANGED tables
      BY <2>1, <3>1 DEF tables, TenantsApart, UserFound
    <3>2. CASE \E c \in Clients, r \in Requests : handler[c].pc = "write" /\ Commits(c, r)
      BY <2>1, <3>2, CommitApart
    <3>3. QED
      BY <2>1, <3>1, <3>2, TablesSame
  <2>4. handler \in [Clients -> Handler]
    BY <2>1 DEF TypeInv, HandlersOK
  <2>5. ASSUME NEW c \in Clients, NEW r \in Requests, Receive(c, r)
        PROVE  RetriesAgree'
    <3>1. /\ \A d \in Clients : d # c => handler'[d] = handler[d]
          /\ handler'[c].pc = "auth" /\ UNCHANGED tables
      BY <2>4, <2>5 DEF Receive, Free
    <3>2. QED
      BY <2>1, <2>2, <3>1, OtherReply
  <2>6. ASSUME NEW c \in Clients, Authorize(c)
        PROVE  RetriesAgree'
    <3>1. UNCHANGED tables /\ (Reply(c, 403, 0) \/ Goto(c, "key") \/ Goto(c, "find"))
      BY <2>6 DEF Authorize
    <3>2. /\ \A d \in Clients : d # c => handler'[d] = handler[d]
          /\ handler'[c].pc # "done" \/ handler'[c].status # 201
      <4>1. CASE Reply(c, 403, 0)
        BY <2>1, <4>1, ReplyFacts
      <4>2. CASE Goto(c, "key") \/ Goto(c, "find")
        BY <2>4, <4>2 DEF Goto, Handler
      <4>3. QED
        BY <3>1, <4>1, <4>2
    <3>3. QED
      BY <2>1, <2>2, <3>1, <3>2, OtherReply
  <2>7. ASSUME NEW c \in Clients, LookUpKey(c)
        PROVE  RetriesAgree'
    BY <2>1, <2>2, <2>7, LookUpRetries
  <2>8. ASSUME NEW c \in Clients, Find(c)
        PROVE  RetriesAgree'
    <3>1. UNCHANGED tables /\ handler[c].req \in Requests
      BY <2>1, <2>8 DEF Find, TypeInv, HandlersOK
    <3>2. PICK r \in Requests : r = handler[c].req
      BY <3>1
    <3>3. CASE Reply(c, Refusal(r, OrgOf(r)), 0)
      BY <2>1, <2>2, <3>1, <3>3, ReplyFacts, RefusalStatus, OtherReply
    <3>4. CASE handler' = [handler EXCEPT ![c].pc = "write", ![c].seen = Loaded(r)]
      <4>1. /\ \A d \in Clients : d # c => handler'[d] = handler[d]
            /\ handler'[c].pc = "write"
        BY <2>4, <3>4 DEF Handler
      <4>2. QED
        BY <2>1, <2>2, <3>1, <4>1, OtherReply
    <3>5. QED
      BY <2>8, <3>2, <3>3, <3>4, FindUnfold
  <2>9. ASSUME NEW c \in Clients, Write(c)
        PROVE  RetriesAgree'
    <3>1. CASE Fails(c)
      <4>1. UNCHANGED tables /\ Reply(c, 500, 0)
        BY <3>1 DEF Fails
      <4>2. QED
        BY <2>1, <2>2, <4>1, ReplyFacts, OtherReply
    <3>2. QED
      BY <2>1, <2>9, <3>1, WriteUnfold, CommitRetries
  <2>10. CASE ReadPage \/ UNCHANGED vars
    <3>1. UNCHANGED <<tables, handler>>
      BY <2>10 DEF ReadPage, vars
    <3>2. QED
      BY <2>1, <2>2, <2>3, <3>1 DEF RetriesAgree, Kept, OrgOf, HasKey, tables
  <2>11. QED
    BY <2>1, <2>2, <2>3, <2>5, <2>6, <2>7, <2>8, <2>9, <2>10 DEF Next
<1>3. Inv => RetriesAgree
  OBVIOUS
<1>4. QED
  BY <1>1, <1>2, <1>3, PTL DEF Spec

(* ---- A reader who follows the cursors misses nothing -------------------- *)

\* What the reader got so far is what is owed to them up to the cursor.
PagerInv ==
  /\ IsFiniteSet(pager.got) /\ pager.rows = Cardinality(pager.got)
  /\ pager.owed \subseteq 1..Len(issue)
  /\ pager.pc = "free" => pager.after = 0 /\ pager.got = {}
  /\ pager.pc = "paging" =>
       /\ \A i \in pager.got : i <= pager.after
       /\ \A i \in pager.owed \cap Listed : i <= pager.after => i \in pager.got
  /\ pager.pc = "done" => pager.owed \cap Listed \subseteq pager.got

LEMMA InitPager == Init => PagerInv
  BY FS_EmptySet DEF Init, PagerInv

\* No step puts an issue on a list that it was not on, but for a new one.
LEMMA ListedShrinks ==
  ASSUME TypeInv, TablesOK', RowsKept
  PROVE  /\ Listed' \cap (1..Len(issue)) \subseteq Listed
         /\ 1..Len(issue) \subseteq 1..Len(issue)'
<1>1. /\ TablesOK /\ \A i \in DOMAIN issue : i \in DOMAIN issue' /\ issue'[i].org = issue[i].org
                                             /\ issue'[i].project = issue[i].project
      /\ DOMAIN issue = 1..Len(issue) /\ DOMAIN issue' = 1..Len(issue')
  BY Domains DEF TypeInv
<1>2. user'[Reader].org = user[Reader].org
  <2>1. Reader \in 1..Len(SeedUsers) /\ Len(SeedUsers) \in Nat
    BY TrackerAssumption
  <2>2. Len(user) \in Nat
    BY <1>1 DEF TablesOK
  <2>3. Reader \in 1..Len(user)
    BY <2>1, <2>2 DEF TypeInv, Seeded
  <2>4. QED
    BY <2>3 DEF RowsKept
<1>3. \A i \in 1..Len(issue) : issue[i].deleted => issue'[i].deleted
  BY DEF RowsKept
<1>4. ASSUME NEW i \in Listed', i \in 1..Len(issue)
      PROVE  i \in Listed
  BY <1>1, <1>2, <1>3, <1>4 DEF Listed, IssueFound
<1>5. QED
  BY <1>1, <1>4

\* Every step but reading a page keeps what is owed and what was got.
LEMMA OthersKeepPager ==
  ASSUME TypeInv, PagerInv, TypeInv', RowsKept, pager' = pager
  PROVE  PagerInv'
<1>1. /\ Listed' \cap (1..Len(issue)) \subseteq Listed
      /\ 1..Len(issue) \subseteq 1..Len(issue)'
  BY ListedShrinks DEF TypeInv
<1>2. pager.owed \cap Listed' \subseteq pager.owed \cap Listed
  BY <1>1 DEF PagerInv
<1>3. QED
  BY <1>1, <1>2 DEF PagerInv

\* A page adds rows that come after those that were got, up to the new cursor.
LEMMA PageKeeps ==
  ASSUME TypeInv, PagerInv, ReadPage
  PROVE  PagerInv'
<1>1. /\ TablesOK /\ PagerOK /\ pager.pc \in {"free", "paging"}
      /\ UNCHANGED tables /\ Listed' = Listed /\ Len(issue)' = Len(issue)
  BY ReadPageUnfold DEF TypeInv, tables, Listed, IssueFound
<1>2. CASE pager' = [pager EXCEPT !.pc = "refused"]
  BY <1>1, <1>2 DEF PagerInv, PagerOK
<1> DEFINE next == NextAfter(Fetched)
           owed == IF pager.pc = "free" THEN Listed ELSE pager.owed
<1>3. CASE pager' = [pc |-> IF next = 0 THEN "done" ELSE "paging", after |-> next,
                     got |-> pager.got \cup Items, rows |-> pager.rows + Cardinality(Items),
                     owed |-> owed]
  <2>1. /\ Items \subseteq Rest /\ IsFiniteSet(Items) /\ Cardinality(Items) \in Nat
        /\ next \in Nat /\ (next = 0 => Items = Rest)
        /\ next # 0 => /\ next \in Items /\ \A i \in Items : i <= next
                       /\ \A i \in Rest : i <= next => i \in Items
    BY <1>1, PageFacts
  <2>2. /\ Listed \subseteq 1..Len(issue) /\ Listed \subseteq Ids /\ Ids \subseteq Nat
        /\ pager.after \in Nat /\ pager.got \subseteq Ids /\ pager.owed \subseteq Ids
    BY <1>1, ListedType DEF PagerOK, Ids
  <2>3. \A i \in Listed : i \in Rest <=> i > pager.after
    BY DEF Rest
  <2>4. Rest \subseteq Listed
    BY DEF Rest
  <2>5. \A i \in pager.got : i <= pager.after
    BY <1>1 DEF PagerInv
  <2>6. \A i \in owed \cap Listed : i <= pager.after => i \in pager.got
    BY <1>1, <2>2 DEF PagerInv, Ids
  <2>7. owed \subseteq 1..Len(issue)
    BY <2>2 DEF PagerInv
  <2>8. /\ pager'.pc = (IF next = 0 THEN "done" ELSE "paging") /\ pager'.after = next
        /\ pager'.got = pager.got \cup Items /\ pager'.owed = owed
        /\ pager'.rows = pager.rows + Cardinality(Items)
    BY <1>3
  <2> HIDE DEF next, owed
  <2>9. IsFiniteSet(pager'.got) /\ pager'.rows = Cardinality(pager'.got)
    <3>1. ASSUME NEW i \in pager.got
          PROVE  i \notin Items
      <4>1. i \in Nat /\ i <= pager.after /\ pager.after \in Nat
        BY <2>2, <2>5
      <4>2. i \notin Rest
        BY <2>3, <2>4, <4>1
      <4>3. QED
        BY <2>1, <4>2
    <3>2. IsFiniteSet(pager.got) /\ pager.rows = Cardinality(pager.got) /\ pager.rows \in Nat
      BY <1>1 DEF PagerInv, PagerOK
    <3>3. /\ IsFiniteSet(pager.got \cup Items)
          /\ Cardinality(pager.got \cup Items) = pager.rows + Cardinality(Items) - Cardinality({})
      <4>1. pager.got \cap Items = {}
        BY <3>1
      <4>2. QED
        BY <2>1, <3>2, <4>1, FS_Union
    <3>4. Cardinality({}) = 0
      BY FS_EmptySet
    <3>5. QED
      BY <2>1, <2>8, <3>2, <3>3, <3>4
  <2>10. CASE next = 0
    <3>1. pager'.pc = "done"
      BY <2>8, <2>10
    <3>2. ASSUME NEW i \in owed \cap Listed
          PROVE  i \in pager.got \cup Items
      <4>1. i \in Nat
        BY <2>2
      <4>2. QED
        BY <2>1, <2>2, <2>3, <2>6, <2>10, <4>1
    <3>3. QED
      BY <1>1, <2>7, <2>8, <2>9, <3>1, <3>2 DEF PagerInv
  <2>11. CASE next # 0
    <3>1. pager'.pc = "paging"
      BY <2>8, <2>11
    <3>2. next > pager.after
      BY <2>1, <2>3, <2>4, <2>11
    <3>3. \A i \in pager.got \cup Items : i <= next
      <4>1. SUFFICES ASSUME NEW i \in pager.got
                     PROVE  i <= next
        BY <2>1, <2>11
      <4>2. i \in Nat /\ i <= pager.after /\ pager.after \in Nat /\ next \in Nat
        BY <2>1, <2>2, <2>5
      <4>3. QED
        BY <3>2, <4>2
    <3>4. ASSUME NEW i \in owed \cap Listed, i <= next
          PROVE  i \in pager.got \cup Items
      <4>1. i \in Nat
        BY <2>2
      <4>2. QED
        BY <2>1, <2>2, <2>3, <2>6, <2>11, <3>4, <4>1
    <3>5. QED
      BY <1>1, <2>7, <2>8, <2>9, <3>1, <3>3, <3>4 DEF PagerInv
  <2>12. QED
    BY <2>10, <2>11
<1>4. QED
  BY <1>2, <1>3, ReadPageUnfold

\* A reader who follows the cursors to the end gets every issue that was there
\* all the time, each once, whatever the page size and the other requests.
THEOREM PagesCorrect == Spec => []PagesComplete
<1> DEFINE Inv == TypeInv /\ PagerInv
<1>1. Init => Inv
  BY InitTypeInv, InitPager
<1>2. Inv /\ [Next]_vars => Inv'
  <2>1. SUFFICES ASSUME TypeInv, PagerInv, [Next]_vars
                 PROVE  Inv'
    OBVIOUS
  <2>2. TypeInv' /\ RowsKept
    BY <2>1, NextTypeInv
  <2>3. CASE ReadPage
    BY <2>1, <2>2, <2>3, PageKeeps
  <2>4. CASE pager' = pager
    BY <2>1, <2>2, <2>4, OthersKeepPager
  <2>5. QED
    BY <2>1, <2>3, <2>4 DEF Next, vars, Receive, Authorize, LookUpKey, Find, Write
<1>3. Inv => PagesComplete
  BY DEF PagerInv, PagesComplete
<1>4. QED
  BY <1>1, <1>2, <1>3, PTL DEF Spec

(* ---- The audit log tells what is in the tables -------------------------- *)

Changed(i) == UNION {Audited(op, i) : op \in IssueChanges}

\* The parts of AuditTellsWhatIsThere, for an issue, a project and a user.
IssueAudited(i) ==
  /\ Cardinality(Audited("issue.create", i)) = IF i \in DOMAIN SeedIssues THEN 0 ELSE 1
  /\ \A n \in Audited("issue.create", i), m \in Changed(i) : n < m
  /\ issue[i].deleted <=> Audited("issue.delete", i) # {}
  /\ issue[i].version <= Cardinality(Changed(i)) + 1
  /\ \A n \in Audited("issue.create", i) \cup Changed(i) : audit[n].org = issue[i].org
ProjectAudited(p) ==
  /\ Cardinality(Audited("project.create", p)) = IF p \in DOMAIN SeedProjects THEN 0 ELSE 1
  /\ project[p].archived <=> Audited("project.archive", p) # {}
UserAudited(u) == Cardinality(Audited("user.create", u)) = IF u \in DOMAIN SeedUsers THEN 0 ELSE 1

\* The log is of rows that are there: a new row has no history.
EntitiesThere ==
  \A n \in DOMAIN audit :
    /\ audit[n].action \in IssueOps => audit[n].entity \in DOMAIN issue
    /\ audit[n].action \in {"project.create", "project.archive"} => audit[n].entity \in DOMAIN project
    /\ audit[n].action = "user.create" => audit[n].entity \in DOMAIN user
SeedsThere == Len(SeedProjects) <= Len(project) /\ Len(SeedIssues) <= Len(issue)
\* What a request loaded is no newer than the changes that the log has.
VersionLoaded(c) ==
  \A i : handler[c].pc = "write" /\ handler[c].req.op \in IssueChanges /\ handler[c].req.id = i =>
           handler[c].seen.version <= Cardinality(Changed(i)) + 1

AuditInv ==
  /\ \A i \in DOMAIN issue : IssueAudited(i)
  /\ \A p \in DOMAIN project : ProjectAudited(p)
  /\ \A u \in DOMAIN user : UserAudited(u)
  /\ EntitiesThere /\ SeedsThere
  /\ \A c \in Clients : VersionLoaded(c)

LEMMA AuditInvTells ==
  ASSUME AuditInv
  PROVE  AuditTellsWhatIsThere
  BY DEF AuditInv, AuditTellsWhatIsThere, IssueAudited, ProjectAudited, UserAudited, EntitiesThere,
     IssueOps, Changed

LEMMA AuditedType ==
  ASSUME TablesOK, NEW i
  PROVE  /\ Len(audit) \in Nat /\ DOMAIN audit = 1..Len(audit)
         /\ \A a : Audited(a, i) \subseteq 1..Len(audit) /\ IsFiniteSet(Audited(a, i))
         /\ Changed(i) \subseteq 1..Len(audit) /\ IsFiniteSet(Changed(i))
         /\ Changed(i) = {n \in DOMAIN audit : audit[n].action \in IssueChanges /\ audit[n].entity = i}
<1>1. Len(audit) \in Nat /\ DOMAIN audit = 1..Len(audit)
  BY DEF TablesOK
<1>2. IsFiniteSet(1..Len(audit))
  BY <1>1, FS_Interval
<1>3. ASSUME NEW a
      PROVE  Audited(a, i) \in SUBSET (1..Len(audit)) /\ IsFiniteSet(Audited(a, i))
  <2>1. Audited(a, i) \in SUBSET (1..Len(audit))
    BY <1>1 DEF Audited
  <2>2. QED
    BY <1>2, <2>1, FS_Subset
<1>4. Changed(i) = {n \in DOMAIN audit : audit[n].action \in IssueChanges /\ audit[n].entity = i}
  BY DEF Changed, Audited
<1>5. Changed(i) \in SUBSET (1..Len(audit))
  BY <1>1, <1>4
<1>6. QED
  BY <1>1, <1>2, <1>3, <1>4, <1>5, FS_Subset

\* A new row of the log is in no history but that of its own row.
LEMMA AuditAppend ==
  ASSUME TablesOK, NEW row \in AuditRow, audit' = Append(audit, row), NEW i
  PROVE  /\ \A a : Audited(a, i)' = Audited(a, i) \cup
                     (IF row.action = a /\ row.entity = i THEN {Len(audit) + 1} ELSE {})
         /\ Changed(i)' = Changed(i) \cup
              (IF row.action \in IssueChanges /\ row.entity = i THEN {Len(audit) + 1} ELSE {})
         /\ \A n \in 1..Len(audit) : audit'[n] = audit[n]
         /\ audit'[Len(audit) + 1] = row
         /\ DOMAIN audit' = 1..(Len(audit) + 1)
<1>1. /\ audit \in Seq(AuditRow) /\ Len(audit) \in Nat /\ DOMAIN audit = 1..Len(audit)
  BY DEF TablesOK
<1>2. /\ \A n \in 1..Len(audit) : audit'[n] = audit[n]
      /\ audit'[Len(audit) + 1] = row /\ DOMAIN audit' = 1..(Len(audit) + 1)
  BY <1>1, AppendProperties
<1>3. \A n : n \in DOMAIN audit' <=> n \in DOMAIN audit \/ n = Len(audit) + 1
  BY <1>1, <1>2
<1>4. Len(audit) + 1 \notin DOMAIN audit
  BY <1>1
<1>5. ASSUME NEW a
      PROVE  Audited(a, i)' = Audited(a, i) \cup
               (IF row.action = a /\ row.entity = i THEN {Len(audit) + 1} ELSE {})
  <2>1. \A n : n \in Audited(a, i)' <=>
                 n \in DOMAIN audit' /\ audit'[n].action = a /\ audit'[n].entity = i
    BY DEF Audited
  <2>2. \A n : n \in Audited(a, i) <=>
                 n \in DOMAIN audit /\ audit[n].action = a /\ audit[n].entity = i
    BY DEF Audited
  <2>3. QED
    BY <1>1, <1>2, <1>3, <2>1, <2>2
<1>6. Changed(i)' = Changed(i) \cup
        (IF row.action \in IssueChanges /\ row.entity = i THEN {Len(audit) + 1} ELSE {})
  <2>1. \A n : n \in Changed(i)' <=>
                 n \in DOMAIN audit' /\ audit'[n].action \in IssueChanges /\ audit'[n].entity = i
    BY DEF Changed, Audited
  <2>2. \A n : n \in Changed(i) <=>
                 n \in DOMAIN audit /\ audit[n].action \in IssueChanges /\ audit[n].entity = i
    BY DEF Changed, Audited
  <2>3. QED
    BY <1>1, <1>2, <1>3, <2>1, <2>2
<1>7. QED
  BY <1>2, <1>5, <1>6

LEMMA OneMore ==
  ASSUME NEW k \in Nat, NEW S \in SUBSET (1..k)
  PROVE  IsFiniteSet(S) /\ Cardinality(S) \in Nat /\ Cardinality(S \cup {k + 1}) = Cardinality(S) + 1
<1>1. IsFiniteSet(S)
  <2>1. IsFiniteSet(1..k)
    BY FS_Interval
  <2>2. QED
    BY <2>1, FS_Subset
<1>2. k + 1 \notin S
  OBVIOUS
<1>3. QED
  BY <1>1, <1>2, FS_AddElement, FS_CardinalityType

\* Nothing has been logged of a row that is not in its table.
LEMMA NoHistory ==
  ASSUME TablesOK, EntitiesThere
  PROVE  /\ \A i : i \notin DOMAIN issue => Audited("issue.create", i) = {} /\ Changed(i) = {}
                                            /\ Audited("issue.delete", i) = {}
         /\ \A p : p \notin DOMAIN project => Audited("project.create", p) = {}
                                              /\ Audited("project.archive", p) = {}
         /\ \A u : u \notin DOMAIN user => Audited("user.create", u) = {}
<1>1. ASSUME NEW i, i \notin DOMAIN issue
      PROVE  Audited("issue.create", i) = {} /\ Changed(i) = {} /\ Audited("issue.delete", i) = {}
  <2>1. \A n \in DOMAIN audit : audit[n].action \in IssueOps => audit[n].entity # i
    BY <1>1 DEF EntitiesThere
  <2>2. IssueChanges \subseteq IssueOps /\ "issue.create" \in IssueOps /\ "issue.delete" \in IssueOps
    BY DEF IssueChanges, IssueOps
  <2>3. QED
    BY <2>1, <2>2 DEF Changed, Audited
<1>2. QED
  BY <1>1 DEF EntitiesThere, Audited

LEMMA InitAudit == Init => AuditInv
<1> SUFFICES ASSUME Init
             PROVE  AuditInv
  OBVIOUS
<1>1. audit = <<>> /\ user = SeedUsers /\ project = SeedProjects /\ issue = SeedIssues
      /\ \A c \in Clients : handler[c].pc # "write"
  BY DEF Init, Free
<1>2. \A a, i : Audited(a, i) = {}
  BY <1>1 DEF Audited
<1>3. \A i : Changed(i) = {}
  BY <1>2 DEF Changed
<1>4. Cardinality({}) = 0
  BY FS_EmptySet
<1>5. \A i \in DOMAIN issue : IssueAudited(i)
  <2>1. SUFFICES ASSUME NEW i \in DOMAIN issue
                 PROVE  IssueAudited(i)
    OBVIOUS
  <2>2. issue[i].version = 1 /\ issue[i].deleted = FALSE /\ i \in DOMAIN SeedIssues
    BY <1>1, TrackerAssumption
  <2>3. 1 <= Cardinality({}) + 1
    BY <1>4
  <2>4. QED
    BY <1>2, <1>3, <1>4, <2>2, <2>3 DEF IssueAudited
<1>6. \A p \in DOMAIN project : ProjectAudited(p)
  BY <1>1, <1>2, <1>4, TrackerAssumption DEF ProjectAudited
<1>7. \A u \in DOMAIN user : UserAudited(u)
  BY <1>1, <1>2, <1>4 DEF UserAudited
<1>8. EntitiesThere /\ SeedsThere
  BY <1>1, TrackerAssumption DEF EntitiesThere, SeedsThere
<1>9. QED
  BY <1>1, <1>5, <1>6, <1>7, <1>8 DEF AuditInv, VersionLoaded

\* What a committing request does to the history of each issue.
LEMMA CommitIssueAudited ==
  ASSUME TypeInv, AuditInv, NEW c \in Clients, NEW r \in Requests, handler[c].pc = "write",
         Commits(c, r), NEW i \in DOMAIN issue'
  PROVE  IssueAudited(i)'
<1> DEFINE org == OrgOf(r)
           seen == handler[c].seen
           row == [org |-> org, actor |-> r.by, action |-> r.op, entity |-> IdOf(r)]
           new == Len(audit) + 1
<1>1. /\ TablesOK /\ TablesOK' /\ RowsKept /\ Founded(r, org) /\ org \in Orgs /\ seen \in Seen
      /\ Change(r, org, seen) /\ audit' = Append(audit, row)
  BY CommitEffect DEF TypeInv, Commits
<1>2. row \in AuditRow /\ row.org = org /\ row.action = r.op /\ row.entity = IdOf(r)
  BY <1>1, RequestType, IdOfType DEF AuditRow
<1>3. /\ Len(audit) \in Nat /\ EntitiesThere /\ SeedsThere /\ DOMAIN issue = 1..Len(issue)
      /\ Len(issue) \in Nat /\ VersionLoaded(c)
  BY <1>1, AuditedType, Domains DEF AuditInv
<1>4. r = handler[c].req
  BY DEF Commits
<1> HIDE DEF org, seen, row
<1>5. /\ \A a : Audited(a, i)' = Audited(a, i) \cup
                  (IF r.op = a /\ IdOf(r) = i THEN {new} ELSE {})
      /\ Changed(i)' = Changed(i) \cup
           (IF r.op \in IssueChanges /\ IdOf(r) = i THEN {new} ELSE {})
      /\ \A n \in 1..Len(audit) : audit'[n] = audit[n]
      /\ audit'[new] = row
  <2>1. TablesOK /\ row \in AuditRow /\ audit' = Append(audit, row)
    BY <1>1, <1>2
  <2>2. /\ \A a : Audited(a, i)' = Audited(a, i) \cup
                    (IF row.action = a /\ row.entity = i THEN {new} ELSE {})
        /\ Changed(i)' = Changed(i) \cup
             (IF row.action \in IssueChanges /\ row.entity = i THEN {new} ELSE {})
        /\ \A n \in 1..Len(audit) : audit'[n] = audit[n]
        /\ audit'[new] = row
    BY <2>1, AuditAppend
  <2>3. QED
    BY <1>2, <2>2
<1>6. /\ Audited("issue.create", i) \subseteq 1..Len(audit) /\ Changed(i) \subseteq 1..Len(audit)
      /\ Cardinality(Changed(i)) \in Nat
  BY <1>1, AuditedType, FS_CardinalityType
<1>7. /\ "issue.create" \notin IssueChanges /\ "issue.delete" \in IssueChanges
      /\ \A op \in IssueChanges : op \notin {"project.create", "user.create", "issue.create"}
  BY DEF IssueChanges, IssueOps
<1>8. CASE i \in DOMAIN issue /\ issue'[i] = issue[i] /\ ~(r.op \in IssueChanges /\ i = r.id)
  <2>1. r.op \in IssueChanges => IdOf(r) # i
    BY <1>1, <1>7, <1>8, IdOfType
  <2>2. r.op = "issue.create" => IdOf(r) # i
    BY <1>1, <1>3, <1>8, IdOfType
  <2>3. /\ Audited("issue.create", i)' = Audited("issue.create", i) /\ Changed(i)' = Changed(i)
        /\ Audited("issue.delete", i)' = Audited("issue.delete", i)
    BY <1>5, <1>7, <2>1, <2>2
  <2>4. IssueAudited(i)
    BY <1>8 DEF AuditInv
  <2>5. \A n \in Audited("issue.create", i) \cup Changed(i) : audit'[n].org = issue'[i].org
    BY <1>5, <1>6, <1>8, <2>4 DEF IssueAudited
  <2>6. QED
    BY <1>8, <2>3, <2>4, <2>5 DEF IssueAudited
<1>9. CASE /\ r.op \in IssueChanges /\ i = r.id /\ i \in DOMAIN issue
           /\ issue'[i] = Touched(issue[i], r, seen)
  <2>1. IdOf(r) = i
    BY <1>1, <1>7, <1>9, IdOfType
  <2>2. /\ Audited("issue.create", i)' = Audited("issue.create", i)
        /\ Changed(i)' = Changed(i) \cup {new}
    <3>1. r.op \in IssueChanges /\ r.op # "issue.create"
      BY <1>7, <1>9
    <3>2. Audited("issue.create", i)' = Audited("issue.create", i)
      BY <1>5, <3>1
    <3>3. Changed(i)' = Changed(i) \cup {new}
      BY <1>5, <2>1, <3>1
    <3>4. QED
      BY <3>2, <3>3
  <2>3. Audited("issue.delete", i)' =
          Audited("issue.delete", i) \cup (IF r.op = "issue.delete" THEN {new} ELSE {})
    BY <1>5, <2>1
  <2>4. IssueAudited(i) /\ issue[i] \in IssueRow
    BY <1>1, <1>9 DEF AuditInv, TablesOK
  <2>5. /\ issue'[i].org = issue[i].org /\ issue[i].org = org
        /\ issue'[i].version = seen.version + 1
        /\ issue'[i].deleted = (issue[i].deleted \/ r.op = "issue.delete")
    BY <1>1, <1>9, <2>4 DEF Touched, IssueRow, Founded
  <2>6. \A n \in Audited("issue.create", i), m \in Changed(i) \cup {new} : n < m
    BY <1>3, <1>6, <2>4 DEF IssueAudited
  <2>7. issue'[i].version <= Cardinality(Changed(i) \cup {new}) + 1
    <3>1. Cardinality(Changed(i) \cup {new}) = Cardinality(Changed(i)) + 1
      BY <1>3, <1>6, OneMore
    <3>2. seen.version <= Cardinality(Changed(i)) + 1
      BY <1>3, <1>4, <1>9 DEF VersionLoaded, seen
    <3>3. seen.version \in Nat
      BY <1>1 DEF Seen
    <3>4. QED
      BY <1>6, <2>5, <3>1, <3>2, <3>3
  <2>8. \A n \in Audited("issue.create", i) \cup (Changed(i) \cup {new}) :
          audit'[n].org = issue'[i].org
    BY <1>2, <1>5, <1>6, <2>4, <2>5 DEF IssueAudited
  <2>9. issue'[i].deleted <=> Audited("issue.delete", i)' # {}
    BY <2>3, <2>4, <2>5 DEF IssueAudited
  <2>10. QED
    BY <2>2, <2>4, <2>6, <2>7, <2>8, <2>9 DEF IssueAudited
<1>10. CASE /\ r.op = "issue.create" /\ i = Len(issue) + 1
            /\ issue'[i] = [org |-> org, project |-> r.id, assignee |-> r.to, status |-> "open",
                            version |-> 1, deleted |-> FALSE]
  <2>1. IdOf(r) = i
    BY <1>1, <1>10, IdOfType
  <2>2. i \notin DOMAIN issue
    BY <1>3, <1>10
  <2>3. /\ Audited("issue.create", i) = {} /\ Changed(i) = {} /\ Audited("issue.delete", i) = {}
    BY <1>1, <1>3, <2>2, NoHistory
  <2>4. /\ Audited("issue.create", i)' = {new} /\ Changed(i)' = {}
        /\ Audited("issue.delete", i)' = {}
    BY <1>5, <1>7, <1>10, <2>1, <2>3
  <2>5. i \notin DOMAIN SeedIssues
    <3>1. SeedIssues \in Seq(IssueRow)
      BY TrackerAssumption
    <3>2. DOMAIN SeedIssues = 1..Len(SeedIssues) /\ Len(SeedIssues) \in Nat
      BY <3>1
    <3>3. QED
      BY <1>3, <1>10, <3>2 DEF SeedsThere
  <2>6. Cardinality({new}) = 1 /\ Cardinality({}) = 0
    BY FS_EmptySet, FS_Singleton
  <2>7. /\ issue'[i].version = 1 /\ issue'[i].deleted = FALSE /\ issue'[i].org = org
        /\ audit'[new].org = org
    BY <1>2, <1>5, <1>10
  <2>8. 1 <= Cardinality({}) + 1
    BY <2>6
  <2>9. QED
    BY <2>4, <2>5, <2>6, <2>7, <2>8 DEF IssueAudited
<1>11. QED
  BY <1>1, <1>8, <1>9, <1>10, IssuesAfter

\* As IssuesAfter, for projects and for users.
LEMMA ProjectsAfter ==
  ASSUME TablesOK, NEW r \in Requests, NEW org \in Orgs, NEW seen \in Seen,
         Founded(r, org), Change(r, org, seen), NEW p \in DOMAIN project'
  PROVE  \/ p \in DOMAIN project /\ project'[p] = project[p]
            /\ ~(r.op = "project.archive" /\ p = r.id)
         \/ /\ r.op = "project.archive" /\ p = r.id /\ p \in DOMAIN project
            /\ project'[p].archived = TRUE
         \/ /\ r.op = "project.create" /\ p = Len(project) + 1
            /\ project'[p].archived = FALSE
<1>1. CASE project' = project /\ r.op # "project.archive"
  BY <1>1
<1>2. CASE r.op = "project.create" /\ CreateProject(r, org)
  <2>1. project \in Seq(ProjectRow)
        /\ project' = Append(project, [org |-> org, key |-> r.word, archived |-> FALSE])
    BY <1>2 DEF CreateProject, TablesOK
  <2>2. QED
    BY <1>2, <2>1, AppendProperties
<1>3. CASE r.op = "project.archive" /\ ArchiveProject(r)
  <2>1. project \in Seq(ProjectRow) /\ r.id \in DOMAIN project
        /\ project' = [project EXCEPT ![r.id].archived = TRUE]
    BY <1>3 DEF ArchiveProject, TablesOK, Founded
  <2>2. project[r.id] \in ProjectRow
    BY <2>1
  <2>3. QED
    BY <1>3, <2>1, <2>2 DEF ProjectRow
<1>4. QED
  BY <1>1, <1>2, <1>3 DEF Change, UpdateProject, AddMember, RemoveMember, CreateUser, UpdateUser,
     CreateIssue, ChangeIssue, IssueChanges, IssueOps

LEMMA UsersAfter ==
  ASSUME TablesOK, NEW r \in Requests, NEW org \in Orgs, NEW seen \in Seen,
         Change(r, org, seen), NEW u \in DOMAIN user'
  PROVE  u \in DOMAIN user \/ (r.op = "user.create" /\ u = Len(user) + 1)
<1>1. CASE r.op = "user.create" /\ CreateUser(r, org)
  <2>1. user \in Seq(UserRow)
        /\ user' = Append(user, [org |-> org, email |-> r.word, role |-> "member"])
    BY <1>1 DEF CreateUser, TablesOK
  <2>2. QED
    BY <1>1, <2>1, AppendProperties
<1>2. CASE UpdateUser(r, seen)
  BY <1>2 DEF UpdateUser
<1>3. CASE user' = user
  BY <1>3
<1>4. QED
  BY <1>1, <1>2, <1>3 DEF Change, CreateProject, UpdateProject, ArchiveProject, AddMember,
     RemoveMember, CreateIssue, ChangeIssue

LEMMA CommitProjectAudited ==
  ASSUME TypeInv, AuditInv, NEW c \in Clients, NEW r \in Requests, handler[c].pc = "write",
         Commits(c, r), NEW p \in DOMAIN project'
  PROVE  ProjectAudited(p)'
<1> DEFINE org == OrgOf(r)
           seen == handler[c].seen
           row == [org |-> org, actor |-> r.by, action |-> r.op, entity |-> IdOf(r)]
           new == Len(audit) + 1
<1>1. /\ TablesOK /\ TablesOK' /\ RowsKept /\ Founded(r, org) /\ org \in Orgs /\ seen \in Seen
      /\ Change(r, org, seen) /\ audit' = Append(audit, row)
  BY CommitEffect DEF TypeInv, Commits
<1>2. row \in AuditRow /\ row.action = r.op /\ row.entity = IdOf(r)
  BY <1>1, RequestType, IdOfType DEF AuditRow
<1>3. /\ EntitiesThere /\ SeedsThere /\ DOMAIN project = 1..Len(project) /\ Len(project) \in Nat
  BY <1>1, Domains DEF AuditInv
<1> HIDE DEF org, seen, row
<1>4. \A a : Audited(a, p)' = Audited(a, p) \cup
               (IF r.op = a /\ IdOf(r) = p THEN {new} ELSE {})
  <2>1. TablesOK /\ row \in AuditRow /\ audit' = Append(audit, row)
    BY <1>1, <1>2
  <2>2. \A a : Audited(a, p)' = Audited(a, p) \cup
                 (IF row.action = a /\ row.entity = p THEN {new} ELSE {})
    BY <2>1, AuditAppend
  <2>3. QED
    BY <1>2, <2>2
<1>5. CASE p \in DOMAIN project /\ project'[p] = project[p] /\ ~(r.op = "project.archive" /\ p = r.id)
  <2>1. r.op \in {"project.create", "project.archive"} => IdOf(r) # p
    BY <1>1, <1>3, <1>5, IdOfType
  <2>2. /\ Audited("project.create", p)' = Audited("project.create", p)
        /\ Audited("project.archive", p)' = Audited("project.archive", p)
    BY <1>4, <2>1
  <2>3. ProjectAudited(p)
    BY <1>5 DEF AuditInv
  <2>4. QED
    BY <1>5, <2>2, <2>3 DEF ProjectAudited
<1>6. CASE /\ r.op = "project.archive" /\ p = r.id /\ p \in DOMAIN project
           /\ project'[p].archived = TRUE
  <2>1. IdOf(r) = p
    BY <1>1, <1>6, IdOfType
  <2>2. /\ Audited("project.create", p)' = Audited("project.create", p)
        /\ Audited("project.archive", p)' = Audited("project.archive", p) \cup {new}
    BY <1>4, <1>6, <2>1
  <2>3. ProjectAudited(p)
    BY <1>6 DEF AuditInv
  <2>4. QED
    BY <1>6, <2>2, <2>3 DEF ProjectAudited
<1>7. CASE r.op = "project.create" /\ p = Len(project) + 1 /\ project'[p].archived = FALSE
  <2>1. IdOf(r) = p
    BY <1>1, <1>7, IdOfType
  <2>2. Audited("project.create", p) = {} /\ Audited("project.archive", p) = {}
    BY <1>1, <1>3, <1>7, NoHistory
  <2>3. Audited("project.create", p)' = {new} /\ Audited("project.archive", p)' = {}
    BY <1>4, <1>7, <2>1, <2>2
  <2>4. p \notin DOMAIN SeedProjects
    <3>1. SeedProjects \in Seq(ProjectRow)
      BY TrackerAssumption
    <3>2. DOMAIN SeedProjects = 1..Len(SeedProjects) /\ Len(SeedProjects) \in Nat
      BY <3>1
    <3>3. QED
      BY <1>3, <1>7, <3>2 DEF SeedsThere
  <2>5. Cardinality({new}) = 1
    BY FS_Singleton
  <2>6. QED
    BY <1>7, <2>3, <2>4, <2>5 DEF ProjectAudited
<1>8. QED
  BY <1>1, <1>5, <1>6, <1>7, ProjectsAfter

LEMMA CommitUserAudited ==
  ASSUME TypeInv, AuditInv, NEW c \in Clients, NEW r \in Requests, handler[c].pc = "write",
         Commits(c, r), NEW u \in DOMAIN user'
  PROVE  UserAudited(u)'
<1> DEFINE org == OrgOf(r)
           seen == handler[c].seen
           row == [org |-> org, actor |-> r.by, action |-> r.op, entity |-> IdOf(r)]
           new == Len(audit) + 1
<1>1. /\ TablesOK /\ TablesOK' /\ RowsKept /\ org \in Orgs /\ seen \in Seen
      /\ Change(r, org, seen) /\ audit' = Append(audit, row) /\ Seeded
  BY CommitEffect DEF TypeInv, Commits
<1>2. row \in AuditRow /\ row.action = r.op /\ row.entity = IdOf(r)
  BY <1>1, RequestType, IdOfType DEF AuditRow
<1>3. EntitiesThere /\ DOMAIN user = 1..Len(user) /\ Len(user) \in Nat
  BY <1>1, Domains DEF AuditInv
<1> HIDE DEF org, seen, row
<1>4. Audited("user.create", u)' = Audited("user.create", u) \cup
        (IF r.op = "user.create" /\ IdOf(r) = u THEN {new} ELSE {})
  <2>1. TablesOK /\ row \in AuditRow /\ audit' = Append(audit, row)
    BY <1>1, <1>2
  <2>2. Audited("user.create", u)' = Audited("user.create", u) \cup
          (IF row.action = "user.create" /\ row.entity = u THEN {new} ELSE {})
    BY <2>1, AuditAppend
  <2>3. QED
    BY <1>2, <2>2
<1>5. CASE u \in DOMAIN user
  <2>1. r.op = "user.create" => IdOf(r) # u
    BY <1>1, <1>3, <1>5, IdOfType
  <2>2. UserAudited(u) /\ Audited("user.create", u)' = Audited("user.create", u)
    BY <1>4, <1>5, <2>1 DEF AuditInv
  <2>3. QED
    BY <2>2 DEF UserAudited
<1>6. CASE r.op = "user.create" /\ u = Len(user) + 1
  <2>1. IdOf(r) = u
    BY <1>1, <1>6, IdOfType
  <2>2. Audited("user.create", u) = {}
    BY <1>1, <1>3, <1>6, NoHistory
  <2>3. Audited("user.create", u)' = {new}
    BY <1>4, <1>6, <2>1, <2>2
  <2>4. u \notin DOMAIN SeedUsers
    <3>1. SeedUsers \in Seq(UserRow)
      BY TrackerAssumption
    <3>2. DOMAIN SeedUsers = 1..Len(SeedUsers) /\ Len(SeedUsers) \in Nat
      BY <3>1
    <3>3. QED
      BY <1>1, <1>3, <1>6, <3>2 DEF Seeded
  <2>5. Cardinality({new}) = 1
    BY FS_Singleton
  <2>6. QED
    BY <2>3, <2>4, <2>5 DEF UserAudited
<1>7. QED
  BY <1>1, <1>5, <1>6, UsersAfter

\* A request that makes a row makes the one that it names in the log.
LEMMA RowMade ==
  ASSUME TablesOK, NEW r \in Requests, NEW org \in Orgs, NEW seen \in Seen, Change(r, org, seen)
  PROVE  /\ r.op = "issue.create" => Len(issue) + 1 \in DOMAIN issue'
         /\ r.op = "project.create" => Len(project) + 1 \in DOMAIN project'
         /\ r.op = "user.create" => Len(user) + 1 \in DOMAIN user'
<1>1. ASSUME r.op = "issue.create"
      PROVE  Len(issue) + 1 \in DOMAIN issue'
  <2>1. CreateIssue(r, org)
    BY <1>1 DEF Change, IssueChanges
  <2>2. QED
    BY <2>1, AppendProperties DEF CreateIssue, TablesOK
<1>2. ASSUME r.op = "project.create"
      PROVE  Len(project) + 1 \in DOMAIN project'
  <2>1. CreateProject(r, org)
    BY <1>2 DEF Change, IssueChanges, IssueOps
  <2>2. QED
    BY <2>1, AppendProperties DEF CreateProject, TablesOK
<1>3. ASSUME r.op = "user.create"
      PROVE  Len(user) + 1 \in DOMAIN user'
  <2>1. CreateUser(r, org)
    BY <1>3 DEF Change, IssueChanges, IssueOps
  <2>2. QED
    BY <2>1, AppendProperties DEF CreateUser, TablesOK
<1>4. QED
  BY <1>1, <1>2, <1>3

LEMMA CommitEntities ==
  ASSUME TypeInv, AuditInv, NEW c \in Clients, NEW r \in Requests, handler[c].pc = "write",
         Commits(c, r)
  PROVE  EntitiesThere' /\ SeedsThere' /\ \A i : Changed(i) \subseteq Changed(i)'
<1> DEFINE org == OrgOf(r)
           seen == handler[c].seen
           row == [org |-> org, actor |-> r.by, action |-> r.op, entity |-> IdOf(r)]
           new == Len(audit) + 1
<1>1. /\ TablesOK /\ TablesOK' /\ RowsKept /\ Founded(r, org) /\ org \in Orgs /\ seen \in Seen
      /\ Change(r, org, seen) /\ audit' = Append(audit, row)
  BY CommitEffect DEF TypeInv, Commits
<1>2. row \in AuditRow /\ row.action = r.op /\ row.entity = IdOf(r)
  BY <1>1, RequestType, IdOfType DEF AuditRow
<1>3. EntitiesThere /\ SeedsThere
  BY DEF AuditInv
<1> HIDE DEF org, seen, row
<1>4. /\ \A n \in 1..Len(audit) : audit'[n] = audit[n]
      /\ audit'[new] = row /\ DOMAIN audit' = 1..new /\ DOMAIN audit = 1..Len(audit)
      /\ Len(audit) \in Nat
  BY <1>1, <1>2, AuditAppend, AuditedType
<1>5. \A i : Changed(i) \subseteq Changed(i)'
  BY <1>1, <1>2, AuditAppend
<1>6. /\ \A i \in DOMAIN issue : i \in DOMAIN issue'
      /\ \A p \in DOMAIN project : p \in DOMAIN project'
      /\ \A u \in DOMAIN user : u \in DOMAIN user'
  BY <1>1, Domains
<1>7. /\ r.op \in IssueOps => IdOf(r) \in DOMAIN issue'
      /\ r.op \in {"project.create", "project.archive"} => IdOf(r) \in DOMAIN project'
      /\ r.op = "user.create" => IdOf(r) \in DOMAIN user'
  <2>1. CASE r.op \in {"issue.create", "project.create", "user.create"}
    BY <1>1, <2>1, RowMade, IdOfType DEF IssueOps
  <2>2. CASE r.op \in IssueChanges
    <3>1. r.op \notin {"project.create", "user.create", "issue.create", "project.archive"}
      BY <2>2 DEF IssueChanges, IssueOps
    <3>2. IdOf(r) = r.id /\ r.id \in DOMAIN issue
      BY <1>1, <2>2, <3>1, IdOfType DEF Founded
    <3>3. QED
      BY <1>6, <3>1, <3>2
  <2>3. CASE r.op = "project.archive"
    <3>1. IdOf(r) = r.id /\ r.id \in DOMAIN project
      BY <1>1, <2>3, IdOfType DEF Founded
    <3>2. QED
      BY <1>6, <2>3, <3>1 DEF IssueOps
  <2>4. QED
    BY <2>1, <2>2, <2>3 DEF IssueChanges
<1>8. EntitiesThere'
  <2>1. SUFFICES ASSUME NEW n \in DOMAIN audit'
                 PROVE  /\ audit'[n].action \in IssueOps => audit'[n].entity \in DOMAIN issue'
                        /\ audit'[n].action \in {"project.create", "project.archive"} =>
                             audit'[n].entity \in DOMAIN project'
                        /\ audit'[n].action = "user.create" => audit'[n].entity \in DOMAIN user'
    BY DEF EntitiesThere
  <2>2. CASE n = new
    BY <1>2, <1>4, <1>7, <2>2
  <2>3. CASE n \in 1..Len(audit)
    BY <1>3, <1>4, <1>6, <2>3 DEF EntitiesThere
  <2>4. QED
    BY <1>4, <2>2, <2>3
<1>9. SeedsThere'
  <2>1. SeedProjects \in Seq(ProjectRow) /\ SeedIssues \in Seq(IssueRow)
    BY TrackerAssumption
  <2>2. /\ Len(SeedProjects) \in Nat /\ Len(SeedIssues) \in Nat
        /\ Len(project) \in Nat /\ Len(issue) \in Nat /\ Len(project') \in Nat /\ Len(issue') \in Nat
    BY <1>1, <2>1 DEF TablesOK
  <2>3. QED
    BY <1>1, <1>3, <2>2 DEF SeedsThere, RowsKept
<1>10. QED
  BY <1>5, <1>8, <1>9

\* A handler that is about to write was so before, or has just loaded its row.
LEMMA HandlerAfter ==
  ASSUME TypeInv, [Next]_vars, NEW d \in Clients
  PROVE  \/ handler'[d] = handler[d]
         \/ handler'[d].pc # "write"
         \/ /\ UNCHANGED tables
            /\ \E r \in Requests : /\ Refusal(r, OrgOf(r)) = 0 /\ handler'[d].req = r
                                   /\ handler'[d].seen = Loaded(r)
<1>1. handler \in [Clients -> Handler]
  BY DEF TypeInv, HandlersOK
<1>2. ASSUME NEW c \in Clients, NEW r \in Requests, Receive(c, r)
      PROVE  handler'[d] = handler[d] \/ handler'[d].pc # "write"
  BY <1>1, <1>2 DEF Receive, Free
<1>3. ASSUME NEW c \in Clients, Goto(c, "key") \/ Goto(c, "find")
      PROVE  handler'[d] = handler[d] \/ handler'[d].pc # "write"
  BY <1>1, <1>3 DEF Goto, Handler
<1>4. ASSUME NEW c \in Clients, NEW s, NEW id, Reply(c, s, id)
      PROVE  handler'[d] = handler[d] \/ handler'[d].pc # "write"
  BY <1>1, <1>4, ReplyFacts DEF TypeInv
<1>5. ASSUME NEW c \in Clients, Authorize(c)
      PROVE  handler'[d] = handler[d] \/ handler'[d].pc # "write"
  BY <1>3, <1>4, <1>5 DEF Authorize
<1>6. ASSUME NEW c \in Clients, LookUpKey(c)
      PROVE  handler'[d] = handler[d] \/ handler'[d].pc # "write"
  <2>1. Goto(c, "find") \/ Reply(c, 409, 0) \/ \E k \in stored : Reply(c, 201, k.id)
    BY <1>6 DEF LookUpKey, Kept
  <2>2. ASSUME NEW k \in stored, Reply(c, 201, k.id)
        PROVE  handler'[d] = handler[d] \/ handler'[d].pc # "write"
    BY <1>4, <2>2
  <2>3. QED
    BY <1>3, <1>4, <2>1, <2>2
<1>7. ASSUME NEW c \in Clients, Find(c)
      PROVE  \/ handler'[d] = handler[d] \/ handler'[d].pc # "write"
             \/ /\ UNCHANGED tables
                /\ \E r \in Requests : /\ Refusal(r, OrgOf(r)) = 0 /\ handler'[d].req = r
                                       /\ handler'[d].seen = Loaded(r)
  <2>1. handler[c].req \in Requests /\ UNCHANGED tables /\ handler[c] \in Handler
    BY <1>7 DEF Find, TypeInv, HandlersOK
  <2>2. PICK r \in Requests : r = handler[c].req
    BY <2>1
  <2>3. CASE Reply(c, Refusal(r, OrgOf(r)), 0)
    BY <1>4, <2>3
  <2>4. CASE /\ Refusal(r, OrgOf(r)) = 0
             /\ handler' = [handler EXCEPT ![c].pc = "write", ![c].seen = Loaded(r)]
    <3>1. d # c => handler'[d] = handler[d]
      BY <1>1, <2>4
    <3>2. handler'[c].req = r /\ handler'[c].seen = Loaded(r)
      BY <1>1, <2>1, <2>2, <2>4 DEF Handler
    <3>3. QED
      BY <2>1, <2>4, <3>1, <3>2
  <2>5. QED
    BY <1>7, <2>2, <2>3, <2>4, FindUnfold
<1>8. ASSUME NEW c \in Clients, Write(c)
      PROVE  handler'[d] = handler[d] \/ handler'[d].pc # "write"
  BY <1>4, <1>8, WriteUnfold DEF Fails, Commits
<1>9. QED
  BY <1>2, <1>5, <1>6, <1>7, <1>8 DEF Next, ReadPage, vars

LEMMA VersionsKept ==
  ASSUME TypeInv, AuditInv, [Next]_vars, TypeInv', \A i : Changed(i) \subseteq Changed(i)',
         NEW d \in Clients
  PROVE  VersionLoaded(d)'
<1>1. SUFFICES ASSUME NEW i, handler'[d].pc = "write", handler'[d].req.op \in IssueChanges,
                      handler'[d].req.id = i
               PROVE  handler'[d].seen.version <= Cardinality(Changed(i)') + 1
  BY DEF VersionLoaded
<1>2. /\ Cardinality(Changed(i)) <= Cardinality(Changed(i)')
      /\ Cardinality(Changed(i)) \in Nat /\ Cardinality(Changed(i)') \in Nat
  <2>1. IsFiniteSet(Changed(i))
    BY AuditedType DEF TypeInv
  <2>2. Len(audit') \in Nat /\ DOMAIN audit' = 1..Len(audit')
    BY DEF TypeInv, TablesOK
  <2>3. Changed(i)' \in SUBSET (1..Len(audit'))
    BY <2>2 DEF Changed, Audited
  <2>4. IsFiniteSet(Changed(i)') /\ Cardinality(Changed(i)') \in Nat
    BY <2>2, <2>3, OneMore
  <2>5. QED
    BY <2>1, <2>4, FS_Subset, FS_CardinalityType
<1>3. handler'[d].seen.version \in Nat
  BY DEF TypeInv, HandlersOK, Handler, Seen
<1>4. handler'[d].seen.version <= Cardinality(Changed(i)) + 1
  <2>1. CASE handler'[d] = handler[d]
    BY <1>1, <2>1 DEF AuditInv, VersionLoaded
  <2>2. ASSUME NEW r \in Requests, Refusal(r, OrgOf(r)) = 0, handler'[d].req = r,
               handler'[d].seen = Loaded(r)
        PROVE  handler'[d].seen.version <= Cardinality(Changed(i)) + 1
    <3>1. r.op \in IssueChanges /\ r.id = i
      BY <1>1, <2>2
    <3>2. i \in DOMAIN issue
      BY <2>2, <3>1, FindFounds DEF TypeInv, Founded
    <3>3. Loaded(r).version = issue[i].version
      BY <3>1 DEF Loaded, Unread
    <3>4. issue[i].version <= Cardinality(Changed(i)) + 1
      BY <3>2 DEF AuditInv, IssueAudited
    <3>5. QED
      BY <2>2, <3>3, <3>4
  <2>3. QED
    BY <1>1, <2>1, <2>2, HandlerAfter
<1>5. QED
  BY <1>2, <1>3, <1>4

\* The audit log tells what is in the tables, whatever requests interleave.
THEOREM AuditCorrect == Spec => []AuditTellsWhatIsThere
<1> DEFINE Inv == TypeInv /\ AuditInv
<1>1. Init => Inv
  BY InitTypeInv, InitAudit
<1>2. Inv /\ [Next]_vars => Inv'
  <2>1. SUFFICES ASSUME TypeInv, AuditInv, [Next]_vars
                 PROVE  Inv'
    OBVIOUS
  <2>2. TypeInv'
    BY <2>1, NextTypeInv
  <2>3. CASE UNCHANGED tables
    <3>1. \A i : Changed(i) \subseteq Changed(i)'
      BY <2>3 DEF tables, Changed, Audited
    <3>2. \A d \in Clients : VersionLoaded(d)'
      BY <2>1, <2>2, <3>1, VersionsKept
    <3>3. /\ \A a, i : Audited(a, i)' = Audited(a, i)
          /\ \A i : Changed(i)' = Changed(i)
      BY <2>3 DEF tables, Changed, Audited
    <3>4. \A i \in DOMAIN issue' : IssueAudited(i)'
      BY <2>1, <2>3, <3>3 DEF tables, AuditInv, IssueAudited
    <3>5. \A p \in DOMAIN project' : ProjectAudited(p)'
      BY <2>1, <2>3, <3>3 DEF tables, AuditInv, ProjectAudited
    <3>6. \A u \in DOMAIN user' : UserAudited(u)'
      BY <2>1, <2>3, <3>3 DEF tables, AuditInv, UserAudited
    <3>7. EntitiesThere' /\ SeedsThere'
      BY <2>1, <2>3 DEF tables, AuditInv, EntitiesThere, SeedsThere
    <3>8. QED
      BY <2>2, <3>2, <3>4, <3>5, <3>6, <3>7 DEF AuditInv
  <2>4. ASSUME NEW c \in Clients, NEW r \in Requests, handler[c].pc = "write", Commits(c, r)
        PROVE  Inv'
    <3>1. EntitiesThere' /\ SeedsThere' /\ \A i : Changed(i) \subseteq Changed(i)'
      BY <2>1, <2>4, CommitEntities
    <3>2. \A d \in Clients : VersionLoaded(d)'
      BY <2>1, <2>2, <3>1, VersionsKept
    <3>3. /\ \A i \in DOMAIN issue' : IssueAudited(i)'
          /\ \A p \in DOMAIN project' : ProjectAudited(p)'
          /\ \A u \in DOMAIN user' : UserAudited(u)'
      BY <2>1, <2>4, CommitIssueAudited, CommitProjectAudited, CommitUserAudited
    <3>4. QED
      BY <2>2, <3>1, <3>2, <3>3 DEF AuditInv
  <2>5. QED
    BY <2>1, <2>3, <2>4, TablesSame
<1>3. Inv => AuditTellsWhatIsThere
  BY AuditInvTells
<1>4. QED
  BY <1>1, <1>2, <1>3, PTL DEF Spec
=============================================================================
