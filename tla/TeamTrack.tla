----------------------------- MODULE TeamTrack ------------------------------
(***************************************************************************)
(* src/platform/teamtrack/app: the multi-tenant issue tracker that the     *)
(* agents extend.  Requests are handled in threads, each with a database   *)
(* session of its own.  What a request reads before its first write is in  *)
(* no transaction (SQLite's driver opens one at the first write), so that  *)
(* other requests commit in between; its writes are one transaction.  A    *)
(* row's id is its index in its table: no row with an id is ever removed.  *)
(***************************************************************************)
EXTENDS Naturals, Sequences, FiniteSets, FiniteSetsExt

CONSTANTS
  Clients,       \* request handlers that run at the same time
  Requests,      \* the requests clients send
  NoKey,         \* no Idempotency-Key header
  Orgs,
  SeedUsers, SeedProjects, SeedIssues, SeedMembers,   \* the rows that seed() inserts
  PageLimit,     \* the limit parameter of a list request
  Reader,        \* the user who pages through ListedProject
  ListedProject,
  MaxRequests    \* bound on the requests sent

Roles == {"admin", "member", "viewer"}
Statuses == {"open", "in_progress", "done"}

\* services.issues.TRANSITIONS
TRANSITIONS == {<<"open", "in_progress">>, <<"in_progress", "open">>,
                <<"in_progress", "done">>, <<"done", "open">>}

\* The writing endpoints, of each router.
ProjectOps == {"project.create", "project.update", "project.archive"}
MemberOps == {"member.add", "member.remove"}
UserOps == {"user.create", "user.update"}
IssueOps == {"issue.create", "issue.update", "issue.assign", "issue.transition", "issue.delete"}
Ops == ProjectOps \cup MemberOps \cup UserOps \cup IssueOps
IssueChanges == IssueOps \ {"issue.create"}

\* Those that require_admin guards (require_writer does the others), and those
\* that run_once wraps.
AdminOps == MemberOps \cup UserOps \cup {"project.archive"}
Keyed == {"project.create", "user.create"}

\* by: the user of the token; id: the id in the path; to: a user id in the
\* body (0: none); word: what else is in the body (a key, an e-mail address, a
\* role or a status).
Request == [op : Ops, by : Nat, id : Nat, to : Nat, word : STRING,
            key : STRING]
UserRow == [org : Orgs, email : STRING, role : Roles]
ProjectRow == [org : Orgs, key : STRING, archived : BOOLEAN]
IssueRow == [org : Orgs, project : Nat, assignee : Nat, status : Statuses, version : Nat,
             deleted : BOOLEAN]
AuditRow == [org : Orgs, actor : Nat, action : Ops, entity : Nat]

ASSUME TrackerAssumption ==
  /\ Requests \subseteq Request
  /\ \A r \in Requests : r.op = "user.update" => r.word \in Roles
  /\ NoKey \in STRING
  /\ SeedUsers \in Seq(UserRow)
  /\ SeedProjects \in Seq(ProjectRow)
  /\ SeedIssues \in Seq(IssueRow)
  /\ \A p \in DOMAIN SeedProjects : ~SeedProjects[p].archived
  /\ \A i \in DOMAIN SeedIssues : SeedIssues[i].version = 1 /\ ~SeedIssues[i].deleted
  /\ \A r \in Requests : r.by \in DOMAIN SeedUsers
  /\ \A i \in DOMAIN SeedIssues :
       /\ SeedIssues[i].assignee \in {0} \cup DOMAIN SeedUsers
       /\ SeedIssues[i].assignee # 0 => SeedUsers[SeedIssues[i].assignee].org = SeedIssues[i].org
       /\ SeedIssues[i].project \in DOMAIN SeedProjects
       /\ SeedProjects[SeedIssues[i].project].org = SeedIssues[i].org
  /\ SeedMembers \subseteq (DOMAIN SeedProjects) \X (DOMAIN SeedUsers)
  /\ \A m \in SeedMembers : SeedProjects[m[1]].org = SeedUsers[m[2]].org
  /\ Reader \in DOMAIN SeedUsers
  /\ PageLimit \in Nat \ {0}
  /\ MaxRequests \in Nat

VARIABLES
  user, project, issue,   \* the tables with ids
  member,    \* project_members: pairs of project and user
  audit,     \* the audit log
  stored,    \* idempotency_keys
  handler,   \* per client: its request, its place and what it read
  sent,      \* how many requests were sent
  pager      \* a reader that follows next_cursor to the end

tables == <<user, project, issue, member, audit, stored>>
vars == <<tables, handler, sent, pager>>

-----------------------------------------------------------------------------
(* Lookups: every one but that of an e-mail address is within an org.       *)

\* Mutant of ProjectFound: the query has no org_id.
AnyProjectFound(org, p) == p \in DOMAIN project /\ ~project[p].archived

\* repositories.projects.get, users.get and issues.get
ProjectFound(org, p) == p \in DOMAIN project /\ project[p].org = org /\ ~project[p].archived
UserFound(org, u) == u \in DOMAIN user /\ user[u].org = org
IssueFound(org, i) == i \in DOMAIN issue /\ issue[i].org = org /\ ~issue[i].deleted

\* services.projects: NotFound and Conflict are raised before anything is
\* written.  A key that is taken also fails the table's unique constraint.
KeyTaken(r, org) == \E p \in DOMAIN project : project[p].org = org /\ project[p].key = r.word
ProjectRefusal(r, org) ==
  IF r.op = "project.create" THEN IF KeyTaken(r, org) THEN 409 ELSE 0
  ELSE IF ProjectFound(org, r.id) THEN 0 ELSE 404

\* services.members
IsMember(r) == <<r.id, r.to>> \in member
MemberRefusal(r, org) ==
  IF ~ProjectFound(org, r.id) \/ (r.op = "member.remove" /\ ~IsMember(r)) THEN 404
  ELSE IF r.op = "member.add" /\ ~UserFound(org, r.to) THEN 422
  ELSE IF r.op = "member.add" /\ IsMember(r) THEN 409 ELSE 0

\* services.users
EmailTaken(r) == \E u \in DOMAIN user : user[u].email = r.word
UserRefusal(r, org) ==
  IF r.op = "user.create" THEN IF EmailTaken(r) THEN 409 ELSE 0
  ELSE IF UserFound(org, r.id) THEN 0 ELSE 404

\* Mutant of AssigneeFits: any user can be given an issue.
AssigneeExists(r, org) == r.to \in {0} \cup DOMAIN user

\* services.issues: _check_assignee, the lookups, and the status machine (the
\* field rules aside, which no row depends on)
AssigneeFits(r, org) == r.to = 0 \/ UserFound(org, r.to)

\* Mutant of IssueRefusal: an issue may be moved from anywhere to anywhere.
IssueRefusalAnyMove(r, org) ==
  IF r.op = "issue.create" /\ ~ProjectFound(org, r.id) THEN 404
  ELSE IF r.op # "issue.create" /\ ~IssueFound(org, r.id) THEN 404
  ELSE IF r.op \in {"issue.create", "issue.assign"} /\ ~AssigneeFits(r, org) THEN 422 ELSE 0

IssueRefusal(r, org) ==
  IF r.op = "issue.create" /\ ~ProjectFound(org, r.id) THEN 404
  ELSE IF r.op # "issue.create" /\ ~IssueFound(org, r.id) THEN 404
  ELSE IF r.op \in {"issue.create", "issue.assign"} /\ ~AssigneeFits(r, org) THEN 422
  ELSE IF r.op = "issue.transition" /\ <<issue[r.id].status, r.word>> \notin TRANSITIONS
       THEN 422 ELSE 0

Refusal(r, org) ==
  CASE r.op \in ProjectOps -> ProjectRefusal(r, org) [] r.op \in MemberOps -> MemberRefusal(r, org)
    [] r.op \in UserOps -> UserRefusal(r, org) [] OTHER -> IssueRefusal(r, org)

Kept(r, org) == {k \in stored : k.org = org /\ k.key = r.key /\ k.op = r.op}
HasKey(r) == r.op \in Keyed /\ r.key # NoKey

-----------------------------------------------------------------------------
(* A request, from its arrival to its reply.                                *)

Unread == [version |-> 0, assignee |-> 0, role |-> "viewer"]
NoRequest == [op |-> "none", by |-> 0, id |-> 0, to |-> 0, word |-> "", key |-> NoKey]
Free == [pc |-> "free", req |-> NoRequest, seen |-> Unread, status |-> 0, id |-> 0]

Init ==
  /\ user = SeedUsers /\ project = SeedProjects /\ issue = SeedIssues
  /\ member = SeedMembers /\ audit = <<>> /\ stored = {}
  /\ handler = [c \in Clients |-> Free]
  /\ sent = 0
  /\ pager = [pc |-> "free", after |-> 0, got |-> {}, rows |-> 0, owed |-> {}]

OrgOf(r) == user[r.by].org
Goto(c, place) == handler' = [handler EXCEPT ![c].pc = place]
Reply(c, status, id) ==
  handler' = [handler EXCEPT ![c].pc = "done", ![c].status = status, ![c].id = id]

\* A request arrives; a client may repeat one whose reply it did not get.
Receive(c, r) ==
  /\ handler[c].pc \in {"free", "done"}
  /\ sent < MaxRequests
  /\ sent' = sent + 1
  /\ handler' = [handler EXCEPT ![c] = [Free EXCEPT !.pc = "auth", !.req = r]]
  /\ UNCHANGED <<tables, pager>>

\* current_actor, with require_writer or require_admin
Authorize(c) ==
  LET r == handler[c].req
      role == user[r.by].role
  IN /\ handler[c].pc = "auth"
     /\ IF role = "viewer" \/ (r.op \in AdminOps /\ role # "admin") THEN Reply(c, 403, 0)
        ELSE Goto(c, IF HasKey(r) THEN "key" ELSE "find")
     /\ UNCHANGED <<tables, sent, pager>>

\* Mutant of LookUpKey: what is stored for another body is replayed too.
LookUpKeyOnly(c) ==
  LET r == handler[c].req
  IN /\ handler[c].pc = "key"
     /\ \/ Kept(r, OrgOf(r)) = {} /\ Goto(c, "find")
        \/ \E k \in Kept(r, OrgOf(r)) : Reply(c, 201, k.id)
     /\ UNCHANGED <<tables, sent, pager>>

\* run_once, before create: replay the stored response, or refuse the key.
LookUpKey(c) ==
  LET r == handler[c].req
  IN /\ handler[c].pc = "key"
     /\ \/ Kept(r, OrgOf(r)) = {} /\ Goto(c, "find")
        \/ \E k \in Kept(r, OrgOf(r)) :
             IF k.word = r.word THEN Reply(c, 201, k.id) ELSE Reply(c, 409, 0)
     /\ UNCHANGED <<tables, sent, pager>>

\* The service's own lookups; it goes on with the row that it loaded.
Find(c) ==
  LET r == handler[c].req
      org == OrgOf(r)
      status == Refusal(r, org)
      row == IF r.op \in IssueChanges
             THEN [Unread EXCEPT !.version = issue[r.id].version,
                                 !.assignee = issue[r.id].assignee]
             ELSE IF r.op = "user.update" THEN [Unread EXCEPT !.role = user[r.id].role]
             ELSE Unread
  IN /\ handler[c].pc = "find"
     /\ IF status # 0 THEN Reply(c, status, 0)
        ELSE handler' = [handler EXCEPT ![c].pc = "write", ![c].seen = row]
     /\ UNCHANGED <<tables, sent, pager>>

-----------------------------------------------------------------------------
(* The transaction of a request r; what it had loaded is seen.              *)

CreateProject(r, org) ==
  /\ project' = Append(project, [org |-> org, key |-> r.word, archived |-> FALSE])
  /\ member' = member \cup {<<Len(project) + 1, r.by>>}
  /\ UNCHANGED <<user, issue>>

\* A name is not part of the model: nothing but the audit row.
UpdateProject(r) == UNCHANGED <<user, project, issue, member>>

ArchiveProject(r) ==
  /\ project' = [project EXCEPT ![r.id].archived = TRUE]
  /\ UNCHANGED <<user, issue, member>>

AddMember(r) == member' = member \cup {<<r.id, r.to>>} /\ UNCHANGED <<user, project, issue>>
RemoveMember(r) == member' = member \ {<<r.id, r.to>>} /\ UNCHANGED <<user, project, issue>>

CreateUser(r, org) ==
  /\ user' = Append(user, [org |-> org, email |-> r.word, role |-> "member"])
  /\ UNCHANGED <<project, issue, member>>

\* Only a column that differs from what was loaded is written.
UpdateUser(r, seen) ==
  /\ user' = IF r.word = seen.role THEN user ELSE [user EXCEPT ![r.id].role = r.word]
  /\ UNCHANGED <<project, issue, member>>

CreateIssue(r, org) ==
  /\ issue' = Append(issue, [org |-> org, project |-> r.id, assignee |-> r.to, status |-> "open",
                             version |-> 1, deleted |-> FALSE])
  /\ UNCHANGED <<user, project, member>>

\* Mutant of ChangeIssue: nothing is deleted.
ChangeIssueNeverDeletes(r, seen) ==
  /\ issue' = [issue EXCEPT ![r.id].version = seen.version + 1]
  /\ UNCHANGED <<user, project, member>>

\* update, assign, transition and delete, each with _touch: the version that
\* was loaded, and one more.
Touched(row, r, seen) ==
  [row EXCEPT !.version = seen.version + 1,
              !.status = IF r.op = "issue.transition" THEN r.word ELSE @,
              !.deleted = @ \/ r.op = "issue.delete",
              !.assignee = IF r.op = "issue.assign" /\ r.to # seen.assignee THEN r.to ELSE @]
ChangeIssue(r, seen) ==
  /\ issue' = [issue EXCEPT ![r.id] = Touched(@, r, seen)]
  /\ UNCHANGED <<user, project, member>>

Change(r, org, seen) ==
  \/ r.op = "project.create" /\ CreateProject(r, org)
  \/ r.op = "project.update" /\ UpdateProject(r)
  \/ r.op = "project.archive" /\ ArchiveProject(r)
  \/ r.op = "member.add" /\ AddMember(r)
  \/ r.op = "member.remove" /\ RemoveMember(r)
  \/ r.op = "user.create" /\ CreateUser(r, org)
  \/ r.op = "user.update" /\ UpdateUser(r, seen)
  \/ r.op = "issue.create" /\ CreateIssue(r, org)
  \/ r.op \in IssueChanges /\ ChangeIssue(r, seen)

\* The id of the row that a request makes or changes.
IdOf(r) == CASE r.op = "project.create" -> Len(project) + 1
             [] r.op = "user.create" -> Len(user) + 1
             [] r.op = "issue.create" -> Len(issue) + 1
             [] OTHER -> r.id

\* audit.record
Record(r, org) ==
  audit' = Append(audit, [org |-> org, actor |-> r.by, action |-> r.op, entity |-> IdOf(r)])

\* A unique constraint fails: another request made that row first.
Collides(r, org) == \/ r.op = "project.create" /\ KeyTaken(r, org)
                    \/ r.op = "user.create" /\ EmailTaken(r)
                    \/ r.op = "member.add" /\ IsMember(r)
                    \/ HasKey(r) /\ Kept(r, org) # {}

Success(r) == IF r.op \in {"project.archive", "issue.delete", "member.remove"} THEN 204
              ELSE IF r.op \in Keyed \cup {"issue.create", "member.add"} THEN 201 ELSE 200

\* Mutant of Write: the response is stored in a transaction of its own, and is not.
WriteWithoutKey(c) ==
  LET r == handler[c].req
      org == OrgOf(r)
  IN /\ handler[c].pc = "write" /\ ~Collides(r, org)
     /\ Change(r, org, handler[c].seen) /\ Record(r, org) /\ UNCHANGED <<stored, sent, pager>>
     /\ Reply(c, Success(r), IdOf(r))

\* The rows, the audit row and the stored response are committed together, or
\* nothing is and the reply is 500.
Write(c) ==
  LET r == handler[c].req
      org == OrgOf(r)
  IN /\ handler[c].pc = "write"
     /\ UNCHANGED <<sent, pager>>
     /\ IF Collides(r, org) THEN Reply(c, 500, 0) /\ UNCHANGED tables
        ELSE /\ Change(r, org, handler[c].seen)
             /\ Record(r, org)
             /\ stored' = IF HasKey(r)
                          THEN stored \cup {[org |-> org, key |-> r.key, op |-> r.op,
                                             word |-> r.word, id |-> IdOf(r)]}
                          ELSE stored
             /\ Reply(c, Success(r), IdOf(r))

-----------------------------------------------------------------------------
(* Paging through a project's issues.                                       *)

Listed == {i \in DOMAIN issue : IssueFound(user[Reader].org, i)
                                /\ issue[i].project = ListedProject}
Lowest(S, n) == {i \in S : Cardinality({j \in S : j < i}) < n}

\* Mutant of NextAfter: the cursor is the row that did not fit.
NextAfterSkips(rows) ==
  IF Lowest(rows, PageLimit) = rows THEN 0 ELSE Max(Lowest(rows, PageLimit + 1))

\* split_page: one row more than the limit was fetched, to know of a next page.
NextAfter(rows) ==
  IF Cardinality(rows) > PageLimit THEN Max(Lowest(rows, PageLimit)) ELSE 0

\* The first page of a list, and each next one until next_cursor is null.
ReadPage ==
  LET fetched == Lowest({i \in Listed : i > pager.after}, PageLimit + 1)
      items == Lowest(fetched, PageLimit)
      next == NextAfter(fetched)
  IN /\ pager.pc \in {"free", "paging"}
     /\ IF ~ProjectFound(user[Reader].org, ListedProject)
        THEN pager' = [pager EXCEPT !.pc = "refused"]
        ELSE pager' = [pc |-> IF next = 0 THEN "done" ELSE "paging", after |-> next,
                       got |-> pager.got \cup items, rows |-> pager.rows + Cardinality(items),
                       owed |-> IF pager.pc = "free" THEN Listed ELSE pager.owed]
     /\ UNCHANGED <<tables, handler, sent>>

Next ==
  \/ \E c \in Clients, r \in Requests : Receive(c, r)
  \/ \E c \in Clients : Authorize(c) \/ LookUpKey(c) \/ Find(c) \/ Write(c)
  \/ ReadPage

Spec == Init /\ [][Next]_vars
-----------------------------------------------------------------------------
(* Properties.                                                             *)

Ids == Nat \ {0}
Places == {"free", "auth", "key", "find", "write", "done"}

\* Every variable has its type: an issue is in one of the three states, although
\* the board's form sends whatever word it was filled with (web.routes).
TypeOK ==
  /\ user \in Seq(UserRow) /\ project \in Seq(ProjectRow) /\ issue \in Seq(IssueRow)
  /\ member \subseteq Nat \X Nat
  /\ audit \in Seq(AuditRow)
  /\ stored \subseteq [org : Orgs, key : STRING, op : Keyed, word : STRING, id : Ids]
  /\ handler \in [Clients ->
       [pc : Places, req : Requests \cup {NoRequest},
        seen : [version : Nat, assignee : Nat, role : Roles], status : Nat, id : Nat]]
  /\ \A c \in Clients : handler[c].pc # "free" => handler[c].req \in Requests
  /\ sent \in 0..MaxRequests
  /\ pager \in [pc : {"free", "paging", "done", "refused"}, after : Nat, got : SUBSET Ids,
                rows : Nat, owed : SUBSET Ids]

\* House rule 1: whatever requests interleave, no row of an org ever refers to
\* a row of another one, so that no list that starts from an org's rows leads
\* out of it (issues, members, the audit log, stored responses).
TenantsApart ==
  /\ \A i \in DOMAIN issue :
       /\ issue[i].project \in DOMAIN project /\ project[issue[i].project].org = issue[i].org
       /\ issue[i].assignee # 0 => UserFound(issue[i].org, issue[i].assignee)
  /\ \A m \in member : /\ m[1] \in DOMAIN project /\ m[2] \in DOMAIN user
                       /\ project[m[1]].org = user[m[2]].org
  /\ \A n \in DOMAIN audit : UserFound(audit[n].org, audit[n].actor)
  /\ \A k \in stored : IF k.op = "user.create" THEN UserFound(k.org, k.id)
                       ELSE k.id \in DOMAIN project /\ project[k.id].org = k.org

\* The audit rows of one kind about one row.
Audited(action, id) == {n \in DOMAIN audit : audit[n].action = action /\ audit[n].entity = id}

\* House rule 5: the audit log tells what is in the tables.  A row that was
\* not seeded has one row for its making, before every other; an issue is
\* deleted, a project archived, exactly if the log says so; no version runs
\* ahead of the changes that the log has.
AuditTellsWhatIsThere ==
  /\ \A i \in DOMAIN issue :
       LET made == Audited("issue.create", i)
           changed == UNION {Audited(op, i) : op \in IssueChanges}
       IN /\ Cardinality(made) = IF i \in DOMAIN SeedIssues THEN 0 ELSE 1
          /\ \A n \in made, m \in changed : n < m
          /\ issue[i].deleted <=> Audited("issue.delete", i) # {}
          /\ issue[i].version <= Cardinality(changed) + 1
          /\ \A n \in made \cup changed : audit[n].org = issue[i].org
  /\ \A p \in DOMAIN project :
       /\ Cardinality(Audited("project.create", p)) = IF p \in DOMAIN SeedProjects THEN 0 ELSE 1
       /\ project[p].archived <=> Audited("project.archive", p) # {}
  /\ \A u \in DOMAIN user :
       Cardinality(Audited("user.create", u)) = IF u \in DOMAIN SeedUsers THEN 0 ELSE 1
  /\ \A n \in DOMAIN audit : audit[n].action = "issue.create" => audit[n].entity \in DOMAIN issue

\* House rule 4: a key stands for one request and for one row.  Every 201 to a
\* request with a key, whether it was made or replayed, however requests with
\* that key overlap, is about the row that the key's stored response names.
RetriesAgree ==
  /\ \A k, l \in stored : k.op = l.op /\ (k.id = l.id \/ (k.org = l.org /\ k.key = l.key)) => k = l
  /\ \A c \in Clients :
       LET h == handler[c]
       IN h.pc = "done" /\ h.status = 201 /\ HasKey(h.req) =>
            \E k \in Kept(h.req, OrgOf(h.req)) : k.word = h.req.word /\ k.id = h.id

\* House rule 3: a reader that follows the cursors to the end gets each issue
\* that was there all the time, and none twice, whatever is created, deleted
\* or assigned in between.
PagesComplete ==
  pager.pc = "done" =>
    /\ pager.owed \cap Listed \subseteq pager.got
    /\ pager.rows = Cardinality(pager.got)
=============================================================================
