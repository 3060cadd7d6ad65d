---------------------------- MODULE MCTeamTrack -----------------------------
(* Small instances of TeamTrack: two orgs, each with an admin, a member in   *)
(* the first, a project each, and issues that need two pages.                *)
EXTENDS TeamTrack, TLC

MCUsers == <<[org |-> "acme", email |-> "a", role |-> "admin"],
             [org |-> "acme", email |-> "m", role |-> "member"],
             [org |-> "globex", email |-> "g", role |-> "admin"]>>
MCProjects == <<[org |-> "acme", key |-> "WEB", archived |-> FALSE],
                [org |-> "globex", key |-> "BIL", archived |-> FALSE]>>
MCIssue == [org |-> "acme", project |-> 1, assignee |-> 2, status |-> "in_progress", version |-> 1,
            deleted |-> FALSE]
MCIssues == <<MCIssue, [MCIssue EXCEPT !.assignee = 0],
              [MCIssue EXCEPT !.org = "globex", !.project = 2, !.assignee = 3]>>

MCMembers == {<<1, 1>>, <<1, 2>>, <<2, 3>>}

Ask(op, by, id, to, word, key) ==
  [op |-> op, by |-> by, id |-> id, to |-> to, word |-> word, key |-> key]
\* What a user of each org may ask for, about rows of both orgs.
MCRequests ==
  {Ask("project.create", 2, 0, 0, w, "k1") : w \in {"NEW", "WEB"}}
  \cup {Ask("project.create", 2, 0, 0, "NEW", "nokey"), Ask("project.create", 3, 0, 0, "NEW", "k1")}
  \cup {Ask("user.create", b, 0, 0, w, "k1") : b \in {1, 3}, w \in {"x", "y"}}
  \cup {Ask("issue.create", b, p, 2, "", "nokey") : b \in {2, 3}, p \in {1, 2}}
  \cup {Ask("issue.transition", 2, 1, 0, w, "nokey") : w \in {"open", "done", "blocked"}}
  \cup {Ask("issue.assign", 3, 3, t, "", "nokey") : t \in {0, 2}}
  \cup {Ask("issue.update", 2, 1, 0, "", "nokey"), Ask("issue.update", 3, 1, 0, "", "nokey")}
  \cup {Ask("issue.delete", 2, i, 0, "", "nokey") : i \in {1, 2}}
  \cup {Ask("project.archive", 1, p, 0, "", "nokey") : p \in {1, 2}}
  \cup {Ask("project.update", 2, 1, 0, "", "nokey")}
  \cup {Ask(op, 1, 1, t, "", "nokey") : op \in {"member.add", "member.remove"}, t \in {2, 3}}
  \cup {Ask("user.update", 1, 2, 0, w, "nokey") : w \in {"viewer", "admin"}}
\* The handlers are alike.
MCAlike == Permutations(Clients)
=============================================================================
