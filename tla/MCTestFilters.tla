--------------------------- MODULE MCTestFilters ---------------------------
(* Small instances of TestFilters: three tests from before the phase, one of *)
(* them outside the visible directory, and up to three new ones of different *)
(* kinds, in files of their own or beside the old ones.                      *)
EXTENDS TestFilters

Test(id, file, lines) ==
  [id |-> id, file |-> file, visible |-> file # "elsewhere", parses |-> TRUE, collects |-> TRUE,
   outcomes |-> {"pass"}, lines |-> lines, kills |-> {}, asserts |-> TRUE, mocks |-> FALSE,
   edits |-> FALSE]
Before1 == Test("old1", "old", {1})
Before2 == Test("old2", "other", {2})
Before3 == Test("old3", "elsewhere", {4})
MCOld == {Before1, Before2, Before3}
\* All tests, or those of one file; the last selects nothing that runs.
MCExisting == {MCOld, {Before1}, {}}
MCEdits == {{}, {"other"}}
MCMutants == {[id |-> "m1", set |-> "filter", matches |-> 1], [id |-> "m2", set |-> "filter", matches |-> 2],
              [id |-> "m3", set |-> "referee", matches |-> 1]}

\* The tests an agent may write.  The changed ones replace a test that was there.
Good == {Test("a", "new", {3}), Test("b", "new", {1, 3}), Test("c", "old", {4}), Test("d", "elsewhere", {3})}
Killer == [Test("k", "new", {1}) EXCEPT !.kills = {"m1"}]
Poor == {Test("p", "new", {1, 2}), [Test("q", "new", {3}) EXCEPT !.asserts = FALSE],
         [Test("r", "new", {3}) EXCEPT !.mocks = TRUE], [Test("s", "new", {1}) EXCEPT !.kills = {"m2", "m3"}],
         [Test("t", "new", {3}) EXCEPT !.outcomes = {"fail"}],
         [Test("u", "new", {3}) EXCEPT !.outcomes = {"pass", "fail"}]}
Unparsable(file) == [Test(file, file, {}) EXCEPT !.parses = FALSE]
Odd == {Unparsable("bad"), Unparsable("other"), [Test("w", "old", {}) EXCEPT !.collects = FALSE],
        [Test("x", "new", {3}) EXCEPT !.edits = TRUE], [Test("y", "old", {4}) EXCEPT !.edits = TRUE]}
Changed == {Test("old1", "old", {3}), Test("old2", "other", {})}
MCCaps == {-1, 1}
Written == Good \cup {Killer} \cup Poor \cup Odd \cup Changed

\* The workspace file by file, the old tests of a file first.
FileOrder == <<"bad", "elsewhere", "new", "old", "other">>
InFile(s, file) == SelectSeq(s, LAMBDA t : t.file = file)
Laid(old, new) == FlattenSeq([i \in 1..5 |-> InFile(old, FileOrder[i]) \o InFile(new, FileOrder[i])])
\* The old tests that the new ones do not replace in place.
Kept(new) == SelectSeq(<<Before1, Before2, Before3>>, LAMBDA o : o.id \notin Ids(Range(new)))
Beside(s, t) == t.id \notin Ids(Range(s)) /\ \A u \in Range(s) : u.file = t.file => u.parses /\ t.parses
New1 == {<<t>> : t \in Written}
New2 == {Append(s, t) : s \in New1, t \in Written}
New3 == {<<Test("a", "new", {3}), s, t>> : s \in Odd, t \in {Killer} \cup Good}
Proposals ==
  {p \in New1 \cup New2 \cup New3 : \A i \in DOMAIN p : Beside(SubSeq(p, 1, i - 1), p[i])}
\* Two functions of one name, of which either may be the poor one, or the old
\* one; and files that the agent deleted or emptied.
Twins ==
  {Laid(<<Before1, Before2, Before3>>, p) :
     p \in {<<Test("a", "new", {3}), t, u>> : t \in {Killer, Test("b", "new", {1, 3})},
              u \in {Test("a", "new", {1}), Test("b", "new", {3})}}}
  \cup {Laid(<<Before1, Before2, Before3>>, <<Test("old1", "old", {3})>>),
        Laid(<<Test("old1", "old", {3}), Before1, Before2, Before3>>, <<Test("c", "old", {4})>>)}
Fewer == {Laid(<<Before1, Before3>>, <<t>>) : t \in Good \cup {Killer}}
MCWorkspaces == {Laid(Kept(p), p) : p \in Proposals} \cup Twins \cup Fewer
=============================================================================
