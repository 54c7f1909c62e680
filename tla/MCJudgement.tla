----------------------------- MODULE MCJudgement -----------------------------
EXTENDS Judgement
MCAgents == {1, 2, 3}
MCRegistryIndex == [a \in MCAgents |-> 3 - a]
MCCategories == {"coding", "git"}
MCCapability == [a \in MCAgents |->
    CASE a = 1 -> [coding |-> 85, git |-> 75]
      [] a = 2 -> [coding |-> 85, git |-> 75]
      [] OTHER -> [coding |-> 80, git |-> 95]]
MCRules == {[id |-> 1, category |-> "coding", weight |-> 45],
            [id |-> 2, category |-> "coding", weight |-> 75],
            [id |-> 3, category |-> "git", weight |-> 90]}
MCFallback == [coding |-> 40, git |-> 0]
Row(agent, coding, git, score) ==
    [agent |-> agent, importance |-> [coding |-> coding, git |-> git], score |-> score]
\* Agent 1 has done such tasks; 2 has only done others of late; 3 has done one.
MCHistories ==
    {<<>>,
     <<Row(1, 45, 0, 100), Row(1, 100, 90, 95), Row(2, 0, 90, Unknown),
       Row(2, 45, 0, 95), Row(3, 40, 0, 60)>>}
MCRoutingWeights == [static |-> 50, history |-> 30, recent |-> 20]
MCPaths == {"app.js", "notes", "key.pem", "up"}
MCSensitive == {"key.pem"}
MCOutside == {"up"}
MCChecked == {"app.js"}
Edit(path, entry) == [path |-> path, original |-> path, deleted |-> FALSE, entry |-> entry]
Good == [lost |-> FALSE, exit |-> "success", timedOut |-> FALSE, committed |-> FALSE,
         truncated |-> FALSE, changes |-> {Edit("app.js", "good")}, diff |-> "small",
         package |-> "valid", failing |-> 0, answers |-> TRUE, duration |-> 100]
MCWorks ==
    {Good, [Good EXCEPT !.duration = 65, !.truncated = TRUE],
     [Good EXCEPT !.lost = TRUE], [Good EXCEPT !.failing = 1, !.duration = 0],
     [Good EXCEPT !.changes = {[Edit("notes", "good") EXCEPT !.original = "key.pem"]}],
     [Good EXCEPT !.changes = {Edit("notes", "symlink")}, !.duration = 65],
     [Good EXCEPT !.changes = {Edit("app.js", "broken")}],
     [Good EXCEPT !.timedOut = TRUE,
                  !.changes = {Edit("app.js", "good"), Edit("notes", "good")}],
     [Good EXCEPT !.exit = "none", !.timedOut = TRUE, !.changes = {},
                  !.diff = "cut", !.package = "invalid"]}
MCWeights == [quality |-> 70, router |-> 20, speed |-> 10]
=============================================================================
