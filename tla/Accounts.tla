------------------------------- MODULE Accounts -------------------------------
(***************************************************************************)
(* One user of a company (crates/nebula/src/auth/manager.rs,               *)
(* account/mod.rs): the row of the user, the passwords left behind, the    *)
(* refresh tokens and the login directory of the main database. A request  *)
(* reads the user once and writes the columns it changes; the statements   *)
(* of an operation share no transaction.                                   *)
(***************************************************************************)
EXTENDS Naturals, Sequences, FiniteSets, SequencesExt

CONSTANTS
    Requests,
    Passwords,
    Codes,      \* the recovery codes
    Tokens,     \* refresh tokens, 1..n
    None,
    HistoryCount,   \* the policy: how many passwords are not used again
    MaxFailed,      \* the policy: attempts before the lockout
    MaxActs         \* bound: the requests that start

VARIABLES
    user,       \* the row
    history,    \* password_history, the last first
    token,      \* token[t]
    listed,     \* the user is in the directory
    task,       \* task[q]: the request, what it read, what was overwritten since
    left,       \* all the passwords left behind, the last first
    spent,      \* the codes accepted since they were made
    wrong,      \* the wrong attempts since the last that was right
    slips,      \* what an overlapping or broken request has spoilt
    acts

row == << user, history, token, listed >>
vars == << row, task, left, spent, wrong, slips, acts >>

Columns == {"stamp", "password", "codes", "failed", "tokens"}
Slips == Columns \cup {"directory"}

NoUser == [state |-> "none", active |-> FALSE, stamp |-> 0, password |-> None, failed |-> 0, locked |-> FALSE,
           enabled |-> FALSE, confirmed |-> FALSE, codes |-> {}]
NoToken == [stamp |-> 0, state |-> "none"]
Idle == [step |-> "idle", arg |-> None, read |-> NoUser, late |-> {}]

UserRows == [state : {"none", "live", "deleted"}, active : BOOLEAN, stamp : 0..MaxActs, password : Passwords \cup {None},
          failed : 0..MaxFailed, locked : BOOLEAN, enabled : BOOLEAN, confirmed : BOOLEAN, codes : SUBSET Codes]

TypeOK ==
    /\ user \in UserRows /\ history \in Seq(Passwords) /\ left \in Seq(Passwords)
    /\ token \in [Tokens -> [stamp : 0..MaxActs, state : {"none", "live", "revoked"}]]
    /\ listed \in BOOLEAN /\ spent \subseteq Codes /\ wrong \in 0..MaxFailed /\ acts \in 0..MaxActs
    /\ slips \subseteq Slips
    /\ \A q \in Requests : task[q].read \in UserRows /\ task[q].late \subseteq Columns

Init ==
    /\ user = NoUser /\ history = << >> /\ left = << >>
    /\ token = [t \in Tokens |-> NoToken]
    /\ listed = FALSE /\ spent = {} /\ wrong = 0 /\ slips = {} /\ acts = 0
    /\ task = [q \in Requests |-> Idle]

----------------------------------------------------------------------------

Live == user.state = "live"

\* The passwords that a change is compared with are old already when another has
\* replaced the password and not filed the one it replaced.
Filing(step) == IF step = "password" /\ \E r \in Requests : task[r].step = "retire" THEN {"password"} ELSE {}

\* A request begins with a look at the row.
Begins(q, step, arg) ==
    /\ task[q] = Idle /\ acts < MaxActs /\ acts' = acts + 1
    /\ task' = [task EXCEPT ![q] = [step |-> step, arg |-> arg, read |-> user, late |-> Filing(step)]]

Goes(q, step) == task' = [task EXCEPT ![q].step = step]
Ends(q) == task' = [task EXCEPT ![q] = Idle]

\* q goes on to a step; the columns it has written are old news to the others.
Writes(q, step, cols) ==
    task' = [p \in Requests |->
               IF p = q THEN (IF step = "idle" THEN Idle ELSE [step |-> step, arg |-> task[q].arg, read |-> user', late |-> {}])
               ELSE IF task[p] = Idle THEN Idle ELSE [task[p] EXCEPT !.late = @ \cup cols]]

\* What a write over columns that were overwritten since they were read spoils.
Spoils(q, cols) == slips' = slips \cup (cols \cap task[q].late)

----------------------------------------------------------------------------
(* UserManager::create.                                                    *)

create(q, p) ==
    /\ user.state = "none" /\ \A r \in Requests : task[r] = Idle
    /\ acts < MaxActs /\ acts' = acts + 1
    /\ user' = [NoUser EXCEPT !.state = "live", !.active = TRUE, !.stamp = acts', !.password = p]
    /\ task' = [task EXCEPT ![q] = [step |-> "list", arg |-> None, read |-> user', late |-> {}]]
    /\ UNCHANGED << history, token, listed, left, spent, wrong, slips >>

directory_add(q) ==
    /\ task[q].step = "list"
    /\ listed' = TRUE /\ Ends(q)
    /\ slips' = IF Live THEN slips ELSE slips \cup {"directory"}
    /\ UNCHANGED << user, history, token, left, spent, wrong, acts >>

----------------------------------------------------------------------------
(* Signing in.                                                             *)

authenticate(q) ==
    /\ Live /\ user.active /\ ~user.locked
    /\ \E right \in BOOLEAN : Begins(q, "attempt", right)
    /\ UNCHANGED << row, left, spent, wrong, slips >>

\* The count is the one that was read, plus one.
wrong_password(q) ==
    /\ task[q].step = "attempt" /\ ~task[q].arg
    /\ LET failed == task[q].read.failed + 1 IN
         /\ user' = IF failed >= MaxFailed THEN [user EXCEPT !.failed = 0, !.locked = TRUE] ELSE [user EXCEPT !.failed = failed]
         /\ wrong' = IF failed >= MaxFailed THEN 0 ELSE IF wrong < MaxFailed THEN wrong + 1 ELSE wrong
    /\ Spoils(q, {"failed"}) /\ Writes(q, "idle", {"failed"})
    /\ UNCHANGED << history, token, listed, left, spent, acts >>

\* Two-factor, the user's own or mandated by the company, stands before the
\* session.
finish_login == IF user.enabled /\ user.confirmed THEN {"idle"} ELSE {"session", "idle"}

\* The password was right when the row was read.
right_password(q) ==
    /\ task[q].step = "attempt" /\ task[q].arg
    /\ user' = [user EXCEPT !.failed = 0, !.locked = FALSE]
    /\ wrong' = 0
    /\ Spoils(q, {"failed"})
    /\ \E step \in finish_login : Writes(q, step, {"failed"})
    /\ UNCHANGED << history, token, listed, left, spent, acts >>

lockout_ends ==
    /\ user.locked
    /\ user' = [user EXCEPT !.locked = FALSE]
    /\ UNCHANGED << history, token, listed, task, left, spent, wrong, slips, acts >>

\* The second step of a sign-in: the row of the bridge token, then a code.
login_two_factor(q, c) ==
    /\ Live /\ user.active /\ user.enabled
    /\ c \in user.codes
    /\ Begins(q, "code", c)
    /\ UNCHANGED << row, left, spent, wrong, slips >>

\* MUTANT of consume_recovery_code: the code stays on the list.
consume_recovery_code_Keeps(codes, c) == codes

consume_recovery_code(codes, c) == codes \ {c}

\* The list that was read is written back without the code.
verify_two_factor(q) ==
    /\ task[q].step = "code"
    /\ user' = [user EXCEPT !.codes = consume_recovery_code(task[q].read.codes, task[q].arg)]
    /\ spent' = spent \cup {task[q].arg}
    /\ Spoils(q, {"codes"}) /\ Writes(q, "session", {"codes"})
    /\ UNCHANGED << history, token, listed, left, wrong, acts >>

Unused == { t \in Tokens : token[t].state = "none" }

issue_refresh_token(q) ==
    /\ task[q].step \in {"session", "rotated"}
    /\ \E t \in Unused :
         /\ \A s \in Unused : t <= s
         /\ token' = [token EXCEPT ![t] = [stamp |-> task[q].read.stamp, state |-> "live"]]
    /\ Spoils(q, {"stamp"}) /\ Ends(q)
    /\ UNCHANGED << user, history, listed, left, spent, wrong, acts >>

\* A password that has expired is replaced before a session is issued.
issue_session(q) ==
    \/ issue_refresh_token(q)
    \/ /\ task[q].step = "session" /\ Ends(q)
       /\ UNCHANGED << row, left, spent, wrong, slips, acts >>

----------------------------------------------------------------------------
(* Refresh tokens.                                                         *)

\* A token that was revoked ends all the sessions.
rotate_read(q, t) ==
    /\ token[t].state # "none"
    /\ token[t].state = "live" => Live /\ user.active
    /\ IF token[t].state = "revoked" THEN Begins(q, "revoke", None) ELSE Begins(q, "rotate", t)
    /\ UNCHANGED << row, left, spent, wrong, slips >>

\* The token that was read goes, the next one is issued after.
rotate_revoke(q) ==
    /\ task[q].step = "rotate"
    /\ token' = [token EXCEPT ![task[q].arg].state = "revoked"]
    /\ Spoils(q, {"tokens"})
    /\ task' = [p \in Requests |->
                  IF p = q THEN [task[q] EXCEPT !.step = "rotated"]
                  ELSE IF task[p].step = "rotate" /\ task[p].arg = task[q].arg THEN [task[p] EXCEPT !.late = @ \cup {"tokens"}]
                  ELSE task[p]]
    /\ UNCHANGED << user, history, listed, left, spent, wrong, acts >>

revoke_refresh_token(t) ==
    /\ token[t].state = "live"
    /\ token' = [token EXCEPT ![t].state = "revoked"]
    /\ UNCHANGED << user, history, listed, task, left, spent, wrong, slips, acts >>

revoke_all_refresh_tokens ==
    [t \in Tokens |-> IF token[t].state = "live" THEN [token[t] EXCEPT !.state = "revoked"] ELSE token[t]]

\* MUTANT of revoke: a deletion ends before it has unlisted the user.
revoke_Ends(q) ==
    /\ task[q].step = "revoke"
    /\ token' = revoke_all_refresh_tokens
    /\ Ends(q)
    /\ UNCHANGED << user, history, listed, left, spent, wrong, slips, acts >>

\* The last statement of every change of credentials; a deletion goes on to
\* the directory.
revoke(q) ==
    /\ task[q].step = "revoke"
    /\ token' = revoke_all_refresh_tokens
    /\ IF task[q].arg = "delete" THEN Goes(q, "unlist") ELSE Ends(q)
    /\ UNCHANGED << user, history, listed, left, spent, wrong, slips, acts >>

----------------------------------------------------------------------------
(* Passwords.                                                              *)

\* The current password is the most recent of the last HistoryCount.
Reused(p) ==
    p = user.password \/ \E i \in DOMAIN history : i <= HistoryCount - 1 /\ history[i] = p

change_password(q, p) ==
    /\ Live /\ user.active
    /\ HistoryCount > 0 => ~Reused(p)
    /\ Begins(q, "password", p)
    /\ UNCHANGED << row, left, spent, wrong, slips >>

\* The hash that was read is the one retired.
replace_password(q) ==
    /\ task[q].step = "password"
    /\ user' = [user EXCEPT !.password = task[q].arg, !.stamp = @ + 1]
    /\ left' = << user.password >> \o left
    /\ Spoils(q, {"password"})
    /\ task' = [p \in Requests |->
                  IF p = q THEN [task[q] EXCEPT !.step = "retire"]
                  ELSE IF task[p] = Idle THEN Idle ELSE [task[p] EXCEPT !.late = @ \cup {"password", "stamp"}]]
    /\ UNCHANGED << history, token, listed, spent, wrong, acts >>

Kept == HistoryCount

retire_password(q) ==
    /\ task[q].step = "retire"
    /\ LET rows == << task[q].read.password >> \o history IN
         history' = IF HistoryCount = 0 THEN history ELSE SubSeq(rows, 1, IF Len(rows) < Kept THEN Len(rows) ELSE Kept)
    /\ Goes(q, "revoke")
    /\ UNCHANGED << user, token, listed, left, spent, wrong, slips, acts >>

----------------------------------------------------------------------------
(* The other changes of the row, each of its own columns.                  *)

Changes(q, what) ==
    /\ Live
    /\ what \in {"setup", "confirm", "disable"} => user.active
    /\ what = "confirm" => user.enabled # user.confirmed \/ ~user.enabled
    /\ Begins(q, "change", what)
    /\ UNCHANGED << row, left, spent, wrong, slips >>

Changed(what) ==
    CASE what = "setup" -> [user EXCEPT !.confirmed = FALSE]
      [] what = "confirm" -> [user EXCEPT !.enabled = TRUE, !.confirmed = TRUE, !.codes = Codes, !.stamp = @ + 1]
      [] what = "disable" -> [user EXCEPT !.enabled = FALSE, !.confirmed = FALSE, !.codes = {}, !.stamp = @ + 1]
      [] what = "activate" -> [user EXCEPT !.active = TRUE, !.stamp = @ + 1]
      [] what = "deactivate" -> [user EXCEPT !.active = FALSE, !.stamp = @ + 1]
      [] what = "delete" -> [user EXCEPT !.state = "deleted", !.stamp = @ + 1]

change(q) ==
    /\ task[q].step = "change"
    /\ LET what == task[q].arg
           codes == what \in {"confirm", "disable"}
       IN /\ user' = Changed(what)
          /\ spent' = IF codes THEN {} ELSE spent
          /\ Writes(q, IF what = "setup" THEN "idle" ELSE "revoke",
                    (IF codes THEN {"codes"} ELSE {}) \cup (IF what = "setup" THEN {} ELSE {"stamp"}))
    /\ UNCHANGED << history, token, listed, left, wrong, slips, acts >>

directory_remove(q) ==
    /\ task[q].step = "unlist"
    /\ listed' = FALSE /\ Ends(q)
    /\ UNCHANGED << user, history, token, left, spent, wrong, slips, acts >>

\* The server dies, or a statement fails, and the request ends where it is.
broken(q) ==
    /\ task[q] # Idle /\ acts < MaxActs /\ acts' = acts + 1
    /\ Ends(q)
    /\ slips' = slips \cup (CASE task[q].step = "list" -> {"directory"}
                              [] task[q].step = "unlist" -> {"directory"}
                              [] task[q].step = "retire" -> {"password", "stamp"}
                              [] task[q].step = "revoke" -> {"stamp"} \cup (IF task[q].arg = "delete" THEN {"directory"} ELSE {})
                              [] OTHER -> {})
    /\ UNCHANGED << row, left, spent, wrong >>

----------------------------------------------------------------------------

Statements(q) ==
    \/ directory_add(q) \/ wrong_password(q) \/ right_password(q) \/ verify_two_factor(q) \/ issue_session(q)
    \/ rotate_revoke(q) \/ revoke(q) \/ replace_password(q) \/ retire_password(q) \/ change(q) \/ directory_remove(q)
    \/ broken(q)

Next ==
    \/ \E q \in Requests :
         \/ \E p \in Passwords : create(q, p) \/ change_password(q, p)
         \/ authenticate(q)
         \/ \E c \in Codes : login_two_factor(q, c)
         \/ \E t \in Tokens : rotate_read(q, t)
         \/ \E what \in {"setup", "confirm", "disable", "activate", "deactivate", "delete"} : Changes(q, what)
         \/ Statements(q)
    \/ \E t \in Tokens : revoke_refresh_token(t)
    \/ lockout_ends

Spec == Init /\ [][Next]_vars

----------------------------------------------------------------------------

\* Every session from before a change of credentials ends: what can still be
\* refreshed was issued under the stamp the user has - once the change is
\* through, unless it broke off or a sign-in or a refresh was underway with it.
SessionsEnd ==
    /\ "stamp" \notin slips
    /\ \A q \in Requests : task[q].step \notin {"retire", "revoke"}
    => \A t \in Tokens : token[t].state = "live" => token[t].stamp = user.stamp

\* What is used up stays used up: the password is none of the last the policy
\* remembers, a recovery code that was accepted is not on the list, and a wrong
\* attempt is counted once - unless two requests wrote the same from the same
\* reading, a password was chosen while the one before it was still being filed,
\* or a change broke off.
SpentStaysSpent ==
    /\ "password" \in slips \/ \A q \in Requests : task[q].step \notin {"retire"} =>
         \A i \in DOMAIN left : i <= HistoryCount - 1 => left[i] # user.password
    /\ HistoryCount > 0 /\ "password" \notin slips => (left # << >> => left[1] # user.password)
    /\ "codes" \in slips \/ spent \cap user.codes = {}
    /\ "failed" \in slips \/ user.failed = wrong

\* The directory of the main database lists whom the company has, unless a
\* request broke off between the two databases.
DirectoryFollows ==
    /\ "directory" \notin slips
    /\ \A q \in Requests : task[q].step \notin {"list", "revoke", "unlist"}
    => (listed <=> Live)

=============================================================================
