---------------------------- MODULE SmtpSettings ----------------------------
(***************************************************************************)
(* The connections of the workspace to the services it uses, the SMTP       *)
(* server among them: the stored secret and public metadata of each, the    *)
(* requests that replace them, and the tests of a connection, which talk to *)
(* the service between two transactions.  The verdict of the last test is   *)
(* kept twice, in the row of the secret and in the shared settings.         *)
(*                                                                          *)
(* An update reads the row of the secret before it locks the settings, and  *)
(* its ORM session does not read it again (expire_on_commit is off, and a   *)
(* second SELECT leaves a loaded object as it is): it goes on with the      *)
(* verdict it has read.  Secrets are abstracted to the update that wrote    *)
(* them.  The two tests of SMTP, of the connection and by mail, differ only *)
(* in what they send.                                                       *)
(***************************************************************************)
EXTENDS FiniteSets

CONSTANTS
  Updates,   \* requests that replace a connection
  Tests,     \* requests that test one
  Services,  \* the services besides "smtp"
  Publics    \* values of the public SMTP metadata

(* The other services have routes of their own, which do not serve SMTP.    *)
ASSUME SmtpAssumption == "smtp" \notin Services

VARIABLES
  connection, \* the stored connection of each service
  update,     \* the update requests
  test        \* the test requests

smtpVars == <<connection, update, test>>

AllServices == Services \cup {"smtp"}
Unset == "unset"
Public == Publics \cup {Unset}
Secret == Updates \cup {Unset}

(* A verdict and the configuration that was tested. *)
Verdict == [ok : BOOLEAN, secret : Secret, public : Public]
NoVerdict == [ok |-> FALSE, secret |-> Unset, public |-> Unset]

Connection == [secret : Secret, public : Public, row : Verdict, shared : Verdict]
Unconfigured == [secret |-> Unset, public |-> Unset, row |-> NoVerdict, shared |-> NoVerdict]

Update == [phase : {"new", "read", "refused", "done"}, service : AllServices \cup {Unset},
           public : Public, password : BOOLEAN, known : BOOLEAN, object : Verdict]
NewUpdate == [phase |-> "new", service |-> Unset, public |-> Unset, password |-> FALSE,
              known |-> FALSE, object |-> NoVerdict]

Test == [phase : {"new", "loading", "probing", "changed", "refused", "done"},
         service : AllServices \cup {Unset}, secret : Secret, public : Public]
NewTest == [phase |-> "new", service |-> Unset, secret |-> Unset, public |-> Unset]

SmtpTypeOK ==
  /\ connection \in [AllServices -> Connection]
  /\ update \in [Updates -> Update] /\ test \in [Tests -> Test]

SmtpInit ==
  /\ connection = [s \in AllServices |-> Unconfigured]
  /\ update = [u \in Updates |-> NewUpdate] /\ test = [t \in Tests |-> NewTest]

-----------------------------------------------------------------------------
(* PUT smtp, up to save_smtp_configuration: the first configuration needs a *)
(* password.                                                                *)
AskUpdate(u) ==
  LET c == connection["smtp"]
  IN /\ update[u].phase = "new"
     /\ \E p \in Publics, given \in BOOLEAN :
          update' = [update EXCEPT ![u] =
            [phase |-> IF c.secret = Unset /\ ~given THEN "refused" ELSE "read",
             service |-> "smtp", public |-> p, password |-> given,
             known |-> c.secret # Unset, object |-> c.row]]
     /\ UNCHANGED <<connection, test>>

(* What remains of a verdict in the row, once the object that was loaded is *)
(* flushed: only a verdict the session knows of is cleared.                 *)
Flushed(u, row) == IF update[u].object # NoVerdict THEN NoVerdict ELSE row

(* save_smtp_configuration, under the lock of the settings.  A new password *)
(* replaces the row, and its verdict; the loaded object, if there was one,  *)
(* keeps what was read.                                                     *)
SaveUpdate(u) ==
  LET c == connection["smtp"]
      reset == c.public # update[u].public \/ update[u].password
      secret == IF update[u].password THEN u ELSE c.secret
      row == IF update[u].password THEN NoVerdict
             ELSE IF reset THEN Flushed(u, c.row) ELSE c.row
      object == IF reset /\ ~(update[u].password /\ update[u].known)
                  THEN NoVerdict ELSE update[u].object
  IN /\ update[u].phase = "read"
     /\ connection' = [connection EXCEPT !["smtp"] =
          [secret |-> secret, public |-> update[u].public, row |-> row,
           shared |-> IF reset THEN NoVerdict ELSE object]]
     /\ update' = [update EXCEPT ![u].phase = "done", ![u].object = object]
     /\ UNCHANGED test

(* _update_connection_metadata: the shared settings get the verdict of the  *)
(* row, with no public metadata.                                            *)
WithMetadata(c, verdict) == [c EXCEPT !.public = Unset, !.shared = verdict]

(* replace_connection, for the other services: one transaction, which loads *)
(* the row for the first time after it is written.                          *)
ReplaceConnection(u, s) ==
  /\ update[u].phase = "new"
  /\ connection' = [connection EXCEPT ![s] =
       WithMetadata([@ EXCEPT !.secret = u, !.row = NoVerdict], NoVerdict)]
  /\ update' = [update EXCEPT ![u] = [NewUpdate EXCEPT !.phase = "done", !.service = s,
                                                       !.password = TRUE]]
  /\ UNCHANGED test

-----------------------------------------------------------------------------
(* _load_smtp_config reads the settings and then the secret, each as it is  *)
(* at that time, and ends its transaction.                                  *)
LoadSmtpSettings(t) ==
  /\ test[t].phase = "new"
  /\ test' = [test EXCEPT ![t] = [@ EXCEPT !.phase = "loading", !.service = "smtp",
                                          !.public = connection["smtp"].public]]
  /\ UNCHANGED <<connection, update>>

LoadSmtpSecret(t) ==
  LET secret == connection["smtp"].secret
  IN /\ test[t].phase = "loading"
     /\ test' = [test EXCEPT ![t] =
          IF secret = Unset \/ @.public = Unset THEN [@ EXCEPT !.phase = "refused"]
          ELSE [@ EXCEPT !.phase = "probing", !.secret = secret]]
     /\ UNCHANGED <<connection, update>>

(* A test of another service loads its connection, and ends its transaction.*)
LoadTest(t, s) ==
  LET c == connection[s]
  IN /\ test[t].phase = "new"
     /\ test' = [test EXCEPT ![t] =
          IF c.secret = Unset THEN [NewTest EXCEPT !.phase = "refused", !.service = s]
          ELSE [phase |-> "probing", service |-> s, secret |-> c.secret,
                public |-> c.public]]
     /\ UNCHANGED <<connection, update>>

(* An SMTP test by mail gives up when the send rate is used up. *)
GiveUpTest(t) ==
  /\ test[t].phase = "probing" /\ test[t].service = "smtp"
  /\ test' = [test EXCEPT ![t].phase = "refused"]
  /\ UNCHANGED <<connection, update>>

(* Mutant: only the secret is compared. *)
SameSecret(t, c) == c.secret = test[t].secret

(* record_smtp_test compares what is stored with what was tested.           *)
Unchanged(t, c) == c.secret = test[t].secret /\ c.public = test[t].public

Verdicts(t) == {[ok |-> ok, secret |-> test[t].secret, public |-> test[t].public] :
                  ok \in BOOLEAN}

EndTest(t, phase) == test' = [test EXCEPT ![t].phase = phase] /\ UNCHANGED update

(* The end of an SMTP test, under the lock of the settings. *)
RecordSmtpTest(t) ==
  LET c == connection["smtp"]
  IN /\ test[t].phase = "probing" /\ test[t].service = "smtp"
     /\ \/ /\ Unchanged(t, c) /\ EndTest(t, "done")
           /\ \E verdict \in Verdicts(t) :
                connection' = [connection EXCEPT !["smtp"].row = verdict,
                                                 !["smtp"].shared = verdict]
        \/ ~Unchanged(t, c) /\ EndTest(t, "changed") /\ UNCHANGED connection

(* The end of another test: record_connection_test updates the row if it    *)
(* still holds the secret that was tested, and then the shared settings.    *)
RecordConnectionTest(t) ==
  LET s == test[t].service
      c == connection[s]
  IN /\ test[t].phase = "probing" /\ s # "smtp"
     /\ \/ /\ c.secret = test[t].secret /\ EndTest(t, "done")
           /\ \E verdict \in Verdicts(t) :
                connection' = [connection EXCEPT ![s] =
                  WithMetadata([c EXCEPT !.row = verdict], verdict)]
        \/ c.secret # test[t].secret /\ EndTest(t, "changed") /\ UNCHANGED connection

SmtpNext ==
  \/ \E u \in Updates : \/ AskUpdate(u) \/ SaveUpdate(u)
                        \/ \E s \in Services : ReplaceConnection(u, s)
  \/ \E t \in Tests : \/ GiveUpTest(t) \/ RecordSmtpTest(t) \/ RecordConnectionTest(t)
                      \/ LoadSmtpSettings(t) \/ LoadSmtpSecret(t)
                      \/ \E s \in Services : LoadTest(t, s)

SmtpSpec == SmtpInit /\ [][SmtpNext]_smtpVars

-----------------------------------------------------------------------------
(* A verdict is recorded only for the configuration that is stored then,    *)
(* however the connection has been replaced while it was tested.            *)
VerdictsAreOfTheStored ==
  [][\A s \in AllServices :
       LET c == connection'[s]
       IN c.row \notin {NoVerdict, connection[s].row} =>
            c.row.secret = c.secret /\ c.row.public = c.public]_smtpVars

=============================================================================
