--------------------------- MODULE MCSubmissions ---------------------------
(* Instances of Submissions for TLC. *)
EXTENDS Submissions

CONSTANTS r1, s1

OneRequest == {r1}
NoSweeper == {}
OneSweeper == {s1}
MailKinds == {"email_send", "email", "letter"}
OnlyMail == {"email"}
OnlySite == {"site"}
AnyChannel == {"email", "site", "none"}
NoColumn == {}
OneColumn == {"submitted"}
AllFaults == {"process", "database", "gmail", "document", "browser", "mailbox"}
NoFaults == {}
=============================================================================
