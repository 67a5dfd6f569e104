---------------------------- MODULE MCAutomation ----------------------------
EXTENDS Automation, TLC

Symmetry == Permutations(Requests)

\* The default sequence without its link and its second reminder.
ShortScript == << "SEND_EMAIL", "CREATE_ESCALATION" >>
=============================================================================
