----------------------------- MODULE MCImageBoot -----------------------------
(* Four images, four environments and the files an operator may leave.       *)
EXTENDS ImageBoot

FourImages ==
    {[base |-> "network", sim |-> s, built |-> {}] : s \in BOOLEAN} \cup
    {[base |-> "uos", sim |-> TRUE, built |-> {"direct"}],
     [base |-> "uos", sim |-> FALSE, built |-> {"seed"}]}

\* Values with a blank, with a quote, with both at the ends, and with what a shell
\* would take for an escape.
SomeContainers ==
    {[on |-> {}, given |-> [u \in WithFile |-> <<>>]],
     [on |-> {"seed", "readyz"},
      given |-> [seed |-> <<"p", " ", "w", "'", "d">>, readyz |-> <<"'", "a", " ">>]],
     [on |-> {"direct", "readyz"}, given |-> [u \in WithFile |-> <<>>]],
     [on |-> {"seed"}, given |-> [u \in WithFile |-> <<"b", "\\", "s", "'", "'">>]]}

\* Duplicates, a comment and a last line without an ending; a file that ends in
\* the middle of a continued value; one in the middle of a blank line; and one
\* with an escape that is none.
EditedFiles ==
    {<<Entry("mine", "old"), Line("comment", "#", <<"note">>, FALSE, TRUE),
       Entry("port", "9443"), Line("entry", "mine", <<"new">>, FALSE, FALSE)>>,
     <<Line("entry", "mine", <<"a">>, TRUE, TRUE), Line("comment", "#", <<"b">>, TRUE, FALSE)>>,
     <<Entry("is_simulation", "false"), Line("blank", "", <<>>, TRUE, FALSE)>>,
     <<Entry("mine", Garbled), Entry("port", "9443")>>}
=============================================================================
