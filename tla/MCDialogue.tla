------------------------------ MODULE MCDialogue ------------------------------
(* Small instances of Dialogue for TLC.                                    *)
EXTENDS Dialogue

\* Two paragraphs; and a word that is longer than a page.
Words == {<<<<<<1>>, <<2>>>>, <<<<3, 4>>>>>>, <<<<<<1, 2, 3, 4>>>>>>}
=============================================================================
