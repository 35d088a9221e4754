------------------------------ MODULE MCWizard ------------------------------
(* Instances of Wizard: the accept-quote and request-for-quote wizards cut  *)
(* to the steps whose handlers differ.                                      *)
EXTENDS Wizard, TLC

Steps2Quote == (0 :> reportRecipient) @@ (1 :> summaryAndAccept)
Steps3Quote == (0 :> reportRecipient) @@ (1 :> paymentDetails) @@
               (2 :> summaryAndAccept)
Steps2Rfq == (0 :> instrumentAndRequest) @@ (1 :> requestForQuoteSummary)

=============================================================================
