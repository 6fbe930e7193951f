-------------------------- MODULE PolicyTemplates --------------------------
(* The templates the server offers, and the sample input of each.          *)
EXTENDS Rego

D == INSTANCE DigitalAssets
S == INSTANCE SaasMultitenant
C == INSTANCE CustodyHierarchy

\* POLICY_TEMPLATES, and SAMPLE_INPUTS_BY_TEMPLATE with other values to try.
AllTemplates == D!DigitalAssets @@ S!SaasTemplates @@ S!TrustedTemplates @@ C!CustodyTemplates
AllSamples == D!DigitalInputs1 @@ D!DigitalInputs2 @@ D!DigitalInputs3
              @@ S!SaasInputs @@ S!SaasInputs2 @@ S!TrustedInputs @@ C!CustodyInputs
=============================================================================
