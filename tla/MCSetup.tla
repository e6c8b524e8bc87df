------------------------------ MODULE MCSetup ------------------------------
(* Setup with Ollama's unit, two with a template and one without.          *)
EXTENDS Setup

CONSTANTS ollama, lmStudio, llamaCpp, custom

MCServices == {ollama, lmStudio, llamaCpp, custom}
MCTemplates == {lmStudio, llamaCpp}

=============================================================================
