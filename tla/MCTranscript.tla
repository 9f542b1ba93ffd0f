----------------------------- MODULE MCTranscript -----------------------------
EXTENDS Transcript
===============================================================================
