---------------------------- MODULE MCFaceState ----------------------------
(* Small instances of FaceState for TLC.                                   *)
EXTENDS FaceState, TLC

CONSTANTS gateway, speak, desk, text, heard

\* three processes of one thread each: the gateway, wubu_speak.py, the desk loop
GatewaySpeechDesk == {{gateway}, {speak}, {desk}}
GatewaySpeech == {{gateway}, {speak}}
=============================================================================
