------------------------------- MODULE MCHamqtt -------------------------------
(* Instances of HamqttPublisher for TLC.                                    *)
EXTENDS HamqttPublisher, TLC

CONSTANTS e1, v1, v2, live, replay
=============================================================================
