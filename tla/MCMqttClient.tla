---------------------------- MODULE MCMqttClient ----------------------------
\* The instance of MqttClient for TLC; all its constants are numbers.
EXTENDS MqttClient
=============================================================================
