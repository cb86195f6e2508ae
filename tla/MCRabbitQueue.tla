--------------------------- MODULE MCRabbitQueue ----------------------------
\* The instance of RabbitQueue for TLC.
EXTENDS RabbitQueue

\* The message before the last goes to an exchange no queue is bound to.
MCRoutable == Msg \ {Messages - 1}
=============================================================================
