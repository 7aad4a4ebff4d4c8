---------------------------- MODULE MCDatasources ----------------------------
(* Datasources for TLC: the descriptor files of product-apim and the       *)
(* datasources they ship with.                                             *)
EXTENDS Datasources

MCEngines == {"MYSQL", "ORACLE-SE2", "SQLSERVER-SE", "POSTGRESQL"}

MCDsPaths == <<"master-datasources", "metrics-datasources">>

NoConf == [url |-> "", user |-> "", password |-> "", validation |-> "",
           driver |-> ""]

H2Conf(n) == [url |-> "jdbc:h2:./repository/database/" \o n,
              user |-> "wso2carbon", password |-> "wso2carbon",
              validation |-> "SELECT 1", driver |-> "org.h2.Driver"]

\* A shipped <datasource>: name, (description,) jndiConfig, definition.
Ds(n, described) ==
  <<[tag |-> "name", text |-> n, conf |-> NoConf]>>
  \o (IF described THEN <<[tag |-> "description", text |-> "", conf |-> NoConf]>>
      ELSE <<>>)
  \o <<[tag |-> "jndiConfig", text |-> "jdbc/" \o n, conf |-> NoConf],
       [tag |-> "definition", text |-> "", conf |-> H2Conf(n)]>>

MCLayouts ==
  { [f \in {"master-datasources", "metrics-datasources"} |->
       IF f = "master-datasources"
       THEN <<Ds("WSO2_CARBON_DB", TRUE), Ds("WSO2AM_DB", TRUE), Ds(m, d)>>
       ELSE <<Ds("WSO2_METRICS_DB", TRUE)>>] :
      m \in {"WSO2_MB_STORE_DB", "WSO2AM_STATS_DB"}, d \in BOOLEAN }

\* One run, and a second run in the same workspace.
MCMaxRuns == 2

=============================================================================
