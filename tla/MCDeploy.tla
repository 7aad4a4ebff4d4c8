------------------------------ MODULE MCDeploy ------------------------------
(* Instantiation of Deploy for TLC: the property-file values each run      *)
(* enumerates, and the master-datasources.xml contents it starts from.     *)
EXTENDS Deploy

\* TestMode values: the four main() dispatches on and one it does not.
MCTestModes == {"DEBUG", "RELEASE", "SNAPSHOT", "WUM", "NIGHTLY"}

\* Engines whose client reports failures (MYSQL), that no setup branch
\* handles (POSTGRESQL), and that DB_META_DATA lacks (DB2).
MCReportingEngines == {"MYSQL", "POSTGRESQL", "DB2"}

\* Engines whose command-line clients run without a status check.
MCClientEngines == {"SQLSERVER-SE", "ORACLE-SE2"}

MCAllEngines == MCReportingEngines \cup MCClientEngines

\* The test plan names each engine's standard port ...
MCStandardPortsOnly == {}

\* ... or, for MySQL, another one.
MCOtherPorts == {3307}
MCMySql == {"MYSQL"}

MCOsNames == {"CENTOS", "UBUNTU"}

MCProducts == {"product-apim", "product-is"}

\* master-datasources.xml as shipped: WSO2_CARBON_DB first.
MCMasterDsShipped ==
  { <<"WSO2_CARBON_DB", "WSO2AM_DB", "WSO2_MB_STORE_DB">>,
    <<"WSO2_CARBON_DB", "WSO2AM_DB", "WSO2AM_STATS_DB">> }

\* ... and with the user-store datasource WSO2UM_DB already declared.
MCMasterDsWithUm ==
  MCMasterDsShipped \cup { <<"WSO2_CARBON_DB", "WSO2AM_DB", "WSO2UM_DB">> }

=============================================================================
