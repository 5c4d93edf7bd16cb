-------------------------- MODULE ExporterPrivacy ---------------------------
(***************************************************************************)
(* scripts/validate_repository_name_aliases.py, the other half: nothing an *)
(* operational source says may publish the PostgreSQL exporter, port 9187. *)
(* One source of each kind the validator tells apart.                      *)
(***************************************************************************)

Sources == {"internet", "private"}

\* What a source publishes and to whom; "none" if it does not name the exporter.
ExporterStart ==
  [k \in {<<"service", "type">>, <<"service", "backend">>, <<"rules", "web">>,
          <<"rules", "exporter">>, <<"compose", "ports">>, <<"script", "publish">>,
          <<"gateway", "upstream">>, <<"dns", "host">>} |->
     CASE k = <<"service", "type">> -> "ClusterIP"
       [] k = <<"service", "backend">> -> "api"
       [] k = <<"rules", "web">> -> "internet"
       [] k = <<"gateway", "upstream">> -> "api"
       [] OTHER -> "none"]

\* is_compose_source, compose_ports_blocks; docker run -p; the retired host.
PublishedDirectly(t) ==
  \/ t[<<"compose", "ports">>] = "9187"
  \/ t[<<"script", "publish">>] = "9187"
  \/ t[<<"dns", "host">>] = "pgex"

\* A Service is public by its type and the exporter's by its name or port.
_kubernetes_public_service_exposes_exporter(t) ==
  /\ t[<<"service", "type">>] \in {"LoadBalancer", "NodePort", "hostPort"}
  /\ t[<<"service", "backend">>] = "exporter"

\* The scan takes a file for one rule: any port 9187 beside any public source.
OpenRule(t) ==
  /\ t[<<"rules", "exporter">>] # "none"
  /\ "internet" \in {t[<<"rules", "exporter">>], t[<<"rules", "web">>]}

\* is_gateway_source: by its path, its name or what it says; private identity
\* or not, a gateway has no business with the exporter.
GatewayNamesExporter(t) == t[<<"gateway", "upstream">>] = "exporter"

validate_postgres_exporter_privacy(t) ==
  /\ ~PublishedDirectly(t)
  /\ ~_kubernetes_public_service_exposes_exporter(t)
  /\ ~OpenRule(t)
  /\ ~GatewayNamesExporter(t)

ExporterIntended(t) ==
  LET set(k, values) == {[t EXCEPT ![k] = v] : v \in values}
  IN set(<<"service", "type">>, {"ClusterIP", "LoadBalancer", "hostPort"})
       \cup set(<<"service", "backend">>, {"api", "exporter"})
       \cup set(<<"rules", "web">>, Sources)
       \cup set(<<"rules", "exporter">>, Sources \cup {"none"})
       \cup (UNION {set(k, {"none", "9187"}) :
                      k \in {<<"compose", "ports">>, <<"script", "publish">>}})
       \cup set(<<"gateway", "upstream">>, {"api", "exporter"})
       \cup set(<<"dns", "host">>, {"none", "pgex"})

\* Nobody outside reaches the exporter, whichever way.
ExporterIsPrivate(t) ==
  /\ t[<<"service", "backend">>] = "exporter" => t[<<"service", "type">>] = "ClusterIP"
  /\ t[<<"rules", "exporter">>] # "internet"
  /\ t[<<"gateway", "upstream">>] = "api"
  /\ {t[<<"compose", "ports">>], t[<<"script", "publish">>], t[<<"dns", "host">>]} = {"none"}
=============================================================================
